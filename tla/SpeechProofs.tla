----------------------------- MODULE SpeechProofs -----------------------------
(***************************************************************************)
(* Speech, for any pool, number of jobs and depth of screens: the          *)
(* microphone, the types, the two flags that the screen shows, and the     *)
(* slots of the playback pool.                                             *)
(*                                                                         *)
(* The jobs that open and close the microphone wait in a queue; what they  *)
(* will do in its order is told by the places of the two among the others. *)
(* What a flag will be is told by the last event under way that sets it.   *)
(* A slot is counted at all places where it can be held.                   *)
(***************************************************************************)
EXTENDS SpeechPipeline, SequenceTheorems, FiniteSetTheorems, TLAPS

\* The lemmas about the order of jobs do not need the slots to be of the pool.
AudioJob == [op : AudioOp, slot : Nat]

At(q, i, op) == i \in 1 .. Len(q) /\ q[i].op = op

\* Two openings have a closing between them.
Alternates(q) ==
  \A i, j \in 1 .. Len(q) :
    At(q, i, "init") /\ At(q, j, "init") /\ i < j =>
      \E k \in 1 .. Len(q) : At(q, k, "deinit") /\ i < k /\ k < j

\* An open microphone is closed before it is opened.
ClosedFirst(q, open) ==
  open => \A j \in 1 .. Len(q) :
            At(q, j, "init") => \E k \in 1 .. Len(q) : At(q, k, "deinit") /\ k < j

\* In the end it is closed.
ClosedLast(q, open) ==
  /\ open => \E k \in 1 .. Len(q) : At(q, k, "deinit")
  /\ \A i \in 1 .. Len(q) :
       At(q, i, "init") => \E k \in 1 .. Len(q) : At(q, k, "deinit") /\ i < k

Open == mic # "closed"

MicInv ==
  /\ audioQ \in Seq(AudioJob)
  /\ mic \in {"closed", "paused", "recording"} /\ ~leaked
  /\ Alternates(audioQ) /\ ClosedFirst(audioQ, Open)
  /\ Top # "speech" => ClosedLast(audioQ, Open)

-----------------------------------------------------------------------------
(* What one job more or less changes.                                      *)

LEMMA Appended ==
  ASSUME NEW q \in Seq(AudioJob), NEW a \in AudioJob
  PROVE  /\ Append(q, a) \in Seq(AudioJob) /\ Len(Append(q, a)) = Len(q) + 1
         /\ \A op : At(Append(q, a), Len(q) + 1, op) <=> a.op = op
         /\ \A op : \A i \in 1 .. Len(q) : At(Append(q, a), i, op) <=> At(q, i, op)
  BY AppendProperties DEF At

LEMMA AppendPlain ==
  ASSUME NEW q \in Seq(AudioJob), NEW a \in AudioJob, a.op \notin {"init", "deinit"},
         NEW open \in BOOLEAN, Alternates(q), ClosedFirst(q, open)
  PROVE  /\ Append(q, a) \in Seq(AudioJob)
         /\ Alternates(Append(q, a)) /\ ClosedFirst(Append(q, a), open)
         /\ ClosedLast(q, open) => ClosedLast(Append(q, a), open)
<1> DEFINE r == Append(q, a)
<1>1. /\ r \in Seq(AudioJob) /\ Len(r) = Len(q) + 1 /\ Len(q) \in Nat
      /\ ~At(r, Len(q) + 1, "init") /\ ~At(r, Len(q) + 1, "deinit")
      /\ \A i \in 1 .. Len(q) : (At(r, i, "init") <=> At(q, i, "init"))
                                /\ (At(r, i, "deinit") <=> At(q, i, "deinit"))
  BY Appended, LenProperties
<1> HIDE DEF r
<1>2. \A i \in 1 .. Len(r) : i \in 1 .. Len(q) \/ i = Len(q) + 1
  BY <1>1
<1> QED
  BY <1>1, <1>2 DEF Alternates, ClosedFirst, ClosedLast, r

LEMMA AppendDeinit ==
  ASSUME NEW q \in Seq(AudioJob), NEW a \in AudioJob, a.op = "deinit",
         NEW open \in BOOLEAN, Alternates(q), ClosedFirst(q, open)
  PROVE  /\ Append(q, a) \in Seq(AudioJob)
         /\ Alternates(Append(q, a)) /\ ClosedFirst(Append(q, a), open)
         /\ ClosedLast(Append(q, a), open)
<1> DEFINE r == Append(q, a)
<1>1. /\ r \in Seq(AudioJob) /\ Len(r) = Len(q) + 1 /\ Len(q) \in Nat
      /\ ~At(r, Len(q) + 1, "init") /\ At(r, Len(q) + 1, "deinit")
      /\ \A i \in 1 .. Len(q) : (At(r, i, "init") <=> At(q, i, "init"))
                                /\ (At(r, i, "deinit") <=> At(q, i, "deinit"))
  BY Appended, LenProperties
<1> HIDE DEF r
<1>2. \A i \in 1 .. Len(r) : i \in 1 .. Len(q) \/ i = Len(q) + 1
  BY <1>1
<1>3. Len(q) + 1 \in 1 .. Len(r) /\ \A i \in 1 .. Len(q) : i < Len(q) + 1
  BY <1>1
<1> QED
  BY <1>1, <1>2, <1>3 DEF Alternates, ClosedFirst, ClosedLast, r

LEMMA AppendInit ==
  ASSUME NEW q \in Seq(AudioJob), NEW a \in AudioJob, a.op = "init",
         NEW open \in BOOLEAN, Alternates(q), ClosedFirst(q, open), ClosedLast(q, open)
  PROVE  /\ Append(q, a) \in Seq(AudioJob)
         /\ Alternates(Append(q, a)) /\ ClosedFirst(Append(q, a), open)
<1> DEFINE r == Append(q, a)
<1>1. /\ r \in Seq(AudioJob) /\ Len(r) = Len(q) + 1 /\ Len(q) \in Nat
      /\ ~At(r, Len(q) + 1, "deinit")
      /\ \A i \in 1 .. Len(q) : (At(r, i, "init") <=> At(q, i, "init"))
                                /\ (At(r, i, "deinit") <=> At(q, i, "deinit"))
  BY Appended, LenProperties
<1> HIDE DEF r
<1>2. \A i \in 1 .. Len(r) : i \in 1 .. Len(q) \/ i = Len(q) + 1
  BY <1>1
<1>3. (1 .. Len(q)) \subseteq 1 .. Len(r) /\ \A i \in 1 .. Len(q) : i < Len(q) + 1
  BY <1>1
<1>4. Alternates(r)
  BY <1>1, <1>2, <1>3 DEF Alternates, ClosedLast
<1>5. ClosedFirst(r, open)
  BY <1>1, <1>2, <1>3 DEF ClosedFirst, ClosedLast
<1> QED
  BY <1>1, <1>4, <1>5 DEF r

LEMMA Dropped ==
  ASSUME NEW q \in Seq(AudioJob), q # <<>>
  PROVE  /\ Tail(q) \in Seq(AudioJob) /\ Len(q) \in Nat \ {0} /\ Len(Tail(q)) = Len(q) - 1
         /\ \A op : \A i \in 1 .. Len(q) - 1 : At(Tail(q), i, op) <=> At(q, i + 1, op)
         /\ \A op : At(q, 1, op) <=> Head(q).op = op
<1>1. /\ Tail(q) \in Seq(AudioJob) /\ Len(Tail(q)) = Len(q) - 1 /\ Len(q) \in Nat \ {0}
      /\ Head(q) = q[1] /\ \A i \in 1 .. Len(q) - 1 : Tail(q)[i] = q[i + 1]
  BY HeadTailProperties, LenProperties, EmptySeq
<1> QED
  BY <1>1 DEF At

\* The jobs behind the head keep their order.
LEMMA Behind ==
  ASSUME NEW q \in Seq(AudioJob), q # <<>>
  PROVE  /\ Tail(q) \in Seq(AudioJob)
         /\ \A i \in 1 .. Len(Tail(q)) :
              i + 1 \in 1 .. Len(q) /\ (At(Tail(q), i, "init") => At(q, i + 1, "init"))
         /\ \A i \in 1 .. Len(q) :
              At(q, i, "deinit") /\ i > 1
                => i - 1 \in 1 .. Len(Tail(q)) /\ At(Tail(q), i - 1, "deinit")
         /\ Head(q).op # "deinit" => \A i \in 1 .. Len(q) : At(q, i, "deinit") => i > 1
<1> DEFINE r == Tail(q)
<1>1. /\ r \in Seq(AudioJob) /\ Len(q) \in Nat \ {0} /\ Len(r) = Len(q) - 1
      /\ \A i \in 1 .. Len(q) - 1 : (At(r, i, "init") <=> At(q, i + 1, "init"))
                                   /\ (At(r, i, "deinit") <=> At(q, i + 1, "deinit"))
      /\ At(q, 1, "deinit") <=> Head(q).op = "deinit"
  BY Dropped
<1> HIDE DEF r
<1>2. ASSUME NEW i \in 1 .. Len(r)
      PROVE  i + 1 \in 1 .. Len(q) /\ (At(r, i, "init") => At(q, i + 1, "init"))
  BY <1>1
<1>3. ASSUME NEW i \in 1 .. Len(q), At(q, i, "deinit"), i > 1
      PROVE  i - 1 \in 1 .. Len(r) /\ At(r, i - 1, "deinit")
  <2>1. i - 1 \in 1 .. Len(q) - 1 /\ (i - 1) + 1 = i
    BY <1>1, <1>3
  <2> QED
    BY <1>1, <1>3, <2>1
<1>4. ASSUME Head(q).op # "deinit", NEW i \in 1 .. Len(q), At(q, i, "deinit") PROVE i > 1
  <2>1. i # 1
    BY <1>1, <1>4
  <2> QED
    BY <1>1, <2>1
<1> QED
  BY <1>1, <1>2, <1>3, <1>4 DEF r

LEMMA TailAlternates ==
  ASSUME NEW q \in Seq(AudioJob), q # <<>>, Alternates(q) PROVE Alternates(Tail(q))
<1> DEFINE r == Tail(q)
<1>1. SUFFICES ASSUME NEW i \in 1 .. Len(r), NEW j \in 1 .. Len(r),
                      At(r, i, "init"), At(r, j, "init"), i < j
               PROVE  \E k \in 1 .. Len(r) : At(r, k, "deinit") /\ i < k /\ k < j
  BY DEF Alternates
<1>2. i + 1 \in 1 .. Len(q) /\ At(q, i + 1, "init") /\ j + 1 \in 1 .. Len(q)
      /\ At(q, j + 1, "init") /\ i + 1 < j + 1
  BY <1>1, Behind
<1>3. PICK k \in 1 .. Len(q) : At(q, k, "deinit") /\ i + 1 < k /\ k < j + 1
  BY <1>2 DEF Alternates
<1>4. k - 1 \in 1 .. Len(r) /\ At(r, k - 1, "deinit") /\ i < k - 1 /\ k - 1 < j
  BY <1>3, Behind
<1> QED
  BY <1>4

LEMMA TailClosedLast ==
  ASSUME NEW q \in Seq(AudioJob), q # <<>>, NEW open \in BOOLEAN, ClosedLast(q, open)
  PROVE  /\ Head(q).op # "deinit" => ClosedLast(Tail(q), open)
         /\ ClosedLast(Tail(q), FALSE)
<1> DEFINE r == Tail(q)
<1>1. ASSUME NEW i \in 1 .. Len(r), At(r, i, "init")
      PROVE  \E k \in 1 .. Len(r) : At(r, k, "deinit") /\ i < k
  <2>1. i + 1 \in 1 .. Len(q) /\ At(q, i + 1, "init")
    BY <1>1, Behind
  <2>2. PICK k \in 1 .. Len(q) : At(q, k, "deinit") /\ i + 1 < k
    BY <2>1 DEF ClosedLast
  <2>3. k - 1 \in 1 .. Len(r) /\ At(r, k - 1, "deinit") /\ i < k - 1
    BY <2>2, Behind
  <2> QED
    BY <2>3
<1>2. ASSUME open, Head(q).op # "deinit" PROVE \E k \in 1 .. Len(r) : At(r, k, "deinit")
  <2>1. PICK k \in 1 .. Len(q) : At(q, k, "deinit") /\ k > 1
    BY <1>2, Behind DEF ClosedLast
  <2>2. k - 1 \in 1 .. Len(r) /\ At(r, k - 1, "deinit")
    BY <1>2, <2>1, Behind
  <2> QED
    BY <2>2
<1> QED
  BY <1>1, <1>2 DEF ClosedLast

\* The head is done: what is behind it goes on from what it leaves.
LEMMA TailPlain ==
  ASSUME NEW q \in Seq(AudioJob), q # <<>>, Head(q).op \notin {"init", "deinit"},
         NEW open \in BOOLEAN, Alternates(q), ClosedFirst(q, open)
  PROVE  /\ Tail(q) \in Seq(AudioJob)
         /\ Alternates(Tail(q)) /\ ClosedFirst(Tail(q), open)
         /\ ClosedLast(q, open) => ClosedLast(Tail(q), open)
<1> DEFINE r == Tail(q)
<1>1. ASSUME open, NEW j \in 1 .. Len(r), At(r, j, "init")
      PROVE  \E k \in 1 .. Len(r) : At(r, k, "deinit") /\ k < j
  <2>1. j + 1 \in 1 .. Len(q) /\ At(q, j + 1, "init")
    BY <1>1, Behind
  <2>2. PICK k \in 1 .. Len(q) : At(q, k, "deinit") /\ k > 1 /\ k < j + 1
    BY <1>1, <2>1, Behind DEF ClosedFirst
  <2>3. k - 1 \in 1 .. Len(r) /\ At(r, k - 1, "deinit") /\ k - 1 < j
    BY <2>2, Behind
  <2> QED
    BY <2>3
<1>2. ClosedFirst(r, open)
  BY <1>1 DEF ClosedFirst
<1>3. ClosedLast(q, open) => ClosedLast(r, open)
  BY TailClosedLast
<1> QED
  BY <1>2, <1>3, Behind, TailAlternates

LEMMA TailDeinit ==
  ASSUME NEW q \in Seq(AudioJob), q # <<>>, NEW open \in BOOLEAN, Alternates(q)
  PROVE  /\ Tail(q) \in Seq(AudioJob)
         /\ Alternates(Tail(q)) /\ ClosedFirst(Tail(q), FALSE)
         /\ ClosedLast(q, open) => ClosedLast(Tail(q), FALSE)
  BY Behind, TailAlternates, TailClosedLast DEF ClosedFirst

LEMMA TailInit ==
  ASSUME NEW q \in Seq(AudioJob), q # <<>>, Head(q).op = "init",
         NEW open \in BOOLEAN, NEW then \in BOOLEAN, Alternates(q), ClosedFirst(q, open)
  PROVE  /\ ~open
         /\ Tail(q) \in Seq(AudioJob)
         /\ Alternates(Tail(q)) /\ ClosedFirst(Tail(q), then)
         /\ ClosedLast(q, open) => ClosedLast(Tail(q), then)
<1> DEFINE r == Tail(q)
<1>1. At(q, 1, "init") /\ 1 \in 1 .. Len(q)
  BY Dropped
<1>2. ~open
  BY <1>1 DEF ClosedFirst
<1>3. ASSUME NEW j \in 1 .. Len(r), At(r, j, "init")
      PROVE  \E k \in 1 .. Len(r) : At(r, k, "deinit") /\ k < j
  <2>1. j + 1 \in 1 .. Len(q) /\ At(q, j + 1, "init") /\ 1 < j + 1
    BY <1>3, Behind
  <2>2. PICK k \in 1 .. Len(q) : At(q, k, "deinit") /\ 1 < k /\ k < j + 1
    BY <1>1, <2>1 DEF Alternates
  <2>3. k - 1 \in 1 .. Len(r) /\ At(r, k - 1, "deinit") /\ k - 1 < j
    BY <2>2, Behind
  <2> QED
    BY <2>3
<1>4. ASSUME ClosedLast(q, open) PROVE \E k \in 1 .. Len(r) : At(r, k, "deinit")
  <2>1. PICK k \in 1 .. Len(q) : At(q, k, "deinit") /\ 1 < k
    BY <1>1, <1>4 DEF ClosedLast
  <2>2. k - 1 \in 1 .. Len(r) /\ At(r, k - 1, "deinit")
    BY <2>1, Behind
  <2> QED
    BY <2>2
<1>5. ClosedFirst(r, then)
  BY <1>3 DEF ClosedFirst
<1>6. ClosedLast(q, open) => ClosedLast(r, then)
  BY <1>4, TailClosedLast DEF ClosedLast
<1> QED
  BY <1>2, <1>5, <1>6, Behind, TailAlternates

-----------------------------------------------------------------------------
(* The steps.                                                              *)

\* Leaving a screen closes the microphone, or finds it about to be closed.
LEMMA Leaving ==
  ASSUME MicInv
  PROVE  LET q == audioQ \o JobsOfLeaving IN
         q \in Seq(AudioJob) /\ Alternates(q) /\ ClosedFirst(q, Open) /\ ClosedLast(q, Open)
<1> USE DEF MicInv
<1>1. CASE Top # "speech"
  <2>1. audioQ \o JobsOfLeaving = audioQ
    BY <1>1, ConcatEmptySeq DEF JobsOfLeaving
  <2> QED
    BY <1>1, <2>1
<1>2. CASE Top = "speech"
  <2> DEFINE s == Append(audioQ, Job("stop"))
  <2>1. Job("stop") \in AudioJob /\ Job("deinit") \in AudioJob
    BY DEF Job, AudioJob, AudioOp
  <2>2. Job("stop").op = "stop" /\ Job("deinit").op = "deinit" /\ Open \in BOOLEAN
    BY DEF Job, Open
  <2>3. s \in Seq(AudioJob) /\ Alternates(s) /\ ClosedFirst(s, Open)
    BY <2>1, <2>2, AppendPlain
  <2>4. LET q == Append(s, Job("deinit")) IN
        q \in Seq(AudioJob) /\ Alternates(q) /\ ClosedFirst(q, Open) /\ ClosedLast(q, Open)
    <3> HIDE DEF s
    <3> QED
      BY <2>1, <2>2, <2>3, AppendDeinit
  <2>5. audioQ \o JobsOfLeaving = Append(s, Job("deinit"))
    BY <1>2, <2>1 DEF JobsOfLeaving
  <2> QED
    BY <2>4, <2>5
<1> QED
  BY <1>1, <1>2

LEMMA MicStep == MicInv /\ [Next]_vars => MicInv'
<1> SUFFICES ASSUME MicInv, [Next]_vars PROVE MicInv'
  OBVIOUS
<1> USE DEF MicInv
<1>0. Open \in BOOLEAN
  BY DEF Open
<1>1. ASSUME mic' = mic, leaked' = leaked, audioQ' = audioQ \o JobsOfLeaving PROVE MicInv'
  <2>1. Open' = Open
    BY <1>1 DEF Open
  <2> QED
    BY <1>1, <2>1, Leaving
<1>2. ASSUME NEW a \in AudioJob, a.op \notin {"init", "deinit"}, audioQ' = Append(audioQ, a),
             mic' = mic, leaked' = leaked, stack' = stack
      PROVE  MicInv'
  BY <1>0, <1>2, AppendPlain DEF Open, Top
<1>3. ASSUME audioQ # <<>>, Head(audioQ).op \notin {"init", "deinit"}, audioQ' = Tail(audioQ),
             mic' \in {"closed", "paused", "recording"}, mic' = "closed" <=> mic = "closed",
             leaked' = leaked, stack' = stack
      PROVE  MicInv'
  <2>1. Open' = Open
    BY <1>3 DEF Open
  <2> QED
    BY <1>0, <1>3, <2>1, TailPlain DEF Top
<1>4. ASSUME UNCHANGED <<audioQ, mic, leaked, stack>> PROVE MicInv'
  BY <1>4 DEF Open, Top
<1>5. CASE GoSpeech
  <2> DEFINE q == audioQ \o JobsOfLeaving
  <2>1. q \in Seq(AudioJob) /\ Alternates(q) /\ ClosedFirst(q, Open) /\ ClosedLast(q, Open)
    BY Leaving
  <2>2. Job("init") \in AudioJob /\ Job("init").op = "init"
    BY DEF Job, AudioJob, AudioOp
  <2>3. audioQ' = Append(q, Job("init"))
    <3>1. audioQ' = q \o <<Job("init")>>
      BY <1>5 DEF GoSpeech
    <3> HIDE DEF q
    <3> QED
      BY <2>1, <2>2, <3>1
  <2>4. Top' = "speech"
    BY <1>5 DEF GoSpeech, Top
  <2>5. mic' = mic /\ leaked' = leaked /\ Open' = Open
    BY <1>5 DEF GoSpeech, audio, device, Open
  <2> HIDE DEF q
  <2> QED
    BY <1>0, <2>1, <2>2, <2>3, <2>4, <2>5, AppendInit
<1>6. CASE GoElsewhere \/ Push \/ Pop
  BY <1>1, <1>6 DEF GoElsewhere, Push, Pop, audio, device
<1>7. CASE HoldRecord \/ FingerUp \/ PlayRecording
  <2>1. \A op \in {"start", "stopAsr", "playRecording"} :
          Job(op) \in AudioJob /\ Job(op).op = op
    BY DEF Job, AudioJob, AudioOp
  <2>2. PICK op \in {"start", "stopAsr", "playRecording"} : audioQ' = Append(audioQ, Job(op))
    BY <1>7 DEF HoldRecord, FingerUp, PlayRecording
  <2>3. mic' = mic /\ leaked' = leaked /\ stack' = stack
    BY <1>7 DEF HoldRecord, FingerUp, PlayRecording, audio, device
  <2> QED
    BY <1>2, <2>1, <2>2, <2>3
<1>8. CASE Speak \/ RunEvent
  BY <1>4, <1>8 DEF Speak, RunEvent, audio, device
<1>9. CASE RecInit
  <2>1. audioQ # <<>> /\ Head(audioQ).op = "init" /\ audioQ' = Tail(audioQ) /\ stack' = stack
    BY <1>9 DEF RecInit, AudioAt
  <2>2. \/ mic' = "paused" /\ leaked' = (leaked \/ mic # "closed")
        \/ mic' = mic /\ leaked' = leaked
    BY <1>9 DEF RecInit, device
  <2>3. Open' \in BOOLEAN
    BY DEF Open
  <2>4. /\ ~Open /\ audioQ' \in Seq(AudioJob) /\ Alternates(audioQ') /\ ClosedFirst(audioQ', Open')
        /\ ClosedLast(audioQ, Open) => ClosedLast(audioQ', Open')
    BY <1>0, <2>1, <2>3, TailInit
  <2>5. ~leaked /\ ~(mic # "closed")
    BY <2>4 DEF Open
  <2>6. ~leaked'
    BY <2>2, <2>5
  <2>7. mic' \in {"closed", "paused", "recording"}
    BY <2>2
  <2> QED
    BY <2>1, <2>4, <2>6, <2>7 DEF Top
<1>10. CASE RecDeinit
  <2>1. audioQ # <<>> /\ Head(audioQ).op = "deinit" /\ audioQ' = Tail(audioQ)
        /\ stack' = stack /\ mic' = "closed" /\ leaked' = leaked
    BY <1>10 DEF RecDeinit, AudioAt
  <2>2. Open' = FALSE
    BY <2>1 DEF Open
  <2> QED
    BY <1>0, <2>1, <2>2, TailDeinit DEF Top
<1>11. CASE RecStart \/ RecStop \/ RecPlay \/ PlaySlot
  <2>1. audioQ # <<>> /\ Head(audioQ).op \notin {"init", "deinit"} /\ audioQ' = Tail(audioQ)
    BY <1>11 DEF RecStart, RecStop, RecPlay, PlaySlot, AudioAt
  <2>2. mic' \in {"closed", "paused", "recording"} /\ (mic' = "closed" <=> mic = "closed")
    BY <1>11 DEF RecStart, RecStop, RecPlay, PlaySlot, audio, device
  <2>3. leaked' = leaked /\ stack' = stack
    BY <1>11 DEF RecStart, RecStop, RecPlay, PlaySlot, audio, device
  <2> QED
    BY <1>3, <2>1, <2>2, <2>3
<1>12. CASE RecFilled \/ PlayedSlot
  BY <1>4, <1>12 DEF RecFilled, PlayedSlot, device
<1>13. CASE InitTts \/ InitAsr \/ Asr \/ TtsFailed \/ TtsOverrun \/ Release
  BY <1>4, <1>13 DEF InitTts, InitAsr, InitModel, Asr, AsrUnable, AsrEmpty, AsrRead, AsrDone,
                     FreeText, TtsFailed, TtsOverrun, Release, audio, device
<1>14. CASE Tts
  <2>1. PICK i \in Slot : audioQ' = Append(audioQ, SlotJob("play", i))
    BY <1>14 DEF Tts
  <2>2. i \in Nat /\ SlotJob("play", i) \in AudioJob /\ SlotJob("play", i).op = "play"
    BY SpeechAssumption DEF Slot, SlotJob, AudioJob, AudioOp
  <2>3. mic' = mic /\ leaked' = leaked /\ stack' = stack
    BY <1>14 DEF Tts, audio, device
  <2> QED
    BY <1>2, <2>1, <2>2, <2>3
<1>15. CASE Stopped \/ UNCHANGED vars
  BY <1>4, <1>15 DEF Stopped, vars, audio, device
<1> QED
  BY <1>5, <1>6, <1>7, <1>8, <1>9, <1>10, <1>11, <1>12, <1>13, <1>14, <1>15
     DEF Next, Screens, Buttons, Audio, Neuro

LEMMA MicStart == Init => MicInv
  BY EmptySeq DEF Init, MicInv, Alternates, ClosedFirst, ClosedLast, Open, At

\* However screens, presses and the two threads interleave, the recorder is not
\* opened while it is open (on_screen_change, screen_tts_asr_go).
THEOREM RecorderOpenedOnce == Spec => []OneStream
<1>1. MicInv => OneStream
  BY DEF MicInv, OneStream
<1> QED
  BY <1>1, MicStart, MicStep, PTL DEF Spec

\* Away from the speech screen the microphone is closed as soon as the audio
\* thread has done what was asked of it.
THEOREM MicrophoneClosedAway == Spec => []LeavingClosesMicrophone
<1>1. MicInv => LeavingClosesMicrophone
  BY EmptySeq DEF MicInv, LeavingClosesMicrophone, AudioQuiet, ClosedLast, Open
<1> QED
  BY <1>1, MicStart, MicStep, PTL DEF Spec

-----------------------------------------------------------------------------
(* The types, of each thread's variables and of the queues between them.   *)

MainTyped == /\ stack \in Seq({"other", "speech"}) /\ Len(stack) \in 1 .. MaxStack
             /\ flags \in [Flag -> BOOLEAN]
AudioTyped ==
  /\ mic \in {"closed", "paused", "recording"} /\ heard \in BOOLEAN
  /\ leaked \in BOOLEAN /\ size \in Amount
  /\ audioPc \in {"idle", "filling", "playing"} /\ playing \in 0 .. PoolSize
  /\ thenAsr \in BOOLEAN
NeuroTyped ==
  /\ pool \subseteq Slot /\ sounds \subseteq Slot /\ overrun \in BOOLEAN
  /\ neuroPc \in {"idle", "reading"} /\ models \subseteq {"initTts", "initAsr"}
  /\ keptStream \in BOOLEAN /\ emptied \in BOOLEAN
QueuesTyped ==
  /\ audioQ \in Seq(AudioJobs) /\ neuroQ \in Seq(NeuroJobs) /\ events \in Seq(Event)

LEMMA TypeParts == TypeOK <=> MainTyped /\ AudioTyped /\ NeuroTyped /\ QueuesTyped
  BY DEF TypeOK, MainTyped, AudioTyped, NeuroTyped, QueuesTyped

LEMMA JobTypes ==
  /\ \A op \in AudioOp : Job(op) \in AudioJobs
  /\ \A op \in NeuroOp : Job(op) \in NeuroJobs
  /\ \A i \in 0 .. PoolSize :
       SlotJob("play", i) \in AudioJobs /\ SlotJob("release", i) \in NeuroJobs
  BY SpeechAssumption DEF Job, SlotJob, AudioJobs, NeuroJobs, AudioOp, NeuroOp

LEMMA Heads ==
  ASSUME QueuesTyped
  PROVE  /\ audioQ # <<>> => Head(audioQ) \in AudioJobs /\ Tail(audioQ) \in Seq(AudioJobs)
         /\ neuroQ # <<>> => Head(neuroQ) \in NeuroJobs /\ Tail(neuroQ) \in Seq(NeuroJobs)
         /\ events # <<>> => Head(events) \in Event /\ Tail(events) \in Seq(Event)
  BY HeadTailProperties DEF QueuesTyped

LEMMA Shorter ==
  ASSUME NEW S, NEW s \in Seq(S), Len(s) > 1
  PROVE  SubSeq(s, 1, Len(s) - 1) \in Seq(S) /\ Len(SubSeq(s, 1, Len(s) - 1)) = Len(s) - 1
<1> DEFINE n == Len(s) - 1
<1>1. n \in Nat /\ 1 <= n /\ \A i \in 1 .. n : s[i] \in S
  BY LenProperties, ElementOfSeq
<1> HIDE DEF n
<1>2. SubSeq(s, 1, n) \in Seq(S) /\ Len(SubSeq(s, 1, n)) = n
  BY <1>1, SubSeqProperties
<1> QED
  BY <1>2 DEF n

LEMMA MainStep == MainTyped /\ QueuesTyped /\ [Next]_vars => MainTyped'
<1> SUFFICES ASSUME MainTyped, QueuesTyped, [Next]_vars PROVE MainTyped'
  OBVIOUS
<1> USE DEF MainTyped
<1>f. \A f \in Flag : \A v \in BOOLEAN : [flags EXCEPT ![f] = v] \in [Flag -> BOOLEAN]
  OBVIOUS
<1>g. {"pressed", "inProgress"} \subseteq Flag
  BY DEF Flag
<1>s. /\ <<"other">> \in Seq({"other", "speech"}) /\ Len(<<"other">>) = 1
      /\ <<"other", "other">> \in Seq({"other", "speech"}) /\ Len(<<"other", "other">>) = 2
      /\ <<"other", "speech">> \in Seq({"other", "speech"}) /\ Len(<<"other", "speech">>) = 2
      /\ {1, 2} \subseteq 1 .. MaxStack
  BY SpeechAssumption
<1>1. CASE GoSpeech
  BY <1>1, <1>s DEF GoSpeech
<1>2. CASE GoElsewhere
  BY <1>2, <1>s DEF GoElsewhere
<1>3. CASE Push
  <2>1. stack' = Append(stack, "other") /\ Len(stack) < MaxStack /\ flags' = flags
    BY <1>3 DEF Push
  <2>2. stack' \in Seq({"other", "speech"}) /\ Len(stack') = Len(stack) + 1
    BY <2>1
  <2>3. Len(stack) + 1 \in 1 .. MaxStack
    BY <2>1, SpeechAssumption
  <2> QED
    BY <2>1, <2>2, <2>3
<1>4. CASE Pop
  <2>1. Len(stack) > 1 /\ stack' = SubSeq(stack, 1, Len(stack) - 1) /\ flags' = flags
    BY <1>4 DEF Pop
  <2>2. stack' \in Seq({"other", "speech"}) /\ Len(stack') = Len(stack) - 1
    BY <2>1, Shorter
  <2>3. Len(stack) - 1 \in 1 .. MaxStack
    BY <2>1, SpeechAssumption
  <2> QED
    BY <2>1, <2>2, <2>3
<1>5. CASE HoldRecord
  BY <1>5, <1>f, <1>g DEF HoldRecord
<1>6. CASE FingerUp
  BY <1>6, <1>f, <1>g DEF FingerUp
<1>7. CASE RunEvent
  <2>1. events # <<>> /\ Head(events).value \in BOOLEAN
    <3>1. events # <<>> /\ Head(events) \in Event
      BY <1>7, Heads DEF RunEvent
    <3> QED
      BY <3>1 DEF Event
  <2>2. \/ flags' = [flags EXCEPT !["inProgress"] = FALSE]
        \/ /\ Head(events).flag \in Flag
           /\ flags' = [flags EXCEPT ![Head(events).flag] = Head(events).value]
        \/ flags' = flags
    BY <1>7 DEF RunEvent
  <2>3. flags' \in [Flag -> BOOLEAN]
    BY <2>1, <2>2, <1>f, <1>g
  <2>4. stack' = stack
    BY <1>7 DEF RunEvent
  <2> QED
    BY <2>3, <2>4
<1>8. CASE UNCHANGED <<stack, flags>>
  BY <1>8
<1>9. ASSUME PlayRecording \/ Speak \/ Audio \/ Neuro \/ Stopped \/ UNCHANGED vars
      PROVE  UNCHANGED <<stack, flags>>
  BY <1>9 DEF PlayRecording, Speak, Audio, RecInit, RecStart, RecStop, RecFilled, RecDeinit,
       RecPlay, PlaySlot, PlayedSlot, Neuro, InitTts, InitAsr, InitModel, Asr, AsrUnable,
       AsrEmpty, AsrRead, AsrDone, FreeText, TtsFailed, Tts, TtsOverrun, Release, Stopped, vars
<1> QED
  BY <1>1, <1>2, <1>3, <1>4, <1>5, <1>6, <1>7, <1>8, <1>9 DEF Next, Screens, Buttons

LEMMA AudioStep == AudioTyped /\ QueuesTyped /\ [Next]_vars => AudioTyped'
<1> SUFFICES ASSUME AudioTyped, QueuesTyped, [Next]_vars PROVE AudioTyped'
  OBVIOUS
<1> USE DEF AudioTyped
<1>1. CASE UNCHANGED audio
  BY <1>1 DEF audio, device
<1>2. ASSUME Screens \/ Buttons \/ RunEvent \/ Neuro \/ RecPlay \/ Stopped \/ UNCHANGED vars
      PROVE  UNCHANGED audio
  BY <1>2 DEF Screens, GoSpeech, GoElsewhere, Push, Pop, Buttons, HoldRecord, FingerUp,
       PlayRecording, Speak, RunEvent, RecPlay, Neuro, InitTts, InitAsr, InitModel, Asr,
       AsrUnable, AsrEmpty, AsrRead, AsrDone, FreeText, TtsFailed, Tts, TtsOverrun, Release,
       Stopped, vars
<1>3. CASE RecInit
  BY <1>3 DEF RecInit, device
<1>4. CASE RecStart
  BY <1>4 DEF RecStart
<1>5. CASE RecStop
  BY <1>5 DEF RecStop, Amount
<1>6. CASE RecFilled
  <2>1. heard' \in BOOLEAN /\ size' \in Amount
    <3>1. PICK n \in IF heard THEN Amount ELSE {0} :
                 size' = n /\ heard' \in IF n = 2 THEN BOOLEAN ELSE {FALSE}
      BY <1>6 DEF RecFilled
    <3>2. n \in Amount
      BY <3>1 DEF Amount
    <3>3. heard' \in BOOLEAN
      <4>1. CASE n = 2
        BY <3>1, <4>1
      <4>2. CASE n # 2
        BY <3>1, <4>2
      <4> QED
        BY <4>1, <4>2
    <3> QED
      BY <3>1, <3>2, <3>3
  <2> QED
    BY <1>6, <2>1 DEF RecFilled
<1>7. CASE RecDeinit
  BY <1>7 DEF RecDeinit
<1>8. CASE PlaySlot
  <2>1. Head(audioQ).slot \in 0 .. PoolSize
    BY <1>8, Heads DEF PlaySlot, AudioAt, AudioJobs
  <2> QED
    BY <1>8, <2>1 DEF PlaySlot, device
<1>9. CASE PlayedSlot
  BY <1>9, SpeechAssumption DEF PlayedSlot, device
<1> QED
  BY <1>1, <1>2, <1>3, <1>4, <1>5, <1>6, <1>7, <1>8, <1>9 DEF Next, Audio

LEMMA NeuroStep == NeuroTyped /\ [Next]_vars => NeuroTyped'
<1> SUFFICES ASSUME NeuroTyped, [Next]_vars PROVE NeuroTyped'
  OBVIOUS
<1> USE DEF NeuroTyped
<1>1. CASE UNCHANGED neuro
  BY <1>1 DEF neuro
<1>2. ASSUME Screens \/ Buttons \/ RunEvent \/ Audio \/ AsrUnable \/ FreeText \/ TtsFailed
             \/ Stopped \/ UNCHANGED vars
      PROVE  UNCHANGED neuro
  BY <1>2 DEF Screens, GoSpeech, GoElsewhere, Push, Pop, Buttons, HoldRecord, FingerUp,
       PlayRecording, Speak, RunEvent, Audio, RecInit, RecStart, RecStop, RecFilled, RecDeinit,
       RecPlay, PlaySlot, PlayedSlot, AsrUnable, FreeText, TtsFailed, Stopped, vars
<1>3. CASE InitTts \/ InitAsr
  BY <1>3 DEF InitTts, InitAsr, InitModel
<1>4. CASE AsrEmpty \/ AsrRead \/ AsrDone
  BY <1>4 DEF AsrEmpty, AsrRead, AsrDone
<1>5. CASE Tts
  BY <1>5 DEF Tts
<1>6. CASE TtsOverrun
  BY <1>6 DEF TtsOverrun
<1>7. CASE Release
  BY <1>7 DEF Release
<1> QED
  BY <1>1, <1>2, <1>3, <1>4, <1>5, <1>6, <1>7 DEF Next, Neuro, Asr

LEMMA QueuesStep == TypeOK /\ [Next]_vars => QueuesTyped'
<1> SUFFICES ASSUME QueuesTyped, AudioTyped, [Next]_vars PROVE QueuesTyped'
  BY TypeParts
<1> USE DEF QueuesTyped
<1>a. /\ \A op \in {"init", "start", "stop", "stopAsr", "deinit", "playRecording"} :
           Append(audioQ, Job(op)) \in Seq(AudioJobs)
      /\ \A op \in {"asr", "tts", "freeText"} : Append(neuroQ, Job(op)) \in Seq(NeuroJobs)
      /\ \A i \in 0 .. PoolSize : /\ Append(audioQ, SlotJob("play", i)) \in Seq(AudioJobs)
                                 /\ Append(neuroQ, SlotJob("release", i)) \in Seq(NeuroJobs)
  BY JobTypes DEF AudioOp, NeuroOp
<1>e. \A f \in Flag \cup {"initialized", "ttsReady", "text"} : \A v \in BOOLEAN :
        Set(f, v) \in Event /\ Append(events, Set(f, v)) \in Seq(Event)
  BY DEF Set, Event
<1>f. {"initialized", "ttsReady", "text", "recording", "inProgress", "asrReady"}
        \subseteq Flag \cup {"initialized", "ttsReady", "text"}
  BY DEF Flag
<1>l. audioQ \o JobsOfLeaving \in Seq(AudioJobs)
  <2>1. Job("stop") \in AudioJobs /\ Job("deinit") \in AudioJobs
    BY JobTypes DEF AudioOp
  <2>2. JobsOfLeaving \in Seq(AudioJobs)
    BY <2>1 DEF JobsOfLeaving
  <2> QED
    BY <2>2, ConcatProperties
<1>1. CASE GoSpeech
  <2>1. <<Job("init")>> \in Seq(AudioJobs)
    BY JobTypes DEF AudioOp
  <2>2. (audioQ \o JobsOfLeaving) \o <<Job("init")>> \in Seq(AudioJobs)
    BY <1>l, <2>1, ConcatProperties
  <2> QED
    BY <1>1, <2>2 DEF GoSpeech
<1>2. CASE GoElsewhere \/ Push \/ Pop
  BY <1>2, <1>l DEF GoElsewhere, Push, Pop
<1>3. CASE Buttons
  BY <1>3, <1>a DEF Buttons, HoldRecord, FingerUp, PlayRecording, Speak
<1>4. CASE RunEvent
  <2>1. neuroQ' = neuroQ \/ neuroQ' = Append(neuroQ, Job("freeText"))
    BY <1>4 DEF RunEvent
  <2>2. events # <<>> /\ events' = Tail(events) /\ audioQ' = audioQ
    BY <1>4 DEF RunEvent
  <2> QED
    BY <1>a, <2>1, <2>2, Heads
<1>5. ASSUME RecInit \/ RecStart \/ RecStop \/ RecDeinit \/ RecPlay \/ PlaySlot
      PROVE  /\ audioQ' \in Seq(AudioJobs) /\ neuroQ' = neuroQ
             /\ \/ events' = events
                \/ \E f \in Flag \cup {"initialized", "ttsReady", "text"} : \E v \in BOOLEAN :
                     events' = Append(events, Set(f, v))
  <2>1. audioQ # <<>> /\ audioQ' = Tail(audioQ)
    BY <1>5 DEF RecInit, RecStart, RecStop, RecDeinit, RecPlay, PlaySlot, AudioAt
  <2>2. neuroQ' = neuroQ
    BY <1>5 DEF RecInit, RecStart, RecStop, RecDeinit, RecPlay, PlaySlot
  <2>3. \/ events' = events
        \/ events' = Append(events, Set("initialized", TRUE))
        \/ events' = Append(events, Set("recording", TRUE))
        \/ events' = Append(events, Set("recording", FALSE))
    BY <1>5 DEF RecInit, RecStart, RecStop, RecDeinit, RecPlay, PlaySlot, Tell
  <2> QED
    BY <1>f, <2>1, <2>2, <2>3, Heads
<1>6. CASE RecInit \/ RecStart \/ RecStop \/ RecDeinit \/ RecPlay \/ PlaySlot
  BY <1>5, <1>6, <1>e
<1>7. CASE RecFilled
  <2>1. neuroQ' = neuroQ \/ neuroQ' = Append(neuroQ, Job("asr"))
    BY <1>7 DEF RecFilled
  <2>2. audioQ' = audioQ /\ events' = events
    BY <1>7 DEF RecFilled
  <2> QED
    BY <1>a, <2>1, <2>2
<1>8. CASE PlayedSlot
  <2>1. playing \in 0 .. PoolSize
    BY DEF AudioTyped
  <2> QED
    BY <1>8, <1>a, <2>1 DEF PlayedSlot
<1>9. ASSUME InitTts \/ InitAsr \/ FreeText \/ TtsFailed \/ Tts \/ TtsOverrun \/ Release
             \/ AsrUnable \/ AsrEmpty \/ AsrRead
      PROVE  neuroQ # <<>> /\ neuroQ' = Tail(neuroQ)
  BY <1>9 DEF InitTts, InitAsr, InitModel, FreeText, TtsFailed, Tts, TtsOverrun, Release,
              AsrUnable, AsrEmpty, AsrRead, NeuroAt
<1>10. CASE InitTts \/ InitAsr \/ FreeText \/ TtsFailed \/ TtsOverrun \/ Release
  <2>1. \/ events' = events
        \/ events' = Append(events, Set("ttsReady", TRUE))
        \/ events' = Append(events, Set("asrReady", TRUE))
    BY <1>10 DEF InitTts, InitAsr, InitModel, FreeText, TtsFailed, TtsOverrun, Release, Tell
  <2>2. audioQ' = audioQ
    BY <1>10 DEF InitTts, InitAsr, InitModel, FreeText, TtsFailed, TtsOverrun, Release
  <2> QED
    BY <1>9, <1>10, <1>e, <1>f, <2>1, <2>2, Heads
<1>11. CASE AsrUnable \/ AsrEmpty \/ AsrRead
  <2>1. /\ <<Set("inProgress", TRUE)>> \in Seq(Event) /\ Ended \in Seq(Event)
        /\ <<>> \in Seq(Event)
    <3>1. Set("inProgress", TRUE) \in Event /\ Set("inProgress", FALSE) \in Event
      BY <1>e, <1>f
    <3>2. \A e \in Event : <<e>> \in Seq(Event)
      OBVIOUS
    <3> QED
      BY <3>1, <3>2, EmptySeq DEF Ended
  <2>2. \A s \in Seq(Event) : (events \o <<Set("inProgress", TRUE)>>) \o s \in Seq(Event)
    BY <2>1, ConcatProperties
  <2>3. \E s \in {Ended, <<>>} : events' = (events \o <<Set("inProgress", TRUE)>>) \o s
    BY <1>11 DEF AsrUnable, AsrEmpty, AsrRead, Announce
  <2>4. audioQ' = audioQ
    BY <1>11 DEF AsrUnable, AsrEmpty, AsrRead
  <2> QED
    BY <1>9, <1>11, <2>1, <2>2, <2>3, <2>4, Heads
<1>12. CASE AsrDone
  <2>1. \/ events' = Append(events, Set("text", TRUE))
        \/ events' = Append(events, Set("inProgress", FALSE))
    BY <1>12 DEF AsrDone, Tell
  <2>2. audioQ' = audioQ /\ neuroQ' = neuroQ
    BY <1>12 DEF AsrDone
  <2> QED
    BY <1>e, <1>f, <2>1, <2>2
<1>13. CASE Tts
  <2>1. \E i \in 0 .. PoolSize : audioQ' = Append(audioQ, SlotJob("play", i))
    BY <1>13, SpeechAssumption DEF Tts, Slot
  <2>2. events' = events
    BY <1>13 DEF Tts
  <2> QED
    BY <1>9, <1>13, <1>a, <2>1, <2>2, Heads
<1>14. CASE Stopped \/ UNCHANGED vars
  BY <1>14 DEF Stopped, vars
<1> QED
  BY <1>1, <1>2, <1>3, <1>4, <1>6, <1>7, <1>8, <1>10, <1>11, <1>12, <1>13, <1>14
     DEF Next, Screens, Audio, Asr, Neuro

LEMMA TypeStart == Init => TypeOK
<1> SUFFICES ASSUME Init PROVE MainTyped /\ AudioTyped /\ NeuroTyped /\ QueuesTyped
  BY TypeParts
<1>1. QueuesTyped
  <2>1. Job("initTts") \in NeuroJobs /\ Job("initAsr") \in NeuroJobs
    BY JobTypes DEF NeuroOp
  <2> QED
    BY <2>1 DEF Init, QueuesTyped
<1>2. MainTyped
  <2>1. stack = <<"other">> /\ flags = [f \in Flag |-> FALSE]
    BY DEF Init
  <2>2. <<"other">> \in Seq({"other", "speech"}) /\ Len(<<"other">>) \in 1 .. MaxStack
    BY SpeechAssumption
  <2>3. flags \in [Flag -> BOOLEAN]
    BY <2>1
  <2> QED
    BY <2>1, <2>2, <2>3 DEF MainTyped
<1>3. AudioTyped /\ NeuroTyped
  <2>1. AudioTyped
    <3>1. /\ mic = "closed" /\ heard = FALSE /\ leaked = FALSE /\ size = 0
          /\ audioPc = "idle" /\ playing = 0 /\ thenAsr = FALSE
      BY DEF Init
    <3>2. 0 \in Amount /\ 0 \in 0 .. PoolSize
      BY SpeechAssumption DEF Amount
    <3> QED
      BY <3>1, <3>2 DEF AudioTyped
  <2>2. NeuroTyped
    BY DEF Init, NeuroTyped
  <2> QED
    BY <2>1, <2>2
<1> QED
  BY <1>1, <1>2, <1>3

LEMMA TypeStep == TypeOK /\ [Next]_vars => TypeOK'
<1> SUFFICES ASSUME TypeOK, [Next]_vars
             PROVE  MainTyped' /\ AudioTyped' /\ NeuroTyped' /\ QueuesTyped'
  BY DEF TypeOK, MainTyped, AudioTyped, NeuroTyped, QueuesTyped
<1> QED
  BY TypeParts, MainStep, AudioStep, NeuroStep, QueuesStep

\* No queue, flag or slot index leaves its type, for any pool and any stack.
THEOREM SpeechTypeCorrect == Spec => []TypeOK
  BY TypeStart, TypeStep, PTL DEF Spec

-----------------------------------------------------------------------------
(* What the screen will show once the events under way have arrived.       *)

Touches(e, f) == e.flag = f \/ (f = "inProgress" /\ e.flag = "text")
Means(e, v) == IF e.flag = "text" THEN ~v ELSE e.value <=> v

\* The last event of q that is about f sets it to v, or, without one, f is v.
WillShow(q, f, old, v) ==
  \/ (\A k \in 1 .. Len(q) : ~Touches(q[k], f)) /\ (old <=> v)
  \/ \E k \in 1 .. Len(q) :
       /\ Touches(q[k], f) /\ Means(q[k], v)
       /\ \A j \in 1 .. Len(q) : Touches(q[j], f) => j <= k

LEMMA ShowAppended ==
  ASSUME NEW q \in Seq(Event), NEW e \in Event, NEW f, NEW old, NEW v
  PROVE  /\ Append(q, e) \in Seq(Event)
         /\ Touches(e, f) /\ Means(e, v) => WillShow(Append(q, e), f, old, v)
         /\ ~Touches(e, f) /\ WillShow(q, f, old, v) => WillShow(Append(q, e), f, old, v)
<1> DEFINE r == Append(q, e)
<1>1. /\ r \in Seq(Event) /\ Len(r) = Len(q) + 1 /\ Len(q) \in Nat /\ r[Len(q) + 1] = e
      /\ \A k \in 1 .. Len(q) : r[k] = q[k]
  BY AppendProperties, LenProperties
<1> HIDE DEF r
<1>2. \A k \in 1 .. Len(r) : k \in 1 .. Len(q) \/ k = Len(q) + 1
  BY <1>1
<1>3. Len(q) + 1 \in 1 .. Len(r) /\ \A k \in 1 .. Len(r) : k <= Len(q) + 1
  BY <1>1
<1>4. ASSUME Touches(e, f), Means(e, v) PROVE WillShow(r, f, old, v)
  <2>1. Touches(r[Len(q) + 1], f) /\ Means(r[Len(q) + 1], v)
    BY <1>1, <1>4
  <2> QED
    BY <1>3, <2>1 DEF WillShow
<1>5. ASSUME ~Touches(e, f), WillShow(q, f, old, v) PROVE WillShow(r, f, old, v)
  <2>1. CASE (\A k \in 1 .. Len(q) : ~Touches(q[k], f)) /\ (old <=> v)
    <3>1. \A k \in 1 .. Len(r) : ~Touches(r[k], f)
      BY <1>1, <1>2, <1>5, <2>1
    <3> QED
      BY <2>1, <3>1 DEF WillShow
  <2>2. ASSUME NEW k \in 1 .. Len(q), Touches(q[k], f), Means(q[k], v),
               \A j \in 1 .. Len(q) : Touches(q[j], f) => j <= k
        PROVE  WillShow(r, f, old, v)
    <3>1. k \in 1 .. Len(r) /\ Touches(r[k], f) /\ Means(r[k], v)
      BY <1>1, <2>2
    <3>2. \A j \in 1 .. Len(r) : Touches(r[j], f) => j <= k
      BY <1>1, <1>2, <1>5, <2>2
    <3> QED
      BY <3>1, <3>2 DEF WillShow
  <2> QED
    BY <1>5, <2>1, <2>2 DEF WillShow
<1> QED
  BY <1>1, <1>4, <1>5 DEF r

LEMMA ShowArrived ==
  ASSUME NEW q \in Seq(Event), q # <<>>, NEW f, NEW old, NEW new, NEW v,
         WillShow(q, f, old, v),
         Touches(Head(q), f) => (Means(Head(q), v) => (new <=> v)),
         ~Touches(Head(q), f) => (new <=> old)
  PROVE  WillShow(Tail(q), f, new, v)
<1> DEFINE r == Tail(q)
<1>1. /\ r \in Seq(Event) /\ Len(r) = Len(q) - 1 /\ Len(q) \in Nat \ {0}
      /\ Head(q) = q[1] /\ \A k \in 1 .. Len(r) : r[k] = q[k + 1]
  BY HeadTailProperties, LenProperties, EmptySeq
<1> HIDE DEF r
<1>2. \A k \in 1 .. Len(r) : k + 1 \in 1 .. Len(q)
  BY <1>1
<1>3. CASE (\A k \in 1 .. Len(q) : ~Touches(q[k], f)) /\ (old <=> v)
  <2>1. \A k \in 1 .. Len(r) : ~Touches(r[k], f)
    BY <1>1, <1>2, <1>3
  <2>2. ~Touches(Head(q), f)
    BY <1>1, <1>3
  <2> QED
    BY <1>3, <2>1, <2>2 DEF WillShow, r
<1>4. ASSUME NEW k \in 1 .. Len(q), Touches(q[k], f), Means(q[k], v),
             \A j \in 1 .. Len(q) : Touches(q[j], f) => j <= k
      PROVE  WillShow(r, f, new, v)
  <2>1. CASE k = 1
    <3>1. \A j \in 1 .. Len(r) : ~Touches(r[j], f)
      BY <1>1, <1>2, <1>4, <2>1
    <3>2. new <=> v
      BY <1>1, <1>4, <2>1
    <3> QED
      BY <3>1, <3>2 DEF WillShow
  <2>2. CASE k # 1
    <3>1. k - 1 \in 1 .. Len(r) /\ (k - 1) + 1 = k
      BY <1>1, <2>2
    <3>2. Touches(r[k - 1], f) /\ Means(r[k - 1], v)
      BY <1>1, <1>4, <3>1
    <3>3. \A j \in 1 .. Len(r) : Touches(r[j], f) => j <= k - 1
      BY <1>1, <1>2, <1>4
    <3> QED
      BY <3>1, <3>2, <3>3 DEF WillShow
  <2> QED
    BY <2>1, <2>2
<1> QED
  BY <1>3, <1>4 DEF WillShow, r

LEMMA ShowNow ==
  ASSUME NEW f, NEW old, NEW v, WillShow(<<>>, f, old, v) PROVE old <=> v
<1>1. \A k \in 1 .. Len(<<>>) : FALSE
  OBVIOUS
<1> QED
  BY <1>1 DEF WillShow

\* The stop of the recorder goes before its closing.
StopsFirst(q, recording) ==
  \A i \in 1 .. Len(q) :
    At(q, i, "deinit") => IF i = 1 THEN ~recording ELSE At(q, i - 1, "stop")

RecordingInv ==
  /\ WillShow(events, "recording", flags["recording"], mic = "recording")
  /\ StopsFirst(audioQ, mic = "recording")

\* A recognition that was announced is under way, or will be taken back.
ProgressInv ==
  neuroPc = "reading" \/ emptied \/ WillShow(events, "inProgress", flags["inProgress"], FALSE)

FlagInv == TypeOK /\ MicInv /\ RecordingInv /\ ProgressInv

\* The events of the threads.
LEMMA Told ==
  ASSUME TypeOK, NEW f \in Flag \cup {"initialized", "ttsReady", "text"}, NEW b \in BOOLEAN,
         NEW g, NEW old, NEW v
  PROVE  LET r == Append(events, Set(f, b)) IN
         /\ r \in Seq(Event)
         /\ (f = g \/ (g = "inProgress" /\ f = "text")) /\ (IF f = "text" THEN ~v ELSE b <=> v)
              => WillShow(r, g, old, v)
         /\ f # g /\ ~(g = "inProgress" /\ f = "text") /\ WillShow(events, g, old, v)
              => WillShow(r, g, old, v)
<1>1. Set(f, b) \in Event /\ Set(f, b).flag = f /\ (Set(f, b).value <=> b)
  BY DEF Set, Event
<1>2. events \in Seq(Event)
  BY DEF TypeOK
<1>3. Touches(Set(f, b), g) <=> f = g \/ (g = "inProgress" /\ f = "text")
  BY <1>1 DEF Touches
<1>4. Means(Set(f, b), v) <=> IF f = "text" THEN ~v ELSE b <=> v
  BY <1>1 DEF Means
<1> QED
  BY <1>1, <1>2, <1>3, <1>4, ShowAppended

LEMMA StopsTail ==
  ASSUME NEW q \in Seq(AudioJob), q # <<>>, NEW was, NEW is, StopsFirst(q, was),
         Head(q).op = "stop" => ~is
  PROVE  StopsFirst(Tail(q), is)
<1> DEFINE r == Tail(q)
<1>1. /\ r \in Seq(AudioJob) /\ Len(q) \in Nat \ {0} /\ Len(r) = Len(q) - 1
      /\ \A op : \A i \in 1 .. Len(q) - 1 : At(r, i, op) <=> At(q, i + 1, op)
      /\ \A op : At(q, 1, op) <=> Head(q).op = op
  BY Dropped
<1> HIDE DEF r
<1>2. ASSUME NEW i \in 1 .. Len(r), At(r, i, "deinit")
      PROVE  IF i = 1 THEN ~is ELSE At(r, i - 1, "stop")
  <2>1. i + 1 \in 1 .. Len(q) /\ i + 1 # 1 /\ At(q, i + 1, "deinit") /\ (i + 1) - 1 = i
    BY <1>1, <1>2
  <2>2. At(q, i, "stop")
    BY <2>1 DEF StopsFirst
  <2>3. CASE i = 1
    BY <1>1, <2>2, <2>3
  <2>4. CASE i # 1
    <3>1. i - 1 \in 1 .. Len(q) - 1 /\ (i - 1) + 1 = i
      BY <1>1, <2>4
    <3> QED
      BY <1>1, <2>2, <2>4, <3>1
  <2> QED
    BY <2>3, <2>4
<1> QED
  BY <1>2 DEF StopsFirst, r

LEMMA StopsAppend ==
  ASSUME NEW q \in Seq(AudioJob), NEW a \in AudioJob, NEW rec, StopsFirst(q, rec),
         a.op = "deinit" => Len(q) > 0 /\ At(q, Len(q), "stop")
  PROVE  StopsFirst(Append(q, a), rec)
<1> DEFINE r == Append(q, a)
<1>1. /\ r \in Seq(AudioJob) /\ Len(r) = Len(q) + 1 /\ Len(q) \in Nat
      /\ \A op : At(r, Len(q) + 1, op) <=> a.op = op
      /\ \A op : \A i \in 1 .. Len(q) : At(r, i, op) <=> At(q, i, op)
  BY Appended, LenProperties
<1> HIDE DEF r
<1>2. ASSUME NEW i \in 1 .. Len(r), At(r, i, "deinit")
      PROVE  IF i = 1 THEN ~rec ELSE At(r, i - 1, "stop")
  <2>1. CASE i \in 1 .. Len(q)
    <3>1. IF i = 1 THEN ~rec ELSE At(q, i - 1, "stop")
      BY <1>1, <1>2, <2>1 DEF StopsFirst
    <3>2. i # 1 => i - 1 \in 1 .. Len(q)
      BY <1>1, <2>1
    <3> QED
      BY <1>1, <3>1, <3>2
  <2>2. CASE i = Len(q) + 1
    <3>1. Len(q) > 0 /\ At(q, Len(q), "stop")
      BY <1>1, <1>2, <2>2
    <3>2. i # 1 /\ i - 1 = Len(q) /\ Len(q) \in 1 .. Len(q)
      BY <1>1, <2>2, <3>1
    <3> QED
      BY <1>1, <3>1, <3>2
  <2> QED
    BY <1>1, <2>1, <2>2
<1> QED
  BY <1>2 DEF StopsFirst, r

LEMMA StopsLeaving ==
  ASSUME NEW rec, audioQ \in Seq(AudioJob), StopsFirst(audioQ, rec)
  PROVE  audioQ \o JobsOfLeaving \in Seq(AudioJob) /\ StopsFirst(audioQ \o JobsOfLeaving, rec)
<1>1. CASE Top # "speech"
  <2>1. audioQ \o JobsOfLeaving = audioQ
    BY <1>1, ConcatEmptySeq DEF JobsOfLeaving
  <2> QED
    BY <2>1
<1>2. CASE Top = "speech"
  <2> DEFINE s == Append(audioQ, Job("stop"))
  <2>1. /\ Job("stop") \in AudioJob /\ Job("deinit") \in AudioJob
        /\ Job("stop").op = "stop" /\ Job("deinit").op = "deinit"
    BY DEF Job, AudioJob, AudioOp
  <2>2. /\ s \in Seq(AudioJob) /\ Len(s) = Len(audioQ) + 1 /\ Len(audioQ) \in Nat
        /\ At(s, Len(audioQ) + 1, "stop")
    BY <2>1, Appended, LenProperties
  <2>3. StopsFirst(s, rec)
    BY <2>1, StopsAppend
  <2>4. audioQ \o JobsOfLeaving = Append(s, Job("deinit"))
    BY <1>2, <2>1 DEF JobsOfLeaving
  <2> HIDE DEF s
  <2>5. Append(s, Job("deinit")) \in Seq(AudioJob) /\ StopsFirst(Append(s, Job("deinit")), rec)
    BY <2>1, <2>2, <2>3, StopsAppend
  <2> QED
    BY <2>4, <2>5
<1> QED
  BY <1>1, <1>2

LEMMA RecordingStep == TypeOK /\ MicInv /\ RecordingInv /\ [Next]_vars => RecordingInv'
<1> SUFFICES ASSUME TypeOK, MicInv, RecordingInv, [Next]_vars PROVE RecordingInv'
  OBVIOUS
<1> USE DEF RecordingInv
<1>q. audioQ \in Seq(AudioJob) /\ events \in Seq(Event)
  BY DEF MicInv, TypeOK
<1>d. "recording" \in Flag
  BY DEF Flag
<1>1. ASSUME events' = events, flags'["recording"] = flags["recording"], mic' = mic
      PROVE  WillShow(events, "recording", flags["recording"], mic = "recording")'
  BY <1>1
<1>2. CASE GoSpeech
  <2> DEFINE q == audioQ \o JobsOfLeaving
  <2>1. q \in Seq(AudioJob) /\ StopsFirst(q, mic = "recording")
    BY <1>q, StopsLeaving
  <2>2. Job("init") \in AudioJob /\ Job("init").op # "deinit"
    BY DEF Job, AudioJob, AudioOp
  <2>3. audioQ' = Append(q, Job("init"))
    <3>1. audioQ' = q \o <<Job("init")>>
      BY <1>2 DEF GoSpeech
    <3> HIDE DEF q
    <3> QED
      BY <2>1, <2>2, <3>1
  <2>4. mic' = mic /\ events' = events /\ flags' = flags
    BY <1>2 DEF GoSpeech, audio, device
  <2> HIDE DEF q
  <2>5. StopsFirst(audioQ', mic' = "recording")
    BY <2>1, <2>2, <2>3, <2>4, StopsAppend
  <2> QED
    BY <1>1, <2>4, <2>5
<1>3. CASE GoElsewhere \/ Push \/ Pop
  <2>1. audioQ' = audioQ \o JobsOfLeaving /\ mic' = mic /\ events' = events /\ flags' = flags
    BY <1>3 DEF GoElsewhere, Push, Pop, audio, device
  <2> QED
    BY <1>1, <1>q, <2>1, StopsLeaving
<1>4. CASE HoldRecord \/ FingerUp \/ PlayRecording \/ Tts
  <2>1. PICK a \in AudioJob : a.op # "deinit" /\ audioQ' = Append(audioQ, a)
    <3>1. \A op \in {"start", "stopAsr", "playRecording"} : Job(op) \in AudioJob /\ Job(op).op = op
      BY DEF Job, AudioJob, AudioOp
    <3>2. \A i \in Slot : SlotJob("play", i) \in AudioJob /\ SlotJob("play", i).op = "play"
      BY SpeechAssumption DEF Slot, SlotJob, AudioJob, AudioOp
    <3>3. ASSUME HoldRecord \/ FingerUp \/ PlayRecording
          PROVE  \E op \in {"start", "stopAsr", "playRecording"} : audioQ' = Append(audioQ, Job(op))
      BY <3>3 DEF HoldRecord, FingerUp, PlayRecording
    <3>4. ASSUME Tts PROVE \E i \in Slot : audioQ' = Append(audioQ, SlotJob("play", i))
      BY <3>4 DEF Tts
    <3> QED
      BY <1>4, <3>1, <3>2, <3>3, <3>4
  <2>2. mic' = mic /\ events' = events
    BY <1>4 DEF HoldRecord, FingerUp, PlayRecording, Tts, audio, device
  <2>3. \/ flags' = flags
        \/ \E b \in BOOLEAN : flags' = [flags EXCEPT !["pressed"] = b]
    BY <1>4 DEF HoldRecord, FingerUp, PlayRecording, Tts
  <2>4. flags'["recording"] = flags["recording"]
    <3>1. flags \in [Flag -> BOOLEAN] /\ "pressed" # "recording"
      BY DEF TypeOK
    <3> QED
      BY <1>d, <2>3, <3>1
  <2>5. StopsFirst(audioQ', mic' = "recording")
    BY <1>q, <2>1, <2>2, StopsAppend
  <2> QED
    BY <1>1, <2>2, <2>4, <2>5
<1>5. CASE RunEvent
  <2>1. events # <<>> /\ events' = Tail(events) /\ audioQ' = audioQ /\ mic' = mic
    BY <1>5 DEF RunEvent, audio, device
  <2> DEFINE e == Head(events)
  <2>2. e \in Event
    BY <2>1, <1>q, HeadTailProperties
  <2>3. e.flag # "text" => flags' = IF e.flag \in Flag THEN [flags EXCEPT ![e.flag] = e.value]
                                    ELSE flags
    BY <1>5 DEF RunEvent
  <2>4. e.flag = "text" => flags' = [flags EXCEPT !["inProgress"] = FALSE]
    BY <1>5 DEF RunEvent
  <2>5. flags \in [Flag -> BOOLEAN]
    BY DEF TypeOK
  <2> HIDE DEF e
  <2>6. e.flag = "recording" => flags'["recording"] = e.value
    BY <1>d, <2>3, <2>5
  <2>7. e.flag # "recording" => flags'["recording"] = flags["recording"]
    <3>1. "inProgress" # "recording"
      OBVIOUS
    <3> QED
      BY <1>d, <2>3, <2>4, <2>5, <3>1
  <2>8. Touches(e, "recording") <=> e.flag = "recording"
    BY DEF Touches
  <2>9. e.flag = "recording" => (Means(e, mic = "recording") <=> (e.value <=> mic = "recording"))
    BY DEF Means
  <2>10. WillShow(Tail(events), "recording", flags'["recording"], mic = "recording")
    <3>1. Touches(Head(events), "recording")
            => (Means(Head(events), mic = "recording")
                  => (flags'["recording"] <=> mic = "recording"))
      BY <2>6, <2>8, <2>9 DEF e
    <3>2. ~Touches(Head(events), "recording") => (flags'["recording"] <=> flags["recording"])
      BY <2>7, <2>8 DEF e
    <3> QED
      BY <1>q, <2>1, <3>1, <3>2, ShowArrived
  <2> QED
    BY <2>1, <2>10
<1>6. ASSUME NEW f \in Flag \cup {"initialized", "ttsReady", "text"}, NEW b \in BOOLEAN,
             events' = Append(events, Set(f, b)), flags' = flags,
             IF f = "recording" THEN b <=> mic' = "recording"
                                ELSE mic' = "recording" <=> mic = "recording"
      PROVE  WillShow(events, "recording", flags["recording"], mic = "recording")'
  <2>1. CASE f = "recording"
    <3>1. WillShow(Append(events, Set(f, b)), "recording", flags["recording"], mic' = "recording")
      BY <1>6, <2>1, Told
    <3> QED
      BY <1>6, <3>1
  <2>2. CASE f # "recording"
    <3>1. WillShow(events, "recording", flags["recording"], mic' = "recording")
      BY <1>6, <2>2
    <3>2. WillShow(Append(events, Set(f, b)), "recording", flags["recording"], mic' = "recording")
      BY <1>6, <2>2, <3>1, Told
    <3> QED
      BY <1>6, <3>2
  <2> QED
    BY <2>1, <2>2
<1>7. ASSUME audioQ # <<>>, audioQ' = Tail(audioQ), Head(audioQ).op = "stop" => mic' # "recording"
      PROVE  StopsFirst(audioQ', mic' = "recording")
  BY <1>q, <1>7, StopsTail
<1>s. {"initialized", "recording", "ttsReady", "asrReady", "inProgress", "text"}
        \subseteq Flag \cup {"initialized", "ttsReady", "text"}
  BY DEF Flag
<1>8. CASE RecInit
  <2>1. audioQ # <<>> /\ Head(audioQ).op = "init" /\ audioQ' = Tail(audioQ) /\ flags' = flags
    BY <1>8 DEF RecInit, AudioAt
  <2>2. \/ mic' = "paused" /\ events' = Append(events, Set("initialized", TRUE))
        \/ mic' = mic /\ events' = events
    BY <1>8 DEF RecInit, device, Tell
  <2>3. mic = "closed"
    <3>1. ~Open
      BY <1>q, <2>1, TailInit DEF MicInv, Open
    <3> QED
      BY <3>1 DEF Open
  <2>4. WillShow(events, "recording", flags["recording"], mic = "recording")'
    <3>1. mic' = "recording" <=> mic = "recording"
      BY <2>2, <2>3
    <3> QED
      BY <1>1, <1>6, <1>s, <2>1, <2>2, <3>1
  <2> QED
    BY <1>7, <2>1, <2>4
<1>9. CASE RecStart
  <2>1. audioQ # <<>> /\ Head(audioQ).op = "start" /\ audioQ' = Tail(audioQ) /\ flags' = flags
    BY <1>9 DEF RecStart, AudioAt
  <2>2. \/ mic' = mic /\ events' = events
        \/ mic' = "recording" /\ events' = Append(events, Set("recording", TRUE))
    BY <1>9 DEF RecStart, Tell
  <2>3. WillShow(events, "recording", flags["recording"], mic = "recording")'
    BY <1>1, <1>6, <1>s, <2>1, <2>2
  <2> QED
    BY <1>7, <2>1, <2>3
<1>10. CASE RecStop
  <2>1. audioQ # <<>> /\ audioQ' = Tail(audioQ) /\ flags' = flags
    BY <1>10 DEF RecStop, AudioAt
  <2>2. mic' # "recording" /\ events' = Append(events, Set("recording", FALSE))
    BY <1>10 DEF RecStop, Tell
  <2>3. WillShow(events, "recording", flags["recording"], mic = "recording")'
    BY <1>6, <1>s, <2>1, <2>2
  <2> QED
    BY <1>7, <2>1, <2>2, <2>3
<1>11. CASE RecDeinit
  <2>1. audioQ # <<>> /\ Head(audioQ).op = "deinit" /\ audioQ' = Tail(audioQ) /\ flags' = flags
    BY <1>11 DEF RecDeinit, AudioAt
  <2>2. mic' = "closed" /\ events' = Append(events, Set("initialized", TRUE))
    BY <1>11 DEF RecDeinit, Tell
  <2>3. mic # "recording"
    <3>1. At(audioQ, 1, "deinit") /\ 1 \in 1 .. Len(audioQ)
      BY <1>q, <2>1, Dropped
    <3> QED
      BY <3>1 DEF StopsFirst
  <2>4. WillShow(events, "recording", flags["recording"], mic = "recording")'
    BY <1>6, <1>s, <2>1, <2>2, <2>3
  <2> QED
    BY <1>7, <2>1, <2>4
<1>12. CASE RecPlay \/ PlaySlot
  <2>1. /\ audioQ # <<>> /\ Head(audioQ).op # "stop" /\ audioQ' = Tail(audioQ)
        /\ mic' = mic /\ events' = events /\ flags' = flags
    BY <1>12 DEF RecPlay, PlaySlot, AudioAt, audio, device
  <2> QED
    BY <1>1, <1>7, <2>1
<1>13. CASE InitTts \/ InitAsr \/ AsrDone
  <2>1. /\ audioQ' = audioQ /\ mic' = mic /\ flags' = flags
    BY <1>13 DEF InitTts, InitAsr, InitModel, AsrDone, audio, device
  <2>2. \/ events' = events
        \/ \E f \in {"ttsReady", "asrReady", "text", "inProgress"} : \E b \in BOOLEAN :
             events' = Append(events, Set(f, b))
    BY <1>13 DEF InitTts, InitAsr, InitModel, AsrDone, Tell
  <2> QED
    BY <1>1, <1>6, <1>s, <2>1, <2>2
<1>14. CASE AsrUnable \/ AsrEmpty \/ AsrRead
  <2>1. audioQ' = audioQ /\ mic' = mic /\ flags' = flags
    BY <1>14 DEF AsrUnable, AsrEmpty, AsrRead, audio, device
  <2> DEFINE e == Set("inProgress", TRUE)  d == Set("inProgress", FALSE)
             r == Append(events, e)
  <2>2. /\ e \in Event /\ d \in Event
        /\ ~Touches(e, "recording") /\ ~Touches(d, "recording")
    BY <1>s DEF Set, Event, Touches
  <2>3. events' = r \/ events' = Append(r, d)
    <3>1. \/ events' = events \o <<e>> \o <<>>
          \/ events' = events \o <<e>> \o <<d>>
      BY <1>14 DEF AsrUnable, AsrEmpty, AsrRead, Announce, Ended
    <3> HIDE DEF e, d
    <3>2. events \o <<e>> = r /\ r \in Seq(Event)
      BY <1>q, <2>2, AppendIsConcat, AppendProperties
    <3>3. r \o <<d>> = Append(r, d) /\ r \o <<>> = r
      BY <2>2, <3>2, AppendIsConcat, ConcatEmptySeq
    <3> QED
      BY <3>1, <3>2, <3>3
  <2> HIDE DEF e, d
  <2>4. r \in Seq(Event) /\ WillShow(r, "recording", flags["recording"], mic = "recording")
    BY <1>q, <2>2, ShowAppended
  <2> HIDE DEF r
  <2>5. WillShow(Append(r, d), "recording", flags["recording"], mic = "recording")
    BY <2>2, <2>4, ShowAppended
  <2> QED
    BY <2>1, <2>3, <2>4, <2>5
<1>15. CASE Speak \/ RecFilled \/ PlayedSlot \/ FreeText \/ TtsFailed \/ TtsOverrun \/ Release
            \/ Stopped \/ UNCHANGED vars
  <2>1. audioQ' = audioQ /\ mic' = mic /\ events' = events /\ flags' = flags
    BY <1>15 DEF Speak, RecFilled, PlayedSlot, FreeText, TtsFailed, TtsOverrun, Release, Stopped,
                 vars, audio, device
  <2> QED
    BY <1>1, <2>1
<1> QED
  BY <1>2, <1>3, <1>4, <1>5, <1>8, <1>9, <1>10, <1>11, <1>12, <1>13, <1>14, <1>15
     DEF Next, Screens, Buttons, Audio, Asr, Neuro

LEMMA ProgressStep == TypeOK /\ ProgressInv /\ [Next]_vars => ProgressInv'
<1> SUFFICES ASSUME TypeOK, ProgressInv, [Next]_vars PROVE ProgressInv'
  OBVIOUS
<1> DEFINE P == WillShow(events, "inProgress", flags["inProgress"], FALSE)
<1>q. events \in Seq(Event)
  BY DEF TypeOK
<1>d. "inProgress" \in Flag
  BY DEF Flag
<1>s. {"initialized", "recording", "ttsReady", "asrReady", "inProgress", "text"}
        \subseteq Flag \cup {"initialized", "ttsReady", "text"}
  BY DEF Flag
<1>1. ASSUME events' = events, flags'["inProgress"] = flags["inProgress"],
             neuroPc' = neuroPc, emptied' = emptied
      PROVE  ProgressInv'
  BY <1>1 DEF ProgressInv
<1>2. ASSUME NEW f \in {"initialized", "recording", "ttsReady", "asrReady"}, NEW b \in BOOLEAN,
             events' = Append(events, Set(f, b)), flags' = flags,
             neuroPc' = neuroPc, emptied' = emptied
      PROVE  ProgressInv'
  <2>1. P => WillShow(Append(events, Set(f, b)), "inProgress", flags["inProgress"], FALSE)
    BY <1>s, Told
  <2> QED
    BY <1>2, <2>1 DEF ProgressInv
<1>3. CASE HoldRecord \/ FingerUp
  <2>1. \E b \in BOOLEAN : flags' = [flags EXCEPT !["pressed"] = b]
    BY <1>3 DEF HoldRecord, FingerUp
  <2>2. flags'["inProgress"] = flags["inProgress"]
    <3>1. flags \in [Flag -> BOOLEAN] /\ "pressed" # "inProgress"
      BY DEF TypeOK
    <3> QED
      BY <1>d, <2>1, <3>1
  <2>3. events' = events /\ neuroPc' = neuroPc /\ emptied' = emptied
    BY <1>3 DEF HoldRecord, FingerUp, neuro
  <2> QED
    BY <1>1, <2>2, <2>3
<1>4. CASE RunEvent
  <2>1. events # <<>> /\ events' = Tail(events) /\ neuroPc' = neuroPc /\ emptied' = emptied
    BY <1>4 DEF RunEvent, neuro
  <2> DEFINE e == Head(events)
  <2>2. e \in Event
    BY <2>1, <1>q, HeadTailProperties
  <2>3. e.flag # "text" => flags' = IF e.flag \in Flag THEN [flags EXCEPT ![e.flag] = e.value]
                                    ELSE flags
    BY <1>4 DEF RunEvent
  <2>4. e.flag = "text" => flags' = [flags EXCEPT !["inProgress"] = FALSE]
    BY <1>4 DEF RunEvent
  <2>5. flags \in [Flag -> BOOLEAN]
    BY DEF TypeOK
  <2> HIDE DEF e
  <2>6. /\ e.flag = "text" => flags'["inProgress"] = FALSE
        /\ e.flag = "inProgress" => flags'["inProgress"] = e.value
    BY <1>d, <2>3, <2>4, <2>5
  <2>7. e.flag \notin {"inProgress", "text"} => flags'["inProgress"] = flags["inProgress"]
    BY <1>d, <2>3, <2>5
  <2>8. Touches(e, "inProgress") <=> e.flag \in {"inProgress", "text"}
    BY DEF Touches
  <2>9. e.flag = "inProgress" => (Means(e, FALSE) <=> (e.value <=> FALSE))
    BY DEF Means
  <2>10. P => WillShow(Tail(events), "inProgress", flags'["inProgress"], FALSE)
    <3>1. Touches(Head(events), "inProgress")
            => (Means(Head(events), FALSE) => (flags'["inProgress"] <=> FALSE))
      BY <2>6, <2>8, <2>9 DEF e
    <3>2. ~Touches(Head(events), "inProgress")
            => (flags'["inProgress"] <=> flags["inProgress"])
      BY <2>7, <2>8 DEF e
    <3> QED
      BY <1>q, <2>1, <3>1, <3>2, ShowArrived
  <2> QED
    BY <2>1, <2>10 DEF ProgressInv
<1>5. CASE RecInit \/ RecStart \/ RecStop \/ RecDeinit \/ InitTts \/ InitAsr
  <2>1. flags' = flags /\ neuroPc' = neuroPc /\ emptied' = emptied
    BY <1>5 DEF RecInit, RecStart, RecStop, RecDeinit, InitTts, InitAsr, InitModel, neuro
  <2>2. \/ events' = events
        \/ \E f \in {"initialized", "recording", "ttsReady", "asrReady"} : \E b \in BOOLEAN :
             events' = Append(events, Set(f, b))
    BY <1>5 DEF RecInit, RecStart, RecStop, RecDeinit, InitTts, InitAsr, InitModel, Tell
  <2> QED
    BY <1>1, <1>2, <2>1, <2>2
<1>6. CASE AsrEmpty \/ AsrRead
  BY <1>6 DEF AsrEmpty, AsrRead, ProgressInv
<1>7. CASE AsrDone
  <2>1. flags' = flags /\ (\/ events' = Append(events, Set("text", TRUE))
                           \/ events' = Append(events, Set("inProgress", FALSE)))
    BY <1>7 DEF AsrDone, Tell
  <2>2. \A old : /\ WillShow(Append(events, Set("text", TRUE)), "inProgress", old, FALSE)
                 /\ WillShow(Append(events, Set("inProgress", FALSE)), "inProgress", old, FALSE)
    BY <1>s, Told
  <2> QED
    BY <2>1, <2>2 DEF ProgressInv
<1>8. CASE AsrUnable
  <2>1. flags' = flags
    BY <1>8 DEF AsrUnable
  <2> DEFINE e == Set("inProgress", TRUE)  d == Set("inProgress", FALSE)
             r == Append(events, e)
  <2>2. /\ e \in Event /\ d \in Event
        /\ Touches(d, "inProgress") /\ Means(d, FALSE)
    BY <1>s DEF Set, Event, Touches, Means
  <2>3. events' = Append(r, d)
    <3>1. events' = events \o <<e>> \o <<d>>
      BY <1>8 DEF AsrUnable, Announce, Ended
    <3> HIDE DEF e, d
    <3>2. events \o <<e>> = r /\ r \in Seq(Event)
      BY <1>q, <2>2, AppendIsConcat, AppendProperties
    <3>3. r \o <<d>> = Append(r, d)
      BY <2>2, <3>2, AppendIsConcat
    <3> QED
      BY <3>1, <3>2, <3>3
  <2> HIDE DEF e, d
  <2>4. r \in Seq(Event)
    BY <1>q, <2>2, ShowAppended
  <2> HIDE DEF r
  <2>5. \A old : WillShow(Append(r, d), "inProgress", old, FALSE)
    BY <2>2, <2>4, ShowAppended
  <2> QED
    BY <2>1, <2>3, <2>5 DEF ProgressInv
<1>9. CASE Screens \/ PlayRecording \/ Speak \/ RecFilled \/ RecPlay \/ PlaySlot \/ PlayedSlot
           \/ FreeText \/ TtsFailed \/ Tts \/ TtsOverrun \/ Release \/ Stopped \/ UNCHANGED vars
  <2>1. events' = events /\ flags' = flags /\ neuroPc' = neuroPc /\ emptied' = emptied
    BY <1>9 DEF Screens, GoSpeech, GoElsewhere, Push, Pop, PlayRecording, Speak, RecFilled,
         RecPlay, PlaySlot, PlayedSlot, FreeText, TtsFailed, Tts, TtsOverrun, Release, Stopped,
         vars, neuro
  <2> QED
    BY <1>1, <2>1
<1> QED
  BY <1>3, <1>4, <1>5, <1>6, <1>7, <1>8, <1>9 DEF Next, Buttons, Audio, Asr, Neuro

LEMMA FlagStart == Init => RecordingInv /\ ProgressInv
<1> SUFFICES ASSUME Init PROVE RecordingInv /\ ProgressInv
  OBVIOUS
<1>1. /\ events = <<>> /\ audioQ = <<>> /\ mic = "closed"
      /\ flags["recording"] = FALSE /\ flags["inProgress"] = FALSE
  <2>1. events = <<>> /\ audioQ = <<>> /\ mic = "closed"
    BY DEF Init
  <2>2. flags = [f \in Flag |-> FALSE]
    BY DEF Init
  <2>3. "recording" \in Flag /\ "inProgress" \in Flag
    BY DEF Flag
  <2>4. flags["recording"] = FALSE /\ flags["inProgress"] = FALSE
    BY <2>2, <2>3, Zenon
  <2> QED
    BY <2>1, <2>4
<1>2. \A k \in 1 .. Len(<<>>) : FALSE
  OBVIOUS
<1>3. RecordingInv
  BY <1>1, <1>2 DEF RecordingInv, WillShow, StopsFirst
<1>4. ProgressInv
  BY <1>1, <1>2 DEF ProgressInv, WillShow
<1> QED
  BY <1>3, <1>4

LEMMA FlagsHold == Spec => []FlagInv
<1>1. Init => FlagInv
  BY TypeStart, MicStart, FlagStart DEF FlagInv
<1>2. FlagInv /\ [Next]_vars => FlagInv'
  BY TypeStep, MicStep, RecordingStep, ProgressStep DEF FlagInv
<1> QED
  BY <1>1, <1>2, PTL DEF Spec

\* Once all messages have arrived, the screen says that the microphone records
\* exactly when it does, however presses, jobs and events have passed each other.
THEOREM FlagIsTrue == Spec => []FlagTellsMicrophone
<1>1. FlagInv => FlagTellsMicrophone
  <2> SUFFICES ASSUME FlagInv, events = <<>> PROVE flags.recording <=> mic = "recording"
    BY DEF FlagTellsMicrophone
  <2>1. WillShow(<<>>, "recording", flags["recording"], mic = "recording")
    BY DEF FlagInv, RecordingInv
  <2>2. \A k \in 1 .. Len(<<>>) : FALSE
    OBVIOUS
  <2> QED
    BY <2>1, <2>2 DEF WillShow
<1> QED
  BY <1>1, FlagsHold, PTL

\* A recognition that was announced is taken back, by a text or by a failure,
\* unless it found the recording gone.
THEOREM RecognitionsEnd == Spec => []RecognitionSettles
<1>1. FlagInv => RecognitionSettles
  <2> SUFFICES ASSUME FlagInv, Quiet, flags.inProgress PROVE emptied
    BY DEF RecognitionSettles
  <2>1. events = <<>> /\ neuroPc = "idle"
    BY DEF Quiet
  <2>2. WillShow(<<>>, "inProgress", flags["inProgress"], FALSE) => ~flags["inProgress"]
    BY ShowNow
  <2> QED
    BY <2>1, <2>2 DEF FlagInv, ProgressInv
<1> QED
  BY <1>1, FlagsHold, PTL

-----------------------------------------------------------------------------
(* The slots of the pool, counted where they are held.                     *)

HeldAt(q, op, i) == {k \in 1 .. Len(q) : q[k].op = op /\ q[k].slot = i}
Count(q, op, i) == Cardinality(HeldAt(q, op, i))
One(p) == IF p THEN 1 ELSE 0

LEMMA HeldFinite ==
  ASSUME NEW S, NEW q \in Seq(S), NEW op, NEW i
  PROVE  IsFiniteSet(HeldAt(q, op, i)) /\ Count(q, op, i) \in Nat
<1>1. IsFiniteSet(1 .. Len(q))
  <2>1. Len(q) \in Int /\ 1 \in Int
    BY LenProperties
  <2> QED
    BY <2>1, FS_Interval
<1>2. HeldAt(q, op, i) \in SUBSET (1 .. Len(q))
  BY DEF HeldAt
<1> QED
  BY <1>1, <1>2, FS_Subset, FS_CardinalityType DEF Count

LEMMA HeldAppended ==
  ASSUME NEW S, NEW q \in Seq(S), NEW a \in S, NEW op, NEW i
  PROVE  Count(Append(q, a), op, i) = Count(q, op, i) + One(a.op = op /\ a.slot = i)
<1> DEFINE r == Append(q, a)
<1>1. /\ Len(r) = Len(q) + 1 /\ Len(q) \in Nat /\ r[Len(q) + 1] = a
      /\ \A k \in 1 .. Len(q) : r[k] = q[k]
  BY AppendProperties, LenProperties
<1> HIDE DEF r
<1>2. 1 .. Len(r) = (1 .. Len(q)) \cup {Len(q) + 1}
  BY <1>1
<1>3. Len(q) + 1 \notin 1 .. Len(q)
  BY <1>1
<1>4. IsFiniteSet(HeldAt(q, op, i)) /\ Count(q, op, i) \in Nat
  BY HeldFinite
<1>5. CASE a.op = op /\ a.slot = i
  <2>1. HeldAt(r, op, i) = HeldAt(q, op, i) \cup {Len(q) + 1}
    BY <1>1, <1>2, <1>3, <1>5 DEF HeldAt
  <2>2. Len(q) + 1 \notin HeldAt(q, op, i)
    BY <1>3 DEF HeldAt
  <2>3. Cardinality(HeldAt(r, op, i)) = Cardinality(HeldAt(q, op, i)) + 1
    BY <1>4, <2>1, <2>2, FS_AddElement
  <2> QED
    BY <1>5, <2>3 DEF Count, One, r
<1>6. CASE ~(a.op = op /\ a.slot = i)
  <2>1. HeldAt(r, op, i) = HeldAt(q, op, i)
    BY <1>1, <1>2, <1>3, <1>6 DEF HeldAt
  <2> QED
    BY <1>4, <1>6, <2>1 DEF Count, One, r
<1> QED
  BY <1>5, <1>6

\* The places behind the head move up by one.
LEMMA HeldDropped ==
  ASSUME NEW S, NEW q \in Seq(S), q # <<>>, NEW op, NEW i
  PROVE  Count(q, op, i) = Count(Tail(q), op, i) + One(Head(q).op = op /\ Head(q).slot = i)
<1> DEFINE r == Tail(q)
           T == HeldAt(r, op, i)
           U == HeldAt(q, op, i)
           f == [k \in T |-> k + 1]
<1>1. /\ r \in Seq(S) /\ Len(r) = Len(q) - 1 /\ Len(q) \in Nat \ {0}
      /\ Head(q) = q[1] /\ \A k \in 1 .. Len(q) - 1 : r[k] = q[k + 1]
  BY HeadTailProperties, LenProperties, EmptySeq
<1> HIDE DEF r
<1>2. IsFiniteSet(T) /\ Cardinality(T) \in Nat /\ IsFiniteSet(U) /\ Cardinality(U) \in Nat
  BY <1>1, HeldFinite DEF Count
<1>3. f \in [T -> U \ {1}]
  <2> SUFFICES ASSUME NEW k \in T PROVE k + 1 \in U \ {1}
    OBVIOUS
  <2> QED
    BY <1>1 DEF HeldAt
<1>4. \A k, l \in T : f[k] = f[l] => k = l
  <2>1. T \subseteq Nat
    BY DEF HeldAt
  <2>2. \A k, l \in Nat : k + 1 = l + 1 => k = l
    OBVIOUS
  <2> HIDE DEF T
  <2> QED
    BY <2>1, <2>2
<1>5. \A u \in U \ {1} : \E k \in T : f[k] = u
  <2> SUFFICES ASSUME NEW u \in U \ {1} PROVE \E k \in T : f[k] = u
    OBVIOUS
  <2>1. u - 1 \in T /\ (u - 1) + 1 = u
    BY <1>1 DEF HeldAt
  <2> QED
    BY <2>1
<1>6. Cardinality(U \ {1}) = Cardinality(T)
  <2>1. f \in Bijection(T, U \ {1})
    BY <1>3, <1>4, <1>5, Zenon DEF Bijection, Injection, Surjection, IsInjective
  <2> QED
    BY <1>2, <2>1, FS_Bijection DEF ExistsBijection
<1>7. Cardinality(U \ {1}) = IF 1 \in U THEN Cardinality(U) - 1 ELSE Cardinality(U)
  BY <1>2, FS_RemoveElement
<1>8. 1 \in U <=> Head(q).op = op /\ Head(q).slot = i
  BY <1>1 DEF HeldAt
<1>9. Cardinality(U) = Cardinality(T) + One(Head(q).op = op /\ Head(q).slot = i)
  <2> HIDE DEF T, U
  <2>1. CASE 1 \in U
    BY <1>2, <1>6, <1>7, <1>8, <2>1 DEF One
  <2>2. CASE 1 \notin U
    BY <1>2, <1>6, <1>7, <1>8, <2>2 DEF One
  <2> QED
    BY <2>1, <2>2
<1> QED
  BY <1>9 DEF Count, r

LEMMA HeldBehind ==
  ASSUME NEW S, NEW q \in Seq(S), q # <<>>, NEW op, NEW i
  PROVE  /\ Tail(q) \in Seq(S) /\ Count(Tail(q), op, i) \in Nat
         /\ Count(q, op, i) = Count(Tail(q), op, i)
                               + One(Head(q).op = op /\ Head(q).slot = i)
<1>1. Tail(q) \in Seq(S)
  BY HeadTailProperties
<1>2. Count(Tail(q), op, i) \in Nat
  BY <1>1, HeldFinite
<1> QED
  BY <1>1, <1>2, HeldDropped

Now(i) == One(audioPc = "playing" /\ playing = i)

SlotInv ==
  \A i \in Slot :
    /\ Count(audioQ, "play", i) + Count(neuroQ, "release", i) + Now(i) = One(i \in pool)
    /\ i \in sounds <=> i \in pool

\* The jobs that are not about a slot leave the counts as they are.
LEMMA OtherJobs ==
  ASSUME TypeOK, NEW i
  PROVE  /\ \A op \in {"init", "start", "stop", "stopAsr", "deinit", "playRecording"} :
              Count(Append(audioQ, Job(op)), "play", i) = Count(audioQ, "play", i)
         /\ \A op \in {"asr", "tts", "freeText"} :
              Count(Append(neuroQ, Job(op)), "release", i) = Count(neuroQ, "release", i)
         /\ audioQ \o JobsOfLeaving \in Seq(AudioJobs)
         /\ Count(audioQ \o JobsOfLeaving, "play", i) = Count(audioQ, "play", i)
<1>1. audioQ \in Seq(AudioJobs) /\ neuroQ \in Seq(NeuroJobs)
  BY DEF TypeOK
<1>2. Count(audioQ, "play", i) \in Nat /\ Count(neuroQ, "release", i) \in Nat
  BY <1>1, HeldFinite
<1>3. ASSUME NEW op \in {"init", "start", "stop", "stopAsr", "deinit", "playRecording"},
             NEW q \in Seq(AudioJobs)
      PROVE  /\ Append(q, Job(op)) \in Seq(AudioJobs)
             /\ Count(Append(q, Job(op)), "play", i) = Count(q, "play", i)
  <2>1. Job(op) \in AudioJobs /\ Job(op).op = op /\ op # "play"
    BY JobTypes DEF Job, AudioOp
  <2>2. Count(Append(q, Job(op)), "play", i) = Count(q, "play", i) + 0 /\ Count(q, "play", i) \in Nat
    BY <2>1, HeldAppended, HeldFinite DEF One
  <2> QED
    BY <2>1, <2>2
<1>4. ASSUME NEW op \in {"asr", "tts", "freeText"}
      PROVE  Count(Append(neuroQ, Job(op)), "release", i) = Count(neuroQ, "release", i)
  <2>1. Job(op) \in NeuroJobs /\ Job(op).op = op /\ op # "release"
    BY JobTypes DEF Job, NeuroOp
  <2>2. Count(Append(neuroQ, Job(op)), "release", i) = Count(neuroQ, "release", i) + 0
    BY <1>1, <2>1, HeldAppended DEF One
  <2> QED
    BY <1>2, <2>2
<1>5. /\ audioQ \o JobsOfLeaving \in Seq(AudioJobs)
      /\ Count(audioQ \o JobsOfLeaving, "play", i) = Count(audioQ, "play", i)
  <2>1. CASE Top # "speech"
    <3>1. audioQ \o JobsOfLeaving = audioQ
      BY <1>1, <2>1, ConcatEmptySeq DEF JobsOfLeaving
    <3> QED
      BY <1>1, <3>1
  <2>2. CASE Top = "speech"
    <3> DEFINE s == Append(audioQ, Job("stop"))
    <3>1. audioQ \o JobsOfLeaving = Append(s, Job("deinit"))
      <4>1. Job("stop") \in AudioJobs /\ Job("deinit") \in AudioJobs
        BY JobTypes DEF AudioOp
      <4> QED
        BY <1>1, <2>2, <4>1 DEF JobsOfLeaving
    <3>2. s \in Seq(AudioJobs) /\ Count(s, "play", i) = Count(audioQ, "play", i)
      BY <1>1, <1>3
    <3> HIDE DEF s
    <3>3. /\ Append(s, Job("deinit")) \in Seq(AudioJobs)
          /\ Count(Append(s, Job("deinit")), "play", i) = Count(s, "play", i)
      BY <1>3, <3>2
    <3> QED
      BY <3>1, <3>2, <3>3
  <2> QED
    BY <2>1, <2>2
<1> QED
  BY <1>1, <1>3, <1>4, <1>5

LEMMA SlotStep == TypeOK /\ SlotInv /\ [Next]_vars => SlotInv'
<1> SUFFICES ASSUME TypeOK, SlotInv, [Next]_vars, NEW i \in Slot
             PROVE  /\ Count(audioQ', "play", i) + Count(neuroQ', "release", i) + Now(i)'
                         = One(i \in pool')
                    /\ i \in sounds' <=> i \in pool'
  BY DEF SlotInv
<1>q. audioQ \in Seq(AudioJobs) /\ neuroQ \in Seq(NeuroJobs)
  BY DEF TypeOK
<1> DEFINE a == Count(audioQ, "play", i)
           n == Count(neuroQ, "release", i)
           A == Count(audioQ', "play", i)
           N == Count(neuroQ', "release", i)
<1>n. a \in Nat /\ n \in Nat
  BY <1>q, HeldFinite
<1>i. a + n + Now(i) = One(i \in pool) /\ (i \in sounds <=> i \in pool)
  BY DEF SlotInv
<1>a. audioQ # <<>> => /\ Tail(audioQ) \in Seq(AudioJobs)
                       /\ a = Count(Tail(audioQ), "play", i)
                              + One(Head(audioQ).op = "play" /\ Head(audioQ).slot = i)
                       /\ Count(Tail(audioQ), "play", i) \in Nat
  BY <1>q, HeldBehind
<1>r. neuroQ # <<>> => /\ Tail(neuroQ) \in Seq(NeuroJobs)
                       /\ n = Count(Tail(neuroQ), "release", i)
                              + One(Head(neuroQ).op = "release" /\ Head(neuroQ).slot = i)
                       /\ Count(Tail(neuroQ), "release", i) \in Nat
  BY <1>q, HeldBehind
<1>k. ASSUME A = a, N = n, pool' = pool, sounds' = sounds,
             UNCHANGED <<audioPc, playing>>
      PROVE  A + N + Now(i)' = One(i \in pool') /\ (i \in sounds' <=> i \in pool')
  <2>1. Now(i)' = Now(i)
    BY <1>k DEF Now
  <2> QED
    BY <1>k, <1>i, <2>1
<1>1. CASE Screens
  <2>1. A = a
    <3>1. CASE GoSpeech
      <4> DEFINE q == audioQ \o JobsOfLeaving
      <4>1. q \in Seq(AudioJobs) /\ Count(q, "play", i) = a
        BY OtherJobs
      <4>2. Job("init") \in AudioJobs /\ Job("init").op = "init"
        BY JobTypes DEF AudioOp, Job
      <4>3. audioQ' = Append(q, Job("init"))
        <5>1. audioQ' = q \o <<Job("init")>>
          BY <3>1 DEF GoSpeech
        <5> HIDE DEF q
        <5> QED
          BY <4>1, <4>2, <5>1
      <4> HIDE DEF q
      <4>4. Count(Append(q, Job("init")), "play", i) = Count(q, "play", i) + 0
        BY <4>1, <4>2, HeldAppended DEF One
      <4> QED
        BY <1>n, <4>1, <4>3, <4>4
    <3>2. CASE GoElsewhere \/ Push \/ Pop
      <4>1. audioQ' = audioQ \o JobsOfLeaving
        BY <3>2 DEF GoElsewhere, Push, Pop
      <4> QED
        BY <4>1, OtherJobs
    <3> QED
      BY <1>1, <3>1, <3>2 DEF Screens
  <2>2. UNCHANGED <<neuroQ, pool, sounds, audioPc, playing>>
    BY <1>1 DEF Screens, GoSpeech, GoElsewhere, Push, Pop, audio, neuro
  <2> QED
    BY <1>k, <2>1, <2>2
<1>2. CASE Buttons
  <2>1. \/ audioQ' = audioQ
        \/ \E op \in {"start", "stopAsr", "playRecording"} : audioQ' = Append(audioQ, Job(op))
    BY <1>2 DEF Buttons, HoldRecord, FingerUp, PlayRecording, Speak
  <2>2. neuroQ' = neuroQ \/ neuroQ' = Append(neuroQ, Job("tts"))
    BY <1>2 DEF Buttons, HoldRecord, FingerUp, PlayRecording, Speak
  <2>3. UNCHANGED <<pool, sounds, audioPc, playing>>
    BY <1>2 DEF Buttons, HoldRecord, FingerUp, PlayRecording, Speak, audio, neuro
  <2>4. A = a /\ N = n
    BY <2>1, <2>2, OtherJobs
  <2> QED
    BY <1>k, <2>3, <2>4
<1>3. CASE RunEvent
  <2>1. neuroQ' = neuroQ \/ neuroQ' = Append(neuroQ, Job("freeText"))
    BY <1>3 DEF RunEvent
  <2>2. UNCHANGED <<audioQ, pool, sounds, audioPc, playing>>
    BY <1>3 DEF RunEvent, audio, neuro
  <2>3. A = a /\ N = n
    BY <2>1, <2>2, OtherJobs
  <2> QED
    BY <1>k, <2>2, <2>3
<1>4. CASE RecInit \/ RecStart \/ RecDeinit \/ RecPlay
  <2>1. /\ audioQ # <<>> /\ audioQ' = Tail(audioQ) /\ Head(audioQ).op # "play"
        /\ UNCHANGED <<neuroQ, pool, sounds, audioPc, playing>>
    BY <1>4 DEF RecInit, RecStart, RecDeinit, RecPlay, AudioAt, audio, neuro
  <2>2. A = a
    BY <1>a, <2>1 DEF One
  <2> QED
    BY <1>k, <2>1, <2>2
<1>5. CASE RecStop
  <2>1. /\ audioQ # <<>> /\ audioQ' = Tail(audioQ) /\ Head(audioQ).op # "play"
        /\ UNCHANGED <<neuroQ, pool, sounds>>
        /\ audioPc = "idle" /\ audioPc' = "filling"
    BY <1>5 DEF RecStop, AudioAt, neuro
  <2>2. A = a /\ N = n
    BY <1>a, <2>1 DEF One
  <2>3. Now(i)' = Now(i)
    BY <2>1 DEF Now, One
  <2> QED
    BY <1>i, <2>1, <2>2, <2>3
<1>6. CASE RecFilled
  <2>1. /\ neuroQ' = neuroQ \/ neuroQ' = Append(neuroQ, Job("asr"))
        /\ UNCHANGED <<audioQ, pool, sounds>> /\ audioPc = "filling" /\ audioPc' = "idle"
    BY <1>6 DEF RecFilled, neuro
  <2>2. A = a /\ N = n
    BY <2>1, OtherJobs
  <2>3. Now(i)' = Now(i)
    BY <2>1 DEF Now, One
  <2> QED
    BY <1>i, <2>1, <2>2, <2>3
<1>7. CASE PlaySlot
  <2>1. /\ audioQ # <<>> /\ audioQ' = Tail(audioQ) /\ Head(audioQ).op = "play"
        /\ UNCHANGED <<neuroQ, pool, sounds>> /\ audioPc = "idle"
        /\ audioPc' = "playing" /\ playing' = Head(audioQ).slot
    BY <1>7 DEF PlaySlot, AudioAt, neuro
  <2>2. A \in Nat /\ a = A + One(Head(audioQ).slot = i) /\ N = n
    BY <1>a, <2>1
  <2>3. Now(i) = 0 /\ Now(i)' = One(Head(audioQ).slot = i)
    BY <2>1 DEF Now, One
  <2>4. One(Head(audioQ).slot = i) \in Nat
    BY DEF One
  <2> QED
    BY <1>n, <1>i, <2>1, <2>2, <2>3, <2>4
<1>8. CASE PlayedSlot
  <2>1. /\ neuroQ' = Append(neuroQ, SlotJob("release", playing))
        /\ UNCHANGED <<audioQ, pool, sounds>> /\ audioPc = "playing" /\ audioPc' = "idle"
    BY <1>8 DEF PlayedSlot, neuro
  <2>2. SlotJob("release", playing) \in NeuroJobs
    BY JobTypes DEF TypeOK
  <2>3. N = n + One(playing = i) /\ A = a
    BY <1>q, <2>1, <2>2, HeldAppended DEF SlotJob
  <2>4. Now(i) = One(playing = i) /\ Now(i)' = 0 /\ One(playing = i) \in Nat
    BY <2>1 DEF Now, One
  <2> QED
    BY <1>n, <1>i, <2>1, <2>3, <2>4
<1>9. CASE InitTts \/ InitAsr \/ AsrUnable \/ AsrEmpty \/ AsrRead \/ FreeText \/ TtsFailed
           \/ TtsOverrun
  <2>1. /\ neuroQ # <<>> /\ neuroQ' = Tail(neuroQ) /\ Head(neuroQ).op # "release"
        /\ UNCHANGED <<audioQ, pool, sounds, audioPc, playing>>
    BY <1>9 DEF InitTts, InitAsr, InitModel, AsrUnable, AsrEmpty, AsrRead, FreeText, TtsFailed,
         TtsOverrun, NeuroAt, audio, neuro
  <2>2. N = n
    BY <1>r, <2>1 DEF One
  <2> QED
    BY <1>k, <2>1, <2>2
<1>10. CASE AsrDone \/ Stopped \/ UNCHANGED vars
  <2>1. UNCHANGED <<audioQ, neuroQ, pool, sounds, audioPc, playing>>
    BY <1>10 DEF AsrDone, Stopped, vars, audio, neuro
  <2> QED
    BY <1>k, <2>1
<1>11. CASE Tts
  <2>1. PICK j \in Slot \ pool : /\ pool' = pool \cup {j} /\ sounds' = sounds \cup {j}
                                /\ audioQ' = Append(audioQ, SlotJob("play", j))
    BY <1>11 DEF Tts, UnusedSlot
  <2>2. /\ neuroQ # <<>> /\ neuroQ' = Tail(neuroQ) /\ Head(neuroQ).op # "release"
        /\ UNCHANGED <<audioPc, playing>>
    BY <1>11 DEF Tts, NeuroAt, audio
  <2>3. SlotJob("play", j) \in AudioJobs
    BY JobTypes, SpeechAssumption DEF Slot
  <2>4. A = a + One(j = i) /\ N = n
    <3>1. A = a + One(j = i)
      BY <1>q, <2>1, <2>3, HeldAppended DEF SlotJob
    <3>2. N = n
      BY <1>r, <2>2 DEF One
    <3> QED
      BY <3>1, <3>2
  <2>5. Now(i)' = Now(i)
    BY <2>2 DEF Now
  <2>6. One(i \in pool') = One(i \in pool) + One(j = i) /\ (i \in sounds' <=> i \in pool')
    BY <1>i, <2>1 DEF One
  <2>7. Now(i) \in Nat /\ One(i \in pool) \in Nat /\ One(j = i) \in Nat
    BY DEF Now, One
  <2> QED
    BY <1>n, <1>i, <2>4, <2>5, <2>6, <2>7
<1>12. CASE Release
  <2> DEFINE j == Head(neuroQ).slot
  <2>1. /\ neuroQ # <<>> /\ neuroQ' = Tail(neuroQ) /\ Head(neuroQ).op = "release"
        /\ pool' = pool \ {j} /\ sounds' = sounds \ {j}
        /\ UNCHANGED <<audioQ, audioPc, playing>>
    BY <1>12 DEF Release, NeuroAt, audio
  <2>2. N \in Nat /\ n = N + One(j = i) /\ A = a
    BY <1>r, <2>1
  <2>3. Now(i)' = Now(i) /\ Now(i) \in Nat
    BY <2>1 DEF Now, One
  <2> HIDE DEF j
  <2>4. CASE j = i
    <3>1. One(j = i) = 1 /\ One(i \in pool') = 0 /\ One(i \in pool) \in {0, 1}
          /\ (i \in sounds' <=> i \in pool')
      BY <2>1, <2>4 DEF One
    <3> QED
      BY <1>n, <1>i, <2>2, <2>3, <3>1
  <2>5. CASE j # i
    <3>1. One(j = i) = 0 /\ One(i \in pool') = One(i \in pool)
          /\ (i \in sounds' <=> i \in pool')
      BY <1>i, <2>1, <2>5 DEF One
    <3> QED
      BY <1>n, <1>i, <2>2, <2>3, <3>1
  <2> QED
    BY <2>4, <2>5
<1> QED
  BY <1>1, <1>2, <1>3, <1>4, <1>5, <1>6, <1>7, <1>8, <1>9, <1>10, <1>11, <1>12
     DEF Next, Audio, Neuro, Asr

LEMMA SlotStart == Init => SlotInv
<1> SUFFICES ASSUME Init, NEW i \in Slot
             PROVE  /\ Count(audioQ, "play", i) + Count(neuroQ, "release", i) + Now(i)
                         = One(i \in pool)
                    /\ i \in sounds <=> i \in pool
  BY DEF SlotInv
<1>1. HeldAt(<<>>, "play", i) = {}
  BY DEF HeldAt
<1>2. HeldAt(<<Job("initTts"), Job("initAsr")>>, "release", i) = {}
  <2>1. \A k \in 1 .. Len(<<Job("initTts"), Job("initAsr")>>) :
          <<Job("initTts"), Job("initAsr")>>[k] \in {Job("initTts"), Job("initAsr")}
    OBVIOUS
  <2>2. Job("initTts").op # "release" /\ Job("initAsr").op # "release"
    BY DEF Job
  <2> QED
    BY <2>1, <2>2 DEF HeldAt
<1>3. Count(audioQ, "play", i) = 0 /\ Count(neuroQ, "release", i) = 0
  BY <1>1, <1>2, FS_EmptySet DEF Count, Init
<1>4. Now(i) = 0 /\ One(i \in pool) = 0 /\ i \notin sounds /\ i \notin pool
  BY DEF Init, Now, One
<1> QED
  BY <1>3, <1>4

LEMMA SlotsAreCounted == TypeOK /\ SlotInv => SlotOwnership
<1> SUFFICES ASSUME TypeOK, SlotInv, NEW i \in Slot
             PROVE  Holders(i) = (IF i \in pool THEN 1 ELSE 0) /\ (i \in sounds <=> i \in pool)
  BY DEF SlotOwnership
<1>1. audioQ \in Seq(AudioJobs) /\ neuroQ \in Seq(NeuroJobs)
  BY DEF TypeOK
<1>2. PlayAt(i) = HeldAt(audioQ, "play", i) /\ ReleaseAt(i) = HeldAt(neuroQ, "release", i)
  BY <1>1, LenProperties DEF PlayAt, ReleaseAt, HeldAt
<1>3. Cardinality(PlayedNow(i)) = Now(i)
  BY FS_EmptySet, FS_Singleton DEF PlayedNow, Now, One
<1>4. /\ Count(audioQ, "play", i) + Count(neuroQ, "release", i) + Now(i) = One(i \in pool)
      /\ i \in sounds <=> i \in pool
  BY DEF SlotInv
<1> QED
  BY <1>2, <1>3, <1>4 DEF Holders, Count, One

\* A payload of the pool is in one place of its way, or unused; nothing plays a
\* slot twice, releases it twice or forgets it, whatever the size of the pool.
THEOREM SlotsHaveOneHolder == Spec => []SlotOwnership
<1> DEFINE Inv == TypeOK /\ SlotInv
<1>1. Init => Inv
  BY TypeStart, SlotStart
<1>2. Inv /\ [Next]_vars => Inv'
  BY TypeStep, SlotStep
<1>3. Inv => SlotOwnership
  BY SlotsAreCounted
<1> QED
  BY <1>1, <1>2, <1>3, PTL DEF Spec
=============================================================================
