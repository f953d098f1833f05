--------------------------- MODULE SpeechPipeline ---------------------------
(***************************************************************************)
(* Speech in klappt: the main thread records the user, lets the recording  *)
(* be recognised and lets words be spoken; an audio thread                 *)
(* (platform/audio.cpp) owns the devices, a neuro thread                   *)
(* (platform/neuro.cpp) the models. Both take one job at a time from a     *)
(* queue and answer with functions that the main thread runs in the order  *)
(* of its event queue (app/worker.cpp).                                    *)
(*                                                                         *)
(* The recording buffer belongs to the audio thread and is read by the     *)
(* neuro thread; a sound to play belongs to the neuro thread's pool and is *)
(* read by the audio thread. Contents of texts and sounds are left out.    *)
(***************************************************************************)
EXTENDS Naturals, Sequences, FiniteSets

CONSTANTS
  PoolSize,    \* playback payloads of the neuro thread (pp_pool_size, 20)
  MaxJobs,     \* bound: the user waits while more are under way
  MaxStack     \* bound on the stack of screens (STACK_SIZE)

ASSUME SpeechAssumption ==
  PoolSize \in Nat \ {0} /\ MaxJobs \in Nat \ {0} /\ MaxStack \in Nat \ {0, 1}

Slot == 1 .. PoolSize
Amount == 0 .. 2      \* of a recording: nothing, less than 50 ms, enough

VARIABLES
  stack,       \* the open screens; "speech" is TTS_ASR
  flags,       \* ctx->audio_asr_tts_status
  audioQ, neuroQ, events,
  mic,         \* recording_stream: "closed", "paused", "recording"
  heard,       \* the stream holds samples that were not read yet
  leaked,      \* a stream was opened over an open one
  size,        \* rec_audio_buffer.size_bytes
  audioPc,     \* "idle", "filling" after a stop, "playing" a slot
  playing,     \* the slot the audio thread plays, 0 when none
  thenAsr,     \* the stop under way is to be followed by recognition
  pool,        \* used slots of playback_payload_pool
  sounds,      \* slots whose generated audio was not destroyed
  overrun,     \* the pool was full, and its element -1 was written
  neuroPc,     \* "idle", "reading" the recording
  models,      \* of the models, those that were loaded
  keptStream,  \* offline_stream survives a recognition without recording
  emptied      \* history: a recognition found the buffer empty

device == <<mic, heard, leaked>>
audio == <<device, size, audioPc, playing, thenAsr>>
neuro == <<pool, sounds, overrun, neuroPc, models, keptStream, emptied>>
vars == <<stack, flags, audioQ, neuroQ, events, audio, neuro>>

Top == stack[Len(stack)]
Job(op) == [op |-> op, slot |-> 0]
SlotJob(op, i) == [op |-> op, slot |-> i]
Set(flag, value) == [flag |-> flag, value |-> value]
Flag == {"asrReady", "inProgress", "recording", "pressed"}

Init ==
  /\ stack = <<"other">>
  /\ flags = [f \in Flag |-> FALSE]
  /\ audioQ = <<>> /\ neuroQ = <<Job("initTts"), Job("initAsr")>> /\ events = <<>>
  /\ mic = "closed" /\ heard = FALSE /\ leaked = FALSE
  /\ size = 0 /\ audioPc = "idle" /\ playing = 0 /\ thenAsr = FALSE
  /\ pool = {} /\ sounds = {} /\ overrun = FALSE
  /\ neuroPc = "idle" /\ models = {} /\ keptStream = FALSE /\ emptied = FALSE

-----------------------------------------------------------------------------
(* The main thread: screens, the record button and the play buttons.       *)

\* The user acts while few messages are under way, which bounds the queues.
User == ~overrun /\ Len(audioQ) + Len(neuroQ) + Len(events) < MaxJobs

\* on_screen_change: leaving the speech screen stops and closes the recorder.
LeaveWithoutClosing ==                          \* mutant of JobsOfLeaving
  IF Top = "speech" THEN <<Job("stop")>> ELSE <<>>
JobsOfLeaving ==
  IF Top = "speech" THEN <<Job("stop"), Job("deinit")>> ELSE <<>>

\* screen_tts_asr_go, from any screen, also from the speech screen itself.
GoSpeech ==
  /\ User
  /\ stack' = <<"other", "speech">>
  /\ audioQ' = audioQ \o JobsOfLeaving \o <<Job("init")>>
  /\ UNCHANGED <<flags, neuroQ, events, audio, neuro>>

\* go to another screen: the trainer alone, or a screen over the trainer.
GoElsewhere ==
  /\ User
  /\ stack' \in {<<"other">>, <<"other", "other">>}
  /\ audioQ' = audioQ \o JobsOfLeaving
  /\ UNCHANGED <<flags, neuroQ, events, audio, neuro>>

\* The settings button, or a word: another screen over this one.
PushAnyway ==                                   \* mutant of Push
  /\ User
  /\ stack' = Append(stack, "other")
  /\ audioQ' = audioQ \o JobsOfLeaving
  /\ UNCHANGED <<flags, neuroQ, events, audio, neuro>>
Push ==
  /\ User /\ Len(stack) < MaxStack
  /\ stack' = Append(stack, "other")
  /\ audioQ' = audioQ \o JobsOfLeaving
  /\ UNCHANGED <<flags, neuroQ, events, audio, neuro>>

\* The speech screen below appears again without its recorder being opened.
PopUnnoticed ==                                 \* mutant of Pop
  /\ User /\ Len(stack) > 1
  /\ stack' = SubSeq(stack, 1, Len(stack) - 1)
  /\ UNCHANGED <<flags, audioQ, neuroQ, events, audio, neuro>>
Pop ==
  /\ User /\ Len(stack) > 1
  /\ stack' = SubSeq(stack, 1, Len(stack) - 1)
  /\ audioQ' = audioQ \o JobsOfLeaving
  /\ UNCHANGED <<flags, neuroQ, events, audio, neuro>>

\* A frame draws the record button while it is held.
HoldRecord ==
  /\ User /\ Top = "speech" /\ flags.asrReady
  /\ ~flags.pressed /\ ~flags.recording
  /\ flags' = [flags EXCEPT !.pressed = TRUE]
  /\ audioQ' = Append(audioQ, Job("start"))
  /\ UNCHANGED <<stack, neuroQ, events, audio, neuro>>

\* A finger or the mouse button goes up, anywhere.
FingerUp ==
  /\ User /\ flags.pressed /\ flags.recording
  /\ flags' = [flags EXCEPT !.pressed = FALSE]
  /\ audioQ' = Append(audioQ, Job("stopAsr"))
  /\ UNCHANGED <<stack, neuroQ, events, audio, neuro>>

\* The play button of the recording.
PlayRecording ==
  /\ User /\ Top = "speech" /\ flags.asrReady /\ size > 0
  /\ audioQ' = Append(audioQ, Job("playRecording"))
  /\ UNCHANGED <<stack, flags, neuroQ, events, audio, neuro>>

\* run_tts, for the text field, a word view or a listed word.
Speak ==
  /\ User
  /\ neuroQ' = Append(neuroQ, Job("tts"))
  /\ UNCHANGED <<stack, flags, audioQ, events, audio, neuro>>

\* The main thread runs the function of the next event. A recognised text is
\* copied, and the job to free it goes back to the neuro thread.
RunEvent ==
  /\ ~overrun /\ events # <<>>
  /\ LET e == Head(events) IN
     /\ IF e.flag = "text"
        THEN /\ flags' = [flags EXCEPT !.inProgress = FALSE]
             /\ neuroQ' = Append(neuroQ, Job("freeText"))
        ELSE /\ flags' = IF e.flag \in Flag
                         THEN [flags EXCEPT ![e.flag] = e.value] ELSE flags
             /\ UNCHANGED neuroQ
  /\ events' = Tail(events)
  /\ UNCHANGED <<stack, audioQ, audio, neuro>>

-----------------------------------------------------------------------------
(* The audio thread. A job runs to its end before the next one is taken.   *)

AudioAt(op) ==
  ~overrun /\ audioPc = "idle" /\ audioQ # <<>> /\ Head(audioQ).op = op

Tell(flag, value) == events' = Append(events, Set(flag, value))

\* job_rec_init: opening the device may fail. The flag that the event sets,
\* is_recording_initialized, is read nowhere.
RecInit ==
  /\ AudioAt("init") /\ audioQ' = Tail(audioQ)
  /\ \/ /\ mic' = "paused" /\ heard' = FALSE
        /\ leaked' = (leaked \/ mic # "closed")
        /\ Tell("initialized", TRUE)
     \/ UNCHANGED <<device, events>>
  /\ UNCHANGED <<stack, flags, neuroQ, size, audioPc, playing, thenAsr, neuro>>

\* job_rec_start.
StartUntold ==                                  \* mutant of RecStart
  /\ AudioAt("start") /\ audioQ' = Tail(audioQ)
  /\ Tell("recording", TRUE)
  /\ IF mic = "closed" THEN UNCHANGED <<mic, heard>>
     ELSE mic' = "recording" /\ heard' = TRUE
  /\ UNCHANGED <<stack, flags, neuroQ, leaked, size, audioPc, playing, thenAsr,
                 neuro>>
RecStart ==
  /\ AudioAt("start") /\ audioQ' = Tail(audioQ)
  /\ IF mic = "closed" THEN UNCHANGED <<mic, heard, events>>
     ELSE /\ mic' = "recording" /\ heard' = TRUE
          /\ Tell("recording", TRUE)
  /\ UNCHANGED <<stack, flags, neuroQ, leaked, size, audioPc, playing, thenAsr,
                 neuro>>

\* push_rec_stop_job, first half: pause, tell, and declare the buffer empty.
RecStop ==
  /\ AudioAt("stop") \/ AudioAt("stopAsr")
  /\ audioQ' = Tail(audioQ)
  /\ mic' = IF mic = "closed" THEN mic ELSE "paused"
  /\ Tell("recording", FALSE)
  /\ size' = 0 /\ audioPc' = "filling"
  /\ thenAsr' = (Head(audioQ).op = "stopAsr")
  /\ UNCHANGED <<stack, flags, neuroQ, heard, leaked, playing, neuro>>

\* Second half: the samples are in the buffer, up to its capacity; what is
\* over stays in the stream. Less than 50 ms is not recognised.
RecFilled ==
  /\ ~overrun /\ audioPc = "filling"
  /\ \E n \in IF heard THEN Amount ELSE {0} :
       /\ size' = n
       /\ heard' \in IF n = 2 THEN BOOLEAN ELSE {FALSE}
       /\ neuroQ' = IF n = 2 /\ thenAsr THEN Append(neuroQ, Job("asr")) ELSE neuroQ
  /\ audioPc' = "idle" /\ thenAsr' = FALSE
  /\ UNCHANGED <<stack, flags, audioQ, events, mic, leaked, playing, neuro>>

\* record_deinit.
RecDeinit ==
  /\ AudioAt("deinit") /\ audioQ' = Tail(audioQ)
  /\ mic' = "closed" /\ heard' = FALSE
  /\ Tell("initialized", TRUE)
  /\ UNCHANGED <<stack, flags, neuroQ, leaked, size, audioPc, playing, thenAsr,
                 neuro>>

\* record_play: the thread plays what the buffer holds.
RecPlay ==
  /\ AudioAt("playRecording") /\ audioQ' = Tail(audioQ)
  /\ UNCHANGED <<stack, flags, neuroQ, events, audio, neuro>>

\* playback_play_and_run_on_finished: play a payload, whether or not the
\* device can be opened, then have its slot released by the neuro thread.
PlaySlot ==
  /\ AudioAt("play") /\ audioQ' = Tail(audioQ)
  /\ playing' = Head(audioQ).slot /\ audioPc' = "playing"
  /\ UNCHANGED <<stack, flags, neuroQ, events, device, size, thenAsr, neuro>>

PlayedSlot ==
  /\ ~overrun /\ audioPc = "playing"
  /\ neuroQ' = Append(neuroQ, SlotJob("release", playing))
  /\ playing' = 0 /\ audioPc' = "idle"
  /\ UNCHANGED <<stack, flags, audioQ, events, device, size, thenAsr, neuro>>

-----------------------------------------------------------------------------
(* The neuro thread.                                                       *)

NeuroAt(op) ==
  ~overrun /\ neuroPc = "idle" /\ neuroQ # <<>> /\ Head(neuroQ).op = op

\* init_tts and init_asr: loading a model may fail; only the flag of the
\* recogniser is read.
InitModel(op, flag) ==
  /\ NeuroAt(op) /\ neuroQ' = Tail(neuroQ)
  /\ \/ models' = models \cup {op} /\ Tell(flag, TRUE)
     \/ UNCHANGED <<models, events>>
  /\ UNCHANGED <<stack, flags, audioQ, audio, pool, sounds, overrun, neuroPc,
                 keptStream, emptied>>
InitTts == InitModel("initTts", "ttsReady")
InitAsr == InitModel("initAsr", "asrReady")

\* run_asr announces the recognition before it looks at anything. Without a
\* recogniser or a stream it says that it is over; without a recording it
\* returns.
Announce(more) == events' = events \o <<Set("inProgress", TRUE)>> \o more
Ended == <<Set("inProgress", FALSE)>>

AsrUnableUntold ==                              \* mutant of AsrUnable
  /\ NeuroAt("asr") /\ neuroQ' = Tail(neuroQ)
  /\ "initAsr" \notin models \/ ~keptStream
  /\ Announce(<<>>)
  /\ UNCHANGED <<stack, flags, audioQ, audio, neuro>>
AsrUnable ==
  /\ NeuroAt("asr") /\ neuroQ' = Tail(neuroQ)
  /\ "initAsr" \notin models \/ ~keptStream
  /\ Announce(Ended)
  /\ UNCHANGED <<stack, flags, audioQ, audio, neuro>>

AsrEmpty ==
  /\ NeuroAt("asr") /\ neuroQ' = Tail(neuroQ)
  /\ "initAsr" \in models /\ size = 0
  /\ Announce(<<>>)
  /\ keptStream' = TRUE /\ emptied' = TRUE
  /\ UNCHANGED <<stack, flags, audioQ, audio, pool, sounds, overrun, neuroPc, models>>

AsrRead ==
  /\ NeuroAt("asr") /\ neuroQ' = Tail(neuroQ)
  /\ "initAsr" \in models /\ size > 0
  /\ Announce(<<>>)
  /\ keptStream' = TRUE /\ neuroPc' = "reading"
  /\ UNCHANGED <<stack, flags, audioQ, audio, pool, sounds, overrun, models, emptied>>

\* The recording was decoded: to a text, or to none.
AsrDone ==
  /\ ~overrun /\ neuroPc = "reading"
  /\ neuroPc' = "idle" /\ keptStream' = FALSE
  /\ Tell("text", TRUE) \/ Tell("inProgress", FALSE)
  /\ UNCHANGED <<stack, flags, audioQ, neuroQ, audio, pool, sounds, overrun, models,
                 emptied>>

FreeText ==
  /\ NeuroAt("freeText") /\ neuroQ' = Tail(neuroQ)
  /\ UNCHANGED <<stack, flags, audioQ, events, audio, neuro>>

\* get_unused_payload: the first slot that is not used.
AnySlot(i) == i \in Slot                        \* mutant of UnusedSlot
UnusedSlot(i) == i \in Slot \ pool /\ \A j \in Slot \ pool : i <= j

\* run_tts synthesises, takes a payload and hands it to the audio thread.
\* Synthesis fails without a model.
TtsFailed ==
  /\ NeuroAt("tts") /\ neuroQ' = Tail(neuroQ)
  /\ UNCHANGED <<stack, flags, audioQ, events, audio, neuro>>

Tts ==
  /\ NeuroAt("tts") /\ "initTts" \in models /\ neuroQ' = Tail(neuroQ)
  /\ \E i \in Slot :
       /\ UnusedSlot(i)
       /\ pool' = pool \cup {i} /\ sounds' = sounds \cup {i}
       /\ audioQ' = Append(audioQ, SlotJob("play", i))
  /\ UNCHANGED <<stack, flags, events, audio, overrun, neuroPc, models, keptStream,
                 emptied>>

\* With all slots in use the payload written is playback_payload_pool[-1]:
\* undefined behaviour, after which the model says nothing.
TtsOverrun ==
  /\ NeuroAt("tts") /\ "initTts" \in models /\ neuroQ' = Tail(neuroQ)
  /\ pool = Slot
  /\ overrun' = TRUE
  /\ UNCHANGED <<stack, flags, audioQ, events, audio, pool, sounds, neuroPc, models,
                 keptStream, emptied>>

\* release_payload_and_free_generated_audio_if_needed.
Release ==
  /\ NeuroAt("release") /\ neuroQ' = Tail(neuroQ)
  /\ pool' = pool \ {Head(neuroQ).slot}
  /\ sounds' = sounds \ {Head(neuroQ).slot}
  /\ UNCHANGED <<stack, flags, audioQ, events, audio, overrun, neuroPc, models,
                 keptStream, emptied>>

-----------------------------------------------------------------------------
Screens == GoSpeech \/ GoElsewhere \/ Push \/ Pop
Buttons == HoldRecord \/ FingerUp \/ PlayRecording \/ Speak
Audio == RecInit \/ RecStart \/ RecStop \/ RecFilled \/ RecDeinit \/ RecPlay
         \/ PlaySlot \/ PlayedSlot
Asr == AsrUnable \/ AsrEmpty \/ AsrRead \/ AsrDone \/ FreeText
Neuro == InitTts \/ InitAsr \/ Asr \/ TtsFailed \/ Tts \/ TtsOverrun \/ Release

\* After undefined behaviour nothing is said.
Stopped == overrun /\ UNCHANGED vars

Next == Screens \/ Buttons \/ RunEvent \/ Audio \/ Neuro \/ Stopped

Spec == Init /\ [][Next]_vars

-----------------------------------------------------------------------------
(* Correctness.                                                            *)

AudioOp == {"init", "start", "stop", "stopAsr", "deinit", "playRecording", "play"}
NeuroOp == {"initTts", "initAsr", "asr", "freeText", "tts", "release"}
AudioJobs == [op : AudioOp, slot : 0 .. PoolSize]
NeuroJobs == [op : NeuroOp, slot : 0 .. PoolSize]
Event == [flag : Flag \cup {"initialized", "ttsReady", "text"}, value : BOOLEAN]

\* The shape of the queues, flags and devices. A queue can be longer than
\* the user's bound by what one handler or the other threads add.
TypeOK ==
  /\ stack \in Seq({"other", "speech"}) /\ Len(stack) \in 1 .. MaxStack
  /\ flags \in [Flag -> BOOLEAN]
  /\ audioQ \in Seq(AudioJobs) /\ neuroQ \in Seq(NeuroJobs) /\ events \in Seq(Event)
  /\ mic \in {"closed", "paused", "recording"} /\ heard \in BOOLEAN
  /\ leaked \in BOOLEAN /\ size \in Amount
  /\ audioPc \in {"idle", "filling", "playing"} /\ playing \in 0 .. PoolSize
  /\ thenAsr \in BOOLEAN
  /\ pool \subseteq Slot /\ sounds \subseteq Slot /\ overrun \in BOOLEAN
  /\ neuroPc \in {"idle", "reading"} /\ models \subseteq {"initTts", "initAsr"}
  /\ keptStream \in BOOLEAN /\ emptied \in BOOLEAN

\* Where a slot is held: waiting to be played, played, waiting to be released.
PlayAt(i) == {k \in DOMAIN audioQ : audioQ[k].op = "play" /\ audioQ[k].slot = i}
ReleaseAt(i) == {k \in DOMAIN neuroQ : neuroQ[k].op = "release" /\ neuroQ[k].slot = i}
PlayedNow(i) == IF audioPc = "playing" /\ playing = i THEN {0} ELSE {}
Holders(i) == Cardinality(PlayAt(i)) + Cardinality(ReleaseAt(i))
              + Cardinality(PlayedNow(i))

\* A used slot is in exactly one place of its way from synthesis to release
\* and an unused one in none, and its sound lives exactly as long
\* (get_unused_payload, release_payload_and_free_generated_audio_if_needed).
SlotOwnership ==
  \A i \in Slot : /\ Holders(i) = (IF i \in pool THEN 1 ELSE 0)
                  /\ i \in sounds <=> i \in pool

\* The recorder is never opened over an open recorder, whose stream nobody
\* would close: on_screen_change and screen_tts_asr_go together.
OneStream == ~leaked

AudioQuiet == audioQ = <<>> /\ audioPc = "idle"
Quiet == AudioQuiet /\ neuroQ = <<>> /\ neuroPc = "idle" /\ events = <<>>

\* Away from the speech screen, once the audio thread has caught up, the
\* microphone is closed ("stop recording and turn off micro").
LeavingClosesMicrophone == AudioQuiet /\ Top # "speech" => mic = "closed"

\* When all messages have arrived, the screen says that the microphone
\* records exactly when it does.
FlagTellsMicrophone == AudioQuiet /\ events = <<>> =>
                         (flags.recording <=> mic = "recording")

\* When all is quiet, a recognition is shown to be in progress only if one
\* was given up because its recording was gone.
RecognitionSettles == Quiet /\ flags.inProgress => emptied

\* "Switching back handled in FINGER_UP": when all is quiet, a record button
\* that counts as pressed can be released, that is, something is recorded.
\* Otherwise neither a release nor a press is ever taken again.
ButtonComesUp == Quiet /\ flags.pressed => flags.recording
=============================================================================
