---------------------------- MODULE AssetProofs ----------------------------
(***************************************************************************)
(* Proofs about AssetDownload: its type invariant, the safety invariants   *)
(* and the action property that the run asset_download checks, for every   *)
(* set of assets, every pool and every number of requests. They assume     *)
(* WorkerKeepsUp, as that run does: without it the report of one download  *)
(* could meet the row of the next. OneDownloadPerAsset also needs that the *)
(* thread tracks at least as many transfers as there are assets.           *)
(*                                                                         *)
(* AssetInv is the inductive invariant. Beyond the types and the pool's    *)
(* own invariant (PoolInv) it says that each asset is worked for at one    *)
(* place (WorkApart), that how a download ended is told when the work is   *)
(* over, and nothing after it (LastNews), what the marker says meanwhile   *)
(* (Marked, Reported), what main may be requesting (Calling, Requested),   *)
(* that ids and assets of rows differ (IdsOfRows, RowPerAsset), and that   *)
(* whatever is worked for, or not reported yet, is shown by its row        *)
(* (WorkIsShown), save at the end of onboarding (Dropped).                 *)
(***************************************************************************)
EXTENDS AssetDownload, NetWorkerProofs, SequenceTheorems, FiniteSetTheorems

-----------------------------------------------------------------------------
(* The pool of NetWorker, among the assets.                                *)

\* The pool's invariant holds at the start ...
LEMMA PoolAtStart == Init => PoolInv
  BY InitIInv DEF IInv

\* ... and when the process starts again ...
LEMMA PoolAfterReset == Reset => PoolInv'
<1>1. Reset => Init'
  BY DEF Reset, Init
<1>2. Init' => PoolInv'
  BY PoolAtStart, PTL
<1> QED
  BY <1>1, <1>2

\* What a step of the assets is to the pool.
LEMMA PoolSteps ==
  ASSUME AssetNext PROVE Next \/ BeginDownload \/ Reset \/ UNCHANGED vars
<1>1. CASE MainThread
  BY <1>1 DEF MainThread, DownloadFrame, Advance, RequestMissing, Request, SearchSlot, PushRequest,
       Track, HandleEvent, OnboardingDone, UpdateCompleted, ReinitRuntime, Next, MainStep
<1>2. CASE User
  BY <1>2 DEF User, DictPressed, OptionalPressed, StepPressed, Retry, Update, Request
<1>3. CASE NetThread
  BY <1>3 DEF NetThread, AssetStartTransfer, AssetStartFails, AssetTellDone, NetThreadOther, Next,
       NetThreadStep
<1>4. CASE AssetOpenFails \/ AssetWake \/ \E s \in Slot : AssetTransferEnds(s)
  BY <1>4 DEF AssetOpenFails, AssetWake, AssetTransferEnds, Next
<1>5. CASE Worker
  BY <1>5 DEF Worker, UnpackStart, UnpackOk, MarkInstalled, RemoveZip, PostUnpacked, UnpackFails,
       PostUnpackFailed
<1>6. CASE Restart
  BY <1>6 DEF Restart
<1> QED
  BY <1>1, <1>2, <1>3, <1>4, <1>5, <1>6 DEF AssetNext, AliveNext

\* ... and in between, whatever the assets' steps do to the pool.
LEMMA PoolStays == PoolInv /\ [AssetNext]_allVars => PoolInv'
<1> SUFFICES ASSUME PoolInv, [AssetNext]_allVars PROVE PoolInv'
  OBVIOUS
<1>1. CASE UNCHANGED vars
  BY <1>1 DEF PoolInv, TypeOK, MainProgress, Ownership, AboutToRelease, vars, mainVars, poolVars,
       netVars
<1>2. CASE Next \/ BeginDownload
  BY <1>2, PoolStep
<1>3. CASE Reset
  BY <1>3, PoolAfterReset
<1> QED
  BY <1>1, <1>2, <1>3, PoolSteps DEF allVars

\* The slots that somebody works on for their assets. The slot just told about
\* is only to be released.
AtWork == {s \in Slot \ {cur} : \/ claimed = s \/ s \in Elements(queue)
                                \/ s \in Elements(pending) \/ xfer[s] # "idle"}

\* Most steps of the thread only move a slot on, or drop it.
LEMMA WorkMovesOn ==
  ASSUME PoolInv,
         \/ Push \/ OpenFails \/ StartTransfer \/ Wake \/ Relock \/ DrainOne \/ DrainEnd
         \/ StartFailsRelease \/ Perform \/ DoneRelease \/ EndOfLoop
         \/ \E s \in Slot : TransferEnds(s)
  PROVE  AtWork' \subseteq AtWork
<1> USE DEF PoolInv, TypeOK
<1>1. CASE Push
  <2>1. claimed \in Slot /\ queue \in Seq(Slot) /\ queue' = Append(queue, claimed)
        /\ UNCHANGED <<pending, xfer, cur>> /\ claimed' = None
    BY <1>1 DEF Push
  <2>2. Elements(queue') = Elements(queue) \cup {claimed}
    BY <2>1, AppendFacts
  <2> QED
    BY <2>1, <2>2, SlotFacts DEF AtWork
<1>2. CASE DrainOne
  <2>1. queue # <<>> /\ queue' = Tail(queue) /\ pending' = Append(pending, Head(queue))
        /\ UNCHANGED <<claimed, xfer, cur>>
    BY <1>2 DEF DrainOne, mainVars
  <2>2. Head(queue) \in Slot /\ Elements(queue) = Elements(queue') \cup {Head(queue)}
    BY <2>1, TailFacts
  <2>3. Elements(pending') = Elements(pending) \cup {Head(queue)}
    BY <2>1, <2>2, AppendFacts
  <2> QED
    BY <2>1, <2>2, <2>3 DEF AtWork
<1>3. CASE OpenFails \/ StartTransfer
  <2>1. pending # <<>> /\ pending' = Pop(pending) /\ UNCHANGED <<claimed, queue, cur>>
        /\ xfer' \in {xfer, [xfer EXCEPT ![Top(pending)] = "running"]}
    BY <1>3 DEF OpenFails, StartTransfer, mainVars
  <2>2. Top(pending) \in Slot /\ Elements(pending) = Elements(pending') \cup {Top(pending)}
    BY <2>1, PopFacts
  <2>3. \A s \in Slot : xfer'[s] # "idle" => xfer[s] # "idle" \/ s = Top(pending)
    BY <2>1
  <2> QED
    BY <2>1, <2>2, <2>3 DEF AtWork
<1>4. CASE Wake \/ Relock \/ DrainEnd \/ EndOfLoop
  BY <1>4 DEF Wake, Relock, DrainEnd, EndOfLoop, mainVars, AtWork
<1>5. CASE StartFailsRelease
  <2>1. pending # <<>> /\ pending' = Pop(pending) /\ cur = Top(pending)
        /\ UNCHANGED <<claimed, queue, xfer>> /\ cur \in Slot
    BY <1>5, PopFacts DEF StartFailsRelease, mainVars, AboutToRelease
  <2>2. NoRepeats(pending) /\ cur \in Elements(pending)
    BY <2>1, PopFacts DEF Ownership
  <2>3. Elements(pending) = Elements(pending') \cup {cur} /\ cur \notin Elements(pending')
    BY <2>1, <2>2, PopFacts
  <2>4. claimed # cur /\ cur \notin Elements(queue) /\ xfer[cur] = "idle"
    BY <2>1, <2>2 DEF Ownership
  <2> QED
    BY <2>1, <2>3, <2>4 DEF AtWork
<1>6. CASE DoneRelease
  <2>1. cur \in Slot /\ xfer[cur] # "idle"
    BY <1>6 DEF DoneRelease, AboutToRelease
  <2>2. claimed # cur /\ cur \notin Elements(queue) /\ cur \notin Elements(pending)
    BY <2>1 DEF Ownership
  <2>3. UNCHANGED <<claimed, queue, pending>> /\ xfer' = [xfer EXCEPT ![cur] = "idle"]
    BY <1>6 DEF DoneRelease, mainVars
  <2> QED
    BY <2>1, <2>2, <2>3 DEF AtWork
<1>7. CASE Perform
  <2>1. UNCHANGED <<claimed, queue, pending, cur>>
        /\ \A s \in Slot : xfer'[s] # "idle" => xfer[s] # "idle"
    BY <1>7 DEF Perform, mainVars
  <2> QED
    BY <2>1 DEF AtWork
<1>8. CASE \E s \in Slot : TransferEnds(s)
  <2>1. UNCHANGED <<claimed, queue, pending, cur>>
        /\ \A s \in Slot : xfer'[s] # "idle" => xfer[s] # "idle"
    BY <1>8 DEF TransferEnds, mainVars, netVars
  <2> QED
    BY <2>1 DEF AtWork
<1> QED
  BY <1>1, <1>2, <1>3, <1>4, <1>5, <1>6, <1>7, <1>8

\* To be told about ends the work on a slot.
LEMMA WorkEnds ==
  ASSUME PoolInv, NEW s \in Slot,
         (StartFails /\ s = Top(pending)) \/ TellDone(s)
  PROVE  s \in AtWork /\ AtWork' \subseteq AtWork \ {s}
<1> USE DEF PoolInv, TypeOK
<1>1. CASE StartFails /\ s = Top(pending)
  <2>1. pending # <<>> /\ netPc = "start" /\ cur' = s
        /\ UNCHANGED <<claimed, queue, pending, xfer>>
    BY <1>1 DEF StartFails, mainVars
  <2>2. s \in Elements(pending) /\ cur = None
    BY <1>1, <2>1, PopFacts DEF AboutToRelease
  <2> QED
    BY <2>1, <2>2, SlotFacts DEF AtWork
<1>2. CASE TellDone(s)
  <2>1. s \in msgs /\ netPc = "done" /\ cur' = s
        /\ UNCHANGED <<claimed, queue, pending, xfer>>
    BY <1>2 DEF TellDone, mainVars
  <2>2. xfer[s] # "idle" /\ cur = None
    BY <2>1 DEF AboutToRelease
  <2> QED
    BY <2>1, <2>2, SlotFacts DEF AtWork
<1> QED
  BY <1>1, <1>2

\* A search begins the work on the slot it finds, which nobody works on.
LEMMA WorkBegins ==
  ASSUME PoolInv, ProbeSlot
  PROVE  /\ claimed = None
         /\ claimed' # None => /\ claimed' \in Slot \ AtWork /\ probes' = 0
                               /\ AtWork' \subseteq AtWork \cup {claimed'}
         /\ claimed' = None => AtWork' \subseteq AtWork
<1> USE DEF PoolInv, TypeOK
<1>1. claimed = None /\ UNCHANGED <<queue, pending, xfer, cur>>
  BY DEF ProbeSlot, MainProgress, netVars
<1>2. CASE used[nextFree]
  <2>1. claimed' = claimed
    BY <1>2 DEF ProbeSlot
  <2> QED
    BY <1>1, <2>1 DEF AtWork
<1>3. CASE ~used[nextFree]
  <2>1. claimed' = nextFree /\ probes' = 0 /\ nextFree \in Slot
    BY <1>3 DEF ProbeSlot
  <2>2. nextFree \notin AtWork
    BY <1>1, <1>3, SlotFacts DEF AtWork, Ownership
  <2> QED
    BY <1>1, <2>1, <2>2, SlotFacts DEF AtWork
<1> QED
  BY <1>2, <1>3

-----------------------------------------------------------------------------
(* News of an asset among the events under way.                            *)

Final == {"downloadFailed", "unpacked", "unpackFailed"}
Kinds == Final \cup {"unpacking"}

HasNews(q, a, kinds) == \E k \in 1 .. Len(q) : q[k].asset = a /\ q[k].kind \in kinds

\* Nothing is told of an asset after how its download ended.
FinalIsLast(q) ==
  \A k, l \in 1 .. Len(q) : k < l /\ q[k].kind \in Final => q[l].asset # q[k].asset

\* What an MT callback tells of, and what it does to its row's status.
LEMMA NewsType ==
  /\ DOMAIN StatusAfter = Kinds
  /\ \A e \in News : e.kind \in Kinds /\ e.asset \in Asset
  /\ \A k \in Kinds : \A a \in Asset :
       Event(k, a) \in News /\ Event(k, a).kind = k /\ Event(k, a).asset = a
<1>1. DOMAIN StatusAfter = Kinds
  BY DEF StatusAfter, Kinds, Final
<1> QED
  BY <1>1 DEF News, Event

\* MT::run appends news to what the main thread has not heard yet.
LEMMA NewsAppended ==
  ASSUME NEW q \in Seq(News), NEW e \in News
  PROVE  /\ Append(q, e) \in Seq(News)
         /\ \A a, K : HasNews(Append(q, e), a, K)
                        <=> HasNews(q, a, K) \/ (e.asset = a /\ e.kind \in K)
         /\ FinalIsLast(q) /\ ~HasNews(q, e.asset, Final) => FinalIsLast(Append(q, e))
<1> DEFINE r == Append(q, e)
<1>1. /\ r \in Seq(News) /\ Len(r) = Len(q) + 1 /\ Len(q) \in Nat /\ r[Len(q) + 1] = e
      /\ \A k \in 1 .. Len(q) : r[k] = q[k]
  BY AppendProperties, LenProperties
<1> HIDE DEF r
<1>2. \A k \in 1 .. Len(r) : k \in 1 .. Len(q) \/ k = Len(q) + 1
  BY <1>1
<1>3. Len(q) + 1 \in 1 .. Len(r) /\ \A k \in 1 .. Len(q) : k \in 1 .. Len(r)
  BY <1>1
<1>4. ASSUME NEW a, NEW K
      PROVE  HasNews(r, a, K) <=> HasNews(q, a, K) \/ (e.asset = a /\ e.kind \in K)
  <2>1. ASSUME HasNews(r, a, K) PROVE HasNews(q, a, K) \/ (e.asset = a /\ e.kind \in K)
    BY <1>1, <1>2, <2>1 DEF HasNews
  <2>2. ASSUME HasNews(q, a, K) \/ (e.asset = a /\ e.kind \in K) PROVE HasNews(r, a, K)
    BY <1>1, <1>3, <2>2 DEF HasNews
  <2> QED
    BY <2>1, <2>2
<1>5. ASSUME FinalIsLast(q), ~HasNews(q, e.asset, Final) PROVE FinalIsLast(r)
  <2> SUFFICES ASSUME NEW k \in 1 .. Len(r), NEW l \in 1 .. Len(r), k < l, r[k].kind \in Final
               PROVE  r[l].asset # r[k].asset
    BY DEF FinalIsLast
  <2>1. k \in 1 .. Len(q) /\ r[k] = q[k]
    BY <1>1, <1>2
  <2>2. CASE l \in 1 .. Len(q)
    BY <1>1, <1>5, <2>1, <2>2 DEF FinalIsLast
  <2>3. CASE l = Len(q) + 1
    BY <1>1, <1>5, <2>1, <2>3 DEF HasNews
  <2> QED
    BY <1>2, <2>2, <2>3
<1> QED
  BY <1>1, <1>4, <1>5 DEF r

\* The main thread hears the oldest news first.
LEMMA NewsArrived ==
  ASSUME NEW q \in Seq(News), q # <<>>
  PROVE  /\ Tail(q) \in Seq(News) /\ Head(q) \in News
         /\ \A a, K : HasNews(Tail(q), a, K) => HasNews(q, a, K)
         /\ \A K : Head(q).kind \in K => HasNews(q, Head(q).asset, K)
         /\ FinalIsLast(q) => FinalIsLast(Tail(q))
         /\ FinalIsLast(q) /\ Head(q).kind \in Final => \A K : ~HasNews(Tail(q), Head(q).asset, K)
<1> DEFINE r == Tail(q)
<1>1. /\ r \in Seq(News) /\ Len(r) = Len(q) - 1 /\ Len(q) \in Nat \ {0}
      /\ Head(q) = q[1] /\ Head(q) \in News /\ \A k \in 1 .. Len(r) : r[k] = q[k + 1]
  BY HeadTailProperties, LenProperties, EmptySeq
<1> HIDE DEF r
<1>2. 1 \in 1 .. Len(q) /\ \A k \in 1 .. Len(r) : k + 1 \in 1 .. Len(q) /\ 1 < k + 1
  BY <1>1
<1>3. ASSUME NEW a, NEW K, HasNews(r, a, K) PROVE HasNews(q, a, K)
  BY <1>1, <1>2, <1>3 DEF HasNews
<1>4. ASSUME NEW K, Head(q).kind \in K PROVE HasNews(q, Head(q).asset, K)
  BY <1>1, <1>2, <1>4 DEF HasNews
<1>5. ASSUME FinalIsLast(q) PROVE FinalIsLast(r)
  <2> SUFFICES ASSUME NEW k \in 1 .. Len(r), NEW l \in 1 .. Len(r), k < l, r[k].kind \in Final
               PROVE  r[l].asset # r[k].asset
    BY DEF FinalIsLast
  <2>1. k + 1 < l + 1
    BY <1>1
  <2> QED
    BY <1>1, <1>2, <1>5, <2>1 DEF FinalIsLast
<1>6. ASSUME FinalIsLast(q), Head(q).kind \in Final, NEW K, HasNews(r, Head(q).asset, K)
      PROVE  FALSE
  BY <1>1, <1>2, <1>6 DEF FinalIsLast, HasNews
<1> QED
  BY <1>1, <1>3, <1>4, <1>5, <1>6 DEF r

\* No callback is on its way: nothing is told of any asset.
LEMMA NoNews == FinalIsLast(<<>>) /\ \A a, K : ~HasNews(<<>>, a, K)
<1>1. \A k \in 1 .. Len(<<>>) : FALSE
  OBVIOUS
<1> QED
  BY <1>1 DEF FinalIsLast, HasNews

-----------------------------------------------------------------------------
(* The inductive invariant.                                                *)

\* An archive of asset a is on its way, or being unpacked.
Working(a) == (\E s \in AtWork : wanted[s] = a) \/ a \in Elements(jobs) \/ job.asset = a

\* ... or some news of it has not arrived.
Due(a) == Working(a) \/ HasNews(events, a, Kinds)

\* Each asset is worked for at one place.
WorkApart ==
  /\ \A s \in AtWork : /\ wanted[s] \in Asset /\ wanted[s] \notin Elements(jobs)
                       /\ wanted[s] # job.asset
  /\ \A s, t \in AtWork : wanted[s] = wanted[t] => s = t
  /\ NoRepeats(jobs) /\ job.asset \notin Elements(jobs)
  /\ job.asset = NoAsset <=> job.step = "none"

\* How a download ended is told when the work is over, and nothing after it.
LastNews ==
  /\ FinalIsLast(events)
  /\ \A a \in Asset : HasNews(events, a, Final) => ~Working(a)

\* What a job that succeeded leaves: the asset is unpacked, and marked unless
\* the marker could not be written.
Unpacked(a) == target[a] /\ (marker[a] \/ FilesMayFail)

\* What the marker says while an asset is worked for.
Marked ==
  /\ \A a \in Asset : marker[a] => target[a]
  /\ \A s \in AtWork : ~marker[wanted[s]]
  /\ \A a \in Elements(jobs) : ~marker[a]
  /\ job.step \in {"unpack", "mark", "postFailed"} => ~marker[job.asset]
  /\ job.step = "mark" => target[job.asset]
  /\ job.step \in {"removeZip", "post"} => Unpacked(job.asset)

\* What says that an asset is unpacked is right.
Reported ==
  /\ \A a \in Asset : HasNews(events, a, {"unpacked"}) => Unpacked(a)
  /\ \A i \in 1 .. Len(rows) : rows[i].status = "FINISHED_OK" => Unpacked(rows[i].asset)

NoRow(a) == \A i \in 1 .. Len(rows) : rows[i].asset # a

\* Main requests an asset that nobody works for: a new one, or that of a row
\* which shows a failure.
Calling ==
  /\ probes > 0 => call.asset # NoAsset /\ call.slot = None
  /\ claimed # None => call.slot = claimed
  /\ call.slot # None => call.asset # NoAsset
  /\ call.asset = NoAsset <=> call = NoCall
  /\ call.asset # NoAsset /\ call.slot = None => ~Due(call.asset) /\ ~marker[call.asset]
  /\ call.asset # NoAsset /\ call.row = 0 => NoRow(call.asset)
  /\ call.asset # NoAsset /\ call.row # 0 =>
       /\ call.row \in 1 .. Len(rows) /\ rows[call.row].asset = call.asset
       /\ rows[call.row].status = "FINISHED_ERROR"

\* So is what this frame still requests.
Requested == \A a \in todo : ~Due(a) /\ ~marker[a] /\ NoRow(a) /\ call.asset # a

RowPerAsset == \A i, j \in 1 .. Len(rows) : rows[i].asset = rows[j].asset => i = j

\* The row to be appended has a new id.
IdsOfRows ==
  /\ \A i \in 1 .. Len(rows) : rows[i].id < nextId
  /\ call.slot # None /\ claimed = None =>
       /\ reqId[call.slot] = nextId - 1
       /\ \A i \in 1 .. Len(rows) : rows[i].id < nextId - 1

\* Onboarding is over and has dropped its rows; of the last asset only news,
\* or the end of its job, are left.
Dropped ==
  /\ rows = <<>> /\ todo = {} /\ call = NoCall /\ ~wasUpdating
  /\ phase = "main" \/ (phase = "download" /\ advancing)
  /\ jobs = <<>> /\ AtWork = {}

Shown(a) == \E i \in 1 .. Len(rows) :
              rows[i].asset = a /\ rows[i].status \in {"TRACKING", "UNPACKING"}

\* What is worked for is shown by its row, or is about to be.
WorkIsShown ==
  \A a \in Asset : Due(a) => Shown(a) \/ (call.slot # None /\ call.asset = a) \/ Dropped

OnlyDict == /\ todo \subseteq {Dict} /\ call.asset \in {Dict, NoAsset}
            /\ \A i \in 1 .. Len(rows) : rows[i].asset = Dict

\* What the steps of onboarding may have requested.
Phases ==
  /\ phase = "dict" => OnlyDict
  /\ phase = "dict" /\ ~advancing => rows = <<>> /\ todo = {} /\ call = NoCall
  /\ phase = "optional" /\ ~advancing => OnlyDict /\ todo = {}
  /\ phase = "main" => ~advancing /\ todo = {}
  /\ phase # "main" => ~wasUpdating

WorkInv ==
  /\ WorkApart /\ LastNews /\ Marked /\ Reported /\ Calling /\ Requested
  /\ RowPerAsset /\ IdsOfRows /\ WorkIsShown /\ Phases

AssetInv == AssetTypeOK /\ PoolInv /\ WorkInv

-----------------------------------------------------------------------------
(* The steps of the network.                                               *)

\* Less work, and nothing else changed for the assets.
LEMMA LessWork ==
  ASSUME AtWork' \subseteq AtWork, UNCHANGED <<wanted, jobs, job, events>>
  PROVE  \A a : (Working(a)' => Working(a)) /\ (Due(a)' => Due(a))
  BY DEF Working, Due

\* The thread moves slots on; main has numbered its request.
LEMMA MoveStep ==
  ASSUME AssetInv, AtWork' \subseteq AtWork,
         UNCHANGED <<clientVars, wanted, marker, target, workVars>>,
         Push \/ UNCHANGED <<probes, claimed, nextId, reqId>>
  PROVE  WorkInv'
<1> USE DEF AssetInv, WorkInv
<1>u. UNCHANGED <<phase, todo, advancing, call, rows, wasUpdating, wanted, marker, target, events,
                  jobs, job>>
  BY DEF clientVars, workVars
<1>d. \A a : (Working(a)' => Working(a)) /\ (Due(a)' => Due(a))
  BY <1>u, LessWork
<1>1. WorkApart'
  BY <1>u DEF WorkApart
<1>2. LastNews'
  BY <1>u, <1>d DEF LastNews
<1>3. Marked'
  BY <1>u DEF Marked, Unpacked
<1>r. Reported'
  BY <1>u DEF Reported, Unpacked
<1>p. /\ probes' > 0 => probes > 0
      /\ claimed' # None => claimed # None /\ claimed' = claimed
  <2>1. CASE Push
    <3>1. claimed' = None /\ probes' = probes
      BY <2>1 DEF Push
    <3> QED
      BY <3>1
  <2> QED
    BY <2>1
<1>4. Calling'
  BY <1>u, <1>d, <1>p DEF Calling, NoRow, NoCall
<1>5. Requested'
  BY <1>u, <1>d DEF Requested, NoRow
<1>6. RowPerAsset'
  BY <1>u DEF RowPerAsset
<1>7. IdsOfRows'
  <2>1. CASE UNCHANGED <<probes, claimed, nextId, reqId>>
    BY <1>u, <2>1 DEF IdsOfRows
  <2>2. CASE Push
    <3>1. claimed \in Slot /\ claimed = call.slot /\ claimed # None
      BY <2>2 DEF Push, Calling, AssetTypeOK, TypeOK
    <3>2. nextId \in Nat /\ nextId' = nextId + 1 /\ reqId' = [reqId EXCEPT ![claimed] = nextId]
      BY <2>2, SlotFacts DEF Push, NextRequestId, AssetTypeOK, TypeOK
    <3>3. reqId'[call.slot] = nextId
      BY <3>1, <3>2 DEF AssetTypeOK, TypeOK
    <3>4. \A i \in 1 .. Len(rows) : rows[i].id < nextId /\ rows[i].id \in Nat
      <4> TAKE i \in 1 .. Len(rows)
      <4>1. rows[i] \in Row
        BY ElementOfSeq DEF AssetTypeOK
      <4> QED
        BY <4>1, SlotFacts DEF IdsOfRows, Row, Id
    <3> HIDE DEF AssetInv, WorkInv
    <3> QED
      BY <1>u, <3>1, <3>2, <3>3, <3>4 DEF IdsOfRows
  <2> QED
    BY <2>1, <2>2
<1>8. WorkIsShown'
  <2> SUFFICES ASSUME NEW a \in Asset, Due(a)
               PROVE  Shown(a)' \/ (call.slot # None /\ call.asset = a) \/ Dropped'
    BY <1>u, <1>d DEF WorkIsShown
  <2>1. Shown(a) \/ (call.slot # None /\ call.asset = a) \/ Dropped
    BY DEF WorkIsShown
  <2>2. Shown(a) => Shown(a)'
    BY <1>u DEF Shown
  <2>3. Dropped => Dropped'
    BY <1>u DEF Dropped, NoCall
  <2> QED
    BY <2>1, <2>2, <2>3
<1>9. Phases'
  BY <1>u DEF Phases, OnlyDict, NoCall
<1> QED
  BY <1>1, <1>2, <1>3, <1>r, <1>4, <1>5, <1>6, <1>7, <1>8, <1>9

\* Who works for asset a tells of it.
LEMMA PostStep ==
  ASSUME AssetInv, NEW a \in Asset, Working(a), NEW k \in Kinds,
         events' = Append(events, Event(k, a)),
         UNCHANGED <<clientVars, marker, target, probes, claimed, nextId, reqId>>,
         WorkApart', Marked', \A b \in Asset : Working(b)' => Working(b),
         k \in Final => ~Working(a)', k = "unpacked" => Unpacked(a),
         Dropped => jobs' = <<>> /\ AtWork' = {}
  PROVE  WorkInv'
<1> USE DEF AssetInv, WorkInv
<1>u. UNCHANGED <<phase, todo, advancing, call, rows, wasUpdating>>
  BY DEF clientVars
<1>e. /\ \A b, K : HasNews(events', b, K) <=> HasNews(events, b, K) \/ (a = b /\ k \in K)
      /\ FinalIsLast(events')
  <2>1. ~HasNews(events, a, Final)
    BY DEF LastNews
  <2>2. Event(k, a) \in News /\ Event(k, a).kind = k /\ Event(k, a).asset = a
        /\ events \in Seq(News)
    BY NewsType DEF AssetTypeOK
  <2> QED
    BY <2>1, <2>2, NewsAppended DEF LastNews
<1>d. \A b \in Asset : Due(b)' => Due(b)
  BY <1>e DEF Due
<1>c. (call.asset # NoAsset => call.asset \in Asset) /\ todo \subseteq Asset
  BY DEF AssetTypeOK, Call
<1>2. LastNews'
  BY <1>e DEF LastNews
<1>3. Reported'
  BY <1>e, <1>u DEF Reported, Unpacked
<1>4. Calling'
  BY <1>u, <1>d, <1>c DEF Calling, NoRow, NoCall
<1>5. Requested'
  BY <1>u, <1>d, <1>c DEF Requested, NoRow
<1>6. RowPerAsset'
  BY <1>u DEF RowPerAsset
<1>7. IdsOfRows'
  BY <1>u DEF IdsOfRows
<1>8. WorkIsShown'
  <2> SUFFICES ASSUME NEW b \in Asset, Due(b)
               PROVE  Shown(b)' \/ (call.slot # None /\ call.asset = b) \/ Dropped'
    BY <1>u, <1>d DEF WorkIsShown
  <2>1. Shown(b) \/ (call.slot # None /\ call.asset = b) \/ Dropped
    BY DEF WorkIsShown
  <2>2. Shown(b) => Shown(b)'
    BY <1>u DEF Shown
  <2>3. Dropped => Dropped'
    BY <1>u DEF Dropped, NoCall
  <2> QED
    BY <2>1, <2>2, <2>3
<1>9. Phases'
  BY <1>u DEF Phases, OnlyDict, NoCall
<1> QED
  BY <1>2, <1>3, <1>4, <1>5, <1>6, <1>7, <1>8, <1>9

\* The thread tells how a transfer ended.
LEMMA FailStep ==
  ASSUME AssetInv, NEW s \in AtWork, AtWork' \subseteq AtWork \ {s},
         Post("downloadFailed", wanted[s]),
         UNCHANGED <<clientVars, wanted, marker, target, jobs, job, probes, claimed, nextId, reqId>>
  PROVE  WorkInv'
<1> SUFFICES ASSUME NEW a, a = wanted[s] PROVE WorkInv'
  OBVIOUS
<1>1. a \in Asset /\ Working(a)
  BY DEF AssetInv, WorkInv, WorkApart, Working
<1>2. WorkApart' /\ Marked'
  BY DEF AssetInv, WorkInv, WorkApart, Marked, Unpacked
<1>3. (\A b : Working(b)' => Working(b)) /\ ~Working(a)'
  BY DEF AssetInv, WorkInv, WorkApart, Working
<1>4. "downloadFailed" \in Kinds /\ events' = Append(events, Event("downloadFailed", a))
  BY DEF Kinds, Final, Post
<1>5. Dropped => FALSE
  BY DEF Dropped
<1> QED
  BY <1>1, <1>2, <1>3, <1>4, <1>5, PostStep

\* A downloaded archive passes from the network thread to the worker: the asset
\* stays worked for, at another place (on_asset_zip_downloaded).
LEMMA ReadyStep ==
  ASSUME AssetInv, NEW s \in AtWork, AtWork' \subseteq AtWork \ {s}, ArchiveReady(wanted[s]),
         UNCHANGED <<clientVars, wanted, marker, target, job, probes, claimed, nextId, reqId>>
  PROVE  WorkInv'
<1> SUFFICES ASSUME NEW a, a = wanted[s] PROVE WorkInv'
  OBVIOUS
<1>1. a \in Asset /\ Working(a) /\ a \notin Elements(jobs) /\ a # job.asset /\ ~marker[a]
  BY DEF AssetInv, WorkInv, WorkApart, Working, Marked
<1>2. events' = Append(events, Event("unpacking", a)) /\ jobs' = Append(jobs, a)
  BY DEF ArchiveReady, Post
<1>j. jobs \in Seq(Asset) /\ NoRepeats(jobs)
  BY DEF AssetInv, WorkInv, AssetTypeOK, WorkApart
<1>3. Elements(jobs') = Elements(jobs) \cup {a} /\ NoRepeats(jobs')
  BY <1>1, <1>2, <1>j, AppendFacts
<1>4. \A t \in AtWork' : t \in AtWork /\ wanted'[t] = wanted[t] /\ wanted[t] # a
  BY DEF AssetInv, WorkInv, WorkApart
<1>5. WorkApart'
  BY <1>1, <1>3, <1>4 DEF AssetInv, WorkInv, WorkApart
<1>6. Marked'
  BY <1>1, <1>3, <1>4 DEF AssetInv, WorkInv, Marked, Unpacked
<1>7. \A b : Working(b)' => Working(b)
  BY <1>1, <1>3, <1>4 DEF Working
<1>8. "unpacking" \in Kinds \ Final /\ ~Dropped
  BY DEF Kinds, Final, Dropped
<1> QED
  BY <1>1, <1>2, <1>5, <1>6, <1>7, <1>8, PostStep DEF Final

\* All steps of the network side.
LEMMA NetStep ==
  ASSUME AssetInv,
         NetThread \/ AssetOpenFails \/ AssetWake \/ PushRequest
           \/ \E s \in Slot : AssetTransferEnds(s)
  PROVE  WorkInv'
<1>p. PoolInv /\ pending \in Seq(Slot)
  BY DEF AssetInv, PoolInv, TypeOK
<1>1. CASE AssetStartTransfer \/ AssetOpenFails \/ AssetWake \/ NetThreadOther
             \/ (\E s \in Slot : AssetTransferEnds(s))
  <2>1. AtWork' \subseteq AtWork
    BY <1>1, <1>p, WorkMovesOn DEF AssetStartTransfer, AssetOpenFails, AssetWake, NetThreadOther,
         AssetTransferEnds
  <2>2. UNCHANGED <<clientVars, wanted, marker, target, workVars>>
    BY <1>1 DEF AssetStartTransfer, AssetOpenFails, AssetWake, NetThreadOther, AssetTransferEnds,
         assetVars, disk
  <2>3. UNCHANGED <<probes, claimed, nextId, reqId>>
    BY <1>1 DEF AssetStartTransfer, AssetOpenFails, AssetWake, NetThreadOther, AssetTransferEnds,
         StartTransfer, OpenFails, Wake, Relock, DrainOne, DrainEnd, StartFailsRelease, Perform,
         DoneRelease, EndOfLoop, TransferEnds, mainVars, poolVars
  <2> QED
    BY <2>1, <2>2, <2>3, MoveStep
<1>2. CASE PushRequest
  <2>1. AtWork' \subseteq AtWork
    BY <1>2, <1>p, WorkMovesOn DEF PushRequest
  <2> QED
    BY <1>2, <2>1, MoveStep DEF PushRequest, assetVars, disk
<1>3. CASE AssetStartFails
  <2> DEFINE s == Top(pending)
  <2>1. StartFails /\ s \in Slot
    BY <1>3, <1>p, PopFacts DEF AssetStartFails, StartFails
  <2>2. s \in AtWork /\ AtWork' \subseteq AtWork \ {s}
    BY <1>p, <2>1, WorkEnds
  <2>3. /\ Post("downloadFailed", wanted[s])
        /\ UNCHANGED <<clientVars, wanted, marker, target, jobs, job, probes, claimed, nextId,
                       reqId>>
    BY <1>3 DEF AssetStartFails, StartFails, mainVars, poolVars
  <2> HIDE DEF s
  <2> QED
    BY <2>2, <2>3, FailStep
<1>4. ASSUME NEW s \in Slot, AssetTellDone(s) PROVE WorkInv'
  <2>1. s \in AtWork /\ AtWork' \subseteq AtWork \ {s}
    BY <1>4, <1>p, WorkEnds DEF AssetTellDone
  <2>2. UNCHANGED <<clientVars, wanted, marker, target, job, probes, claimed, nextId, reqId>>
    BY <1>4 DEF AssetTellDone, TellDone, mainVars, poolVars
  <2>3. CASE ArchiveReady(wanted[s])
    BY <2>1, <2>2, <2>3, ReadyStep
  <2>4. CASE UNCHANGED <<tmp, zip, events, jobs>>
    BY <2>1, <2>2, <2>4, MoveStep DEF workVars
  <2>5. CASE Post("downloadFailed", wanted[s]) /\ UNCHANGED <<tmp, zip, jobs>>
    BY <2>1, <2>2, <2>5, FailStep
  <2> QED
    BY <1>4, <2>3, <2>4, <2>5 DEF AssetTellDone
<1> QED
  BY <1>1, <1>2, <1>3, <1>4 DEF NetThread

-----------------------------------------------------------------------------
(* The steps of the generic worker.                                        *)

\* A row that shows how its download ended has no more news to wait for,
\* unless main is just requesting it again.
LEMMA QuietRows ==
  ASSUME AssetInv, NEW i \in 1 .. Len(rows),
         rows[i].status \in {"FINISHED_OK", "FINISHED_ERROR"}, call.asset = NoAsset \/ i # call.row
  PROVE  rows[i].asset \in Asset /\ ~Due(rows[i].asset)
<1> USE DEF AssetInv, WorkInv
<1>1. rows[i].asset \in Asset
  <2>1. rows[i] \in Row
    BY ElementOfSeq DEF AssetTypeOK
  <2> QED
    BY <2>1 DEF Row
<1>2. ~Shown(rows[i].asset)
  BY DEF Shown, RowPerAsset
<1>3. ~Dropped
  BY DEF Dropped
<1>4. ~(call.slot # None /\ call.asset = rows[i].asset)
  BY <1>1, AssetAssumption DEF Calling, RowPerAsset, NoRow
<1> QED
  BY <1>1, <1>2, <1>3, <1>4 DEF WorkIsShown

\* So a row that says FINISHED_OK never belongs to an asset at work.
LEMMA OkRowsAreQuiet ==
  ASSUME AssetInv, NEW i \in 1 .. Len(rows), rows[i].status = "FINISHED_OK"
  PROVE  rows[i].asset \in Asset /\ ~Due(rows[i].asset)
<1>1. call.asset = NoAsset \/ i # call.row
  <2>1. i # 0
    OBVIOUS
  <2> QED
    BY <2>1 DEF AssetInv, WorkInv, Calling
<1> QED
  BY <1>1, QuietRows

\* A step of the job, without news.
LEMMA JobStep ==
  ASSUME AssetInv, UNCHANGED <<vars, clientVars, wanted, events>>, WorkApart', Marked',
         \A b \in Asset : Working(b)' => Working(b),
         \A b \in Asset : marker'[b] # marker[b] \/ target'[b] # target[b] => Working(b),
         jobs = <<>> => jobs' = <<>>
  PROVE  WorkInv'
<1> USE DEF AssetInv, WorkInv
<1>u. UNCHANGED <<phase, todo, advancing, call, rows, wasUpdating, probes, claimed, nextId, reqId>>
  BY DEF clientVars, vars, mainVars, poolVars
<1>w. AtWork' = AtWork
  BY DEF AtWork, vars, mainVars, netVars
<1>d. \A b \in Asset : Due(b)' => Due(b)
  BY DEF Due
<1>m. \A b \in Asset : ~Due(b) => marker'[b] = marker[b] /\ target'[b] = target[b]
  BY DEF Due
<1>c. (call.asset # NoAsset => call.asset \in Asset) /\ todo \subseteq Asset
  BY DEF AssetTypeOK, Call
<1>2. LastNews'
  BY DEF LastNews
<1>3. Reported'
  <2>1. ASSUME NEW b \in Asset, HasNews(events, b, {"unpacked"}) PROVE Unpacked(b)'
    <3>1. HasNews(events, b, Final)
      BY <2>1 DEF HasNews, Final
    <3>2. ~Working(b) /\ Unpacked(b)
      BY <2>1, <3>1 DEF LastNews, Reported
    <3> QED
      BY <3>2 DEF Unpacked
  <2>2. ASSUME NEW i \in 1 .. Len(rows), rows[i].status = "FINISHED_OK"
        PROVE  Unpacked(rows[i].asset)'
    <3>1. rows[i].asset \in Asset /\ ~Due(rows[i].asset)
      BY <2>2, OkRowsAreQuiet
    <3> QED
      BY <1>u, <1>m, <2>2, <3>1 DEF Reported, Unpacked
  <2> QED
    BY <1>u, <2>1, <2>2 DEF Reported
<1>4. Calling'
  BY <1>u, <1>d, <1>c, <1>m DEF Calling, NoRow, NoCall
<1>5. Requested'
  BY <1>u, <1>d, <1>c, <1>m DEF Requested, NoRow
<1>6. RowPerAsset'
  BY <1>u DEF RowPerAsset
<1>7. IdsOfRows'
  BY <1>u DEF IdsOfRows
<1>8. WorkIsShown'
  <2> SUFFICES ASSUME NEW b \in Asset, Due(b)
               PROVE  Shown(b)' \/ (call.slot # None /\ call.asset = b) \/ Dropped'
    BY <1>u, <1>d DEF WorkIsShown
  <2>1. Shown(b) \/ (call.slot # None /\ call.asset = b) \/ Dropped
    BY DEF WorkIsShown
  <2>2. Shown(b) => Shown(b)'
    BY <1>u DEF Shown
  <2>3. Dropped => Dropped'
    BY <1>u, <1>w DEF Dropped, NoCall
  <2> QED
    BY <2>1, <2>2, <2>3
<1>9. Phases'
  BY <1>u DEF Phases, OnlyDict, NoCall
<1> QED
  BY <1>2, <1>3, <1>4, <1>5, <1>6, <1>7, <1>8, <1>9

\* job_asset_unpack, step by step.
LEMMA WorkerStep == AssetInv /\ Worker => WorkInv'
<1> SUFFICES ASSUME AssetInv, Worker PROVE WorkInv'
  OBVIOUS
<1> USE DEF AssetInv, WorkInv
<1>w. (UNCHANGED vars) => AtWork' = AtWork
  BY DEF AtWork, vars, mainVars, netVars
<1>t. /\ marker \in [Asset -> BOOLEAN] /\ target \in [Asset -> BOOLEAN]
      /\ job \in UnpackJob /\ jobs \in Seq(Asset)
      /\ \A s \in AtWork : wanted[s] \in Asset
      /\ job.asset # NoAsset => job.asset \in Asset
  BY DEF AssetTypeOK, WorkApart, UnpackJob
<1>1. CASE UnpackStart
  <2> DEFINE a == Head(jobs)
  <2>1. /\ jobs # <<>> /\ jobs' = Tail(jobs) /\ job = NoJob
        /\ job' = [asset |-> a, step |-> "unpack"] /\ target' = [target EXCEPT ![a] = FALSE]
        /\ UNCHANGED <<vars, clientVars, wanted, marker, events>>
    BY <1>1 DEF UnpackStart
  <2>2. a \in Asset /\ Elements(jobs) = Elements(jobs') \cup {a}
        /\ NoRepeats(jobs') /\ a \notin Elements(jobs')
    BY <1>t, <2>1, TailFacts DEF WorkApart
  <2>3. job.asset = NoAsset /\ a # NoAsset /\ job'.asset = a /\ job'.step = "unpack"
    BY <2>1, <2>2, AssetAssumption DEF NoJob
  <2> HIDE DEF a
  <2>4. WorkApart'
    BY <1>w, <2>1, <2>2, <2>3 DEF WorkApart
  <2>5. Marked'
    <3>1. \A b \in Asset : target'[b] = IF b = a THEN FALSE ELSE target[b]
      BY <1>t, <2>1
    <3>2. ~marker[a]
      BY <2>2 DEF Marked
    <3> QED
      BY <1>w, <2>1, <2>2, <2>3, <3>1, <3>2 DEF Marked
  <2>6. \A b \in Asset : Working(b)' => Working(b)
    BY <1>w, <2>1, <2>2, <2>3 DEF Working
  <2>7. \A b \in Asset : marker'[b] # marker[b] \/ target'[b] # target[b] => Working(b)
    BY <1>t, <2>1, <2>2 DEF Working
  <2> QED
    BY <2>1, <2>4, <2>5, <2>6, <2>7, JobStep
<1>2. CASE UnpackOk
  <2>1. /\ job.step = "unpack" /\ job' = [job EXCEPT !.step = "mark"]
        /\ target' = [target EXCEPT ![job.asset] = TRUE]
        /\ UNCHANGED <<vars, clientVars, wanted, marker, events, jobs>>
    BY <1>2 DEF UnpackOk, Step
  <2>2. job'.asset = job.asset /\ job'.step = "mark" /\ job.asset \in Asset
    BY <1>t, <2>1 DEF UnpackJob, WorkApart
  <2>3. WorkApart'
    BY <1>w, <2>1, <2>2, AssetAssumption DEF WorkApart
  <2>4. Marked'
    BY <1>t, <1>w, <2>1, <2>2 DEF Marked
  <2>5. \A b \in Asset : Working(b)' => Working(b)
    BY <1>w, <2>1, <2>2 DEF Working
  <2>6. \A b \in Asset : marker'[b] # marker[b] \/ target'[b] # target[b] => Working(b)
    BY <1>t, <2>1 DEF Working
  <2> QED
    BY <2>1, <2>3, <2>4, <2>5, <2>6, JobStep
<1>3. CASE MarkInstalled
  <2>1. /\ job.step = "mark" /\ job' = [job EXCEPT !.step = "removeZip"]
        /\ \/ marker' = [marker EXCEPT ![job.asset] = TRUE]
           \/ FilesMayFail /\ marker' = marker
        /\ UNCHANGED <<vars, clientVars, wanted, target, events, jobs>>
    BY <1>3 DEF MarkInstalled, Step
  <2>2. job'.asset = job.asset /\ job'.step = "removeZip" /\ job.asset \in Asset
    BY <1>t, <2>1 DEF UnpackJob, WorkApart
  <2>3. WorkApart'
    BY <1>w, <2>1, <2>2, AssetAssumption DEF WorkApart
  <2>4. Marked'
    <3>1. CASE marker' = [marker EXCEPT ![job.asset] = TRUE]
      <4>1. \A b \in Asset : marker'[b] = IF b = job.asset THEN TRUE ELSE marker[b]
        BY <1>t, <3>1
      <4>2. Elements(jobs) \subseteq Asset
        BY <1>t DEF Elements
      <4> QED
        BY <1>t, <1>w, <2>1, <2>2, <4>1, <4>2 DEF Marked, WorkApart, Unpacked
    <3>2. CASE FilesMayFail /\ marker' = marker
      BY <1>w, <2>1, <2>2, <3>2 DEF Marked, Unpacked
    <3> QED
      BY <2>1, <3>1, <3>2
  <2>5. \A b \in Asset : Working(b)' => Working(b)
    BY <1>w, <2>1, <2>2 DEF Working
  <2>6. \A b \in Asset : marker'[b] # marker[b] \/ target'[b] # target[b] => Working(b)
    BY <1>t, <2>1 DEF Working
  <2> QED
    BY <2>1, <2>3, <2>4, <2>5, <2>6, JobStep
<1>4. CASE RemoveZip
  <2>1. /\ job.step = "removeZip" /\ job' = [job EXCEPT !.step = "post"]
        /\ UNCHANGED <<vars, clientVars, wanted, marker, target, events, jobs>>
    BY <1>4 DEF RemoveZip, Step
  <2>2. job'.asset = job.asset /\ job'.step = "post" /\ job.asset \in Asset
    BY <1>t, <2>1 DEF UnpackJob, WorkApart
  <2>3. WorkApart'
    BY <1>w, <2>1, <2>2, AssetAssumption DEF WorkApart
  <2>4. Marked'
    BY <1>w, <2>1, <2>2 DEF Marked, Unpacked
  <2>5. \A b \in Asset : Working(b)' => Working(b)
    BY <1>w, <2>1, <2>2 DEF Working
  <2> QED
    BY <2>1, <2>3, <2>4, <2>5, JobStep
<1>5. CASE UnpackFails
  <2>1. /\ job.step = "unpack" /\ job' = [job EXCEPT !.step = "postFailed"]
        /\ marker' = [marker EXCEPT ![job.asset] = FALSE]
        /\ target' = [target EXCEPT ![job.asset] = FALSE]
        /\ UNCHANGED <<vars, clientVars, wanted, events, jobs>>
    BY <1>5 DEF UnpackFails, Step, Clean
  <2>2. job'.asset = job.asset /\ job'.step = "postFailed" /\ job.asset \in Asset
    BY <1>t, <2>1 DEF UnpackJob, WorkApart
  <2>3. WorkApart'
    BY <1>w, <2>1, <2>2, AssetAssumption DEF WorkApart
  <2>4. Marked'
    BY <1>t, <1>w, <2>1, <2>2 DEF Marked, WorkApart
  <2>5. \A b \in Asset : Working(b)' => Working(b)
    BY <1>w, <2>1, <2>2 DEF Working
  <2>6. \A b \in Asset : marker'[b] # marker[b] \/ target'[b] # target[b] => Working(b)
    BY <1>t, <2>1 DEF Working
  <2> QED
    BY <2>1, <2>3, <2>4, <2>5, <2>6, JobStep
<1>6. CASE PostUnpacked \/ PostUnpackFailed
  <2> SUFFICES ASSUME NEW a, a = job.asset,
                      NEW k \in {"unpacked", "unpackFailed"}, Post(k, a),
                      k = "unpacked" => job.step = "post",
                      job.step \in {"post", "postFailed"}
               PROVE  WorkInv'
    BY <1>6 DEF PostUnpacked, PostUnpackFailed
  <2>1. job' = NoJob /\ UNCHANGED <<vars, clientVars, wanted, marker, target, jobs>>
    BY <1>6 DEF PostUnpacked, PostUnpackFailed, disk
  <2>2. a \in Asset /\ job.asset # NoAsset
    BY <1>t DEF WorkApart
  <2>3. job'.asset = NoAsset /\ job'.step = "none"
    BY <2>1 DEF NoJob
  <2>4. NoAsset \notin Elements(jobs) /\ \A s \in AtWork : wanted[s] # NoAsset
    BY <1>t, AssetAssumption DEF Elements
  <2>5. WorkApart'
    BY <1>w, <2>1, <2>3, <2>4 DEF WorkApart
  <2>6. Marked'
    BY <1>w, <2>1, <2>3 DEF Marked
  <2>7. /\ \A b \in Asset : Working(b)' => Working(b)
        /\ Working(a) /\ ~Working(a)'
    BY <1>w, <2>1, <2>2, <2>3, AssetAssumption DEF Working, WorkApart
  <2>8. k \in Kinds /\ events' = Append(events, Event(k, a))
    BY DEF Kinds, Final, Post
  <2>9. k = "unpacked" => Unpacked(a)
    BY DEF Marked
  <2>10. UNCHANGED <<probes, claimed, nextId, reqId>>
    BY <2>1 DEF vars, mainVars, poolVars
  <2>11. Dropped => jobs' = <<>> /\ AtWork' = {}
    BY <1>w, <2>1 DEF Dropped
  <2> QED
    BY <2>1, <2>2, <2>5, <2>6, <2>7, <2>8, <2>9, <2>10, <2>11, PostStep
<1> QED
  BY <1>1, <1>2, <1>3, <1>4, <1>5, <1>6 DEF Worker

-----------------------------------------------------------------------------
(* The steps of the main thread and of the user.                           *)

\* What main and the screens do to their own state leaves the work alone.
LEMMA SameWork ==
  ASSUME WorkInv, UNCHANGED <<claimed, queue, pending, xfer, cur>>,
         UNCHANGED <<wanted, marker, target, workVars>>
  PROVE  /\ WorkApart' /\ LastNews' /\ Marked'
         /\ AtWork' = AtWork
         /\ \A a : Due(a)' <=> Due(a)
<1>1. AtWork' = AtWork
  BY DEF AtWork
<1>2. UNCHANGED <<events, jobs, job>>
  BY DEF workVars
<1>3. \A a : (Working(a)' <=> Working(a)) /\ (Due(a)' <=> Due(a))
  BY <1>1, <1>2 DEF Working, Due
<1>4. WorkApart'
  BY <1>1, <1>2 DEF WorkInv, WorkApart
<1>5. LastNews'
  BY <1>2, <1>3 DEF WorkInv, LastNews
<1>6. Marked'
  BY <1>1, <1>2 DEF WorkInv, Marked, Unpacked
<1> QED
  BY <1>1, <1>3, <1>4, <1>5, <1>6

\* Between two calls of the API main requests nothing.
LEMMA IdleFacts ==
  FrameIdle => /\ call = NoCall /\ call.asset = NoAsset /\ call.slot = None /\ call.row = 0
               /\ todo = {} /\ ~advancing /\ probes = 0 /\ claimed = None
  BY DEF FrameIdle, MainIdle, NoCall

\* With no rows, no request and onboarding not over, nothing is due.
LEMMA NothingDue ==
  ASSUME AssetInv, FrameIdle, NEW a \in Asset, ~Shown(a), ~Dropped
  PROVE  ~Due(a)
  BY IdleFacts DEF AssetInv, WorkInv, WorkIsShown

\* An empty ctx->downloads shows no asset.
LEMMA NoRowsShow == rows = <<>> => \A a : NoRow(a) /\ ~Shown(a)
<1>1. \A i \in 1 .. Len(<<>>) : FALSE
  OBVIOUS
<1> QED
  BY <1>1 DEF NoRow, Shown

\* A screen decides what is to be requested.
LEMMA FrameStep ==
  AssetInv /\ (DictPressed \/ OptionalPressed \/ DownloadFrame) => WorkInv'
<1> SUFFICES ASSUME AssetInv, DictPressed \/ OptionalPressed \/ DownloadFrame
             PROVE  WorkInv'
  OBVIOUS
<1> USE DEF AssetInv, WorkInv
<1>0. FrameIdle /\ todo' \subseteq Missing
      /\ UNCHANGED <<vars, phase, call, rows, wasUpdating, wanted, disk, workVars>>
  BY DEF DictPressed, OptionalPressed, StepPressed, DownloadFrame
<1>1. UNCHANGED <<claimed, queue, pending, xfer, cur, probes, nextId, reqId, wanted, marker, target,
                  events, jobs, job>>
  BY <1>0 DEF vars, mainVars, poolVars, netVars, disk, workVars
<1>2. WorkApart' /\ LastNews' /\ Marked' /\ AtWork' = AtWork /\ \A a : Due(a)' <=> Due(a)
  BY <1>0, <1>1, SameWork
<1>3. Reported' /\ Calling' /\ RowPerAsset' /\ IdsOfRows'
  BY <1>0, <1>1, <1>2 DEF Reported, Unpacked, Calling, RowPerAsset, IdsOfRows, NoRow, NoCall
<1>4. \A a \in todo' : NoRow(a) /\ ~Shown(a)
  <2>1. CASE DictPressed
    BY <1>0, <2>1, NoRowsShow, IdleFacts DEF DictPressed, StepPressed, Phases
  <2>2. CASE OptionalPressed
    <3>1. \A a \in todo' : a # Dict
      BY <2>2 DEF OptionalPressed, StepPressed
    <3>2. OnlyDict
      BY <1>0, <2>2, IdleFacts DEF OptionalPressed, StepPressed, Phases
    <3> QED
      BY <3>1, <3>2 DEF OnlyDict, NoRow, Shown
  <2>3. CASE DownloadFrame
    BY <2>3, NoRowsShow DEF DownloadFrame
  <2> QED
    BY <2>1, <2>2, <2>3
<1>5. ~Dropped
  BY <1>0, IdleFacts DEF Dropped, DictPressed, OptionalPressed, StepPressed, DownloadFrame
<1>6. Requested'
  <2> SUFFICES ASSUME NEW a \in todo' PROVE ~Due(a) /\ ~marker[a] /\ NoRow(a) /\ call.asset # a
    BY <1>0, <1>1, <1>2 DEF Requested, NoRow
  <2>1. a \in Asset /\ ~marker[a]
    BY <1>0 DEF Missing
  <2> QED
    BY <1>0, <1>4, <1>5, <2>1, IdleFacts, NothingDue, AssetAssumption
<1>7. WorkIsShown'
  BY <1>0, <1>2, <1>5 DEF WorkIsShown, Shown
<1>8. Phases'
  <2>1. CASE DictPressed
    BY <1>0, <2>1, IdleFacts DEF DictPressed, StepPressed, Phases, OnlyDict
  <2>2. CASE OptionalPressed
    BY <1>0, <2>2, IdleFacts DEF OptionalPressed, StepPressed, Phases, OnlyDict
  <2>3. CASE DownloadFrame
    BY <1>0, <2>3, IdleFacts DEF DownloadFrame, Phases, OnlyDict
  <2> QED
    BY <2>1, <2>2, <2>3
<1> QED
  BY <1>2, <1>3, <1>6, <1>7, <1>8

\* onboarding_advance: the next step of onboarding, or the main screens.
LEMMA AdvanceStep == AssetInv /\ Advance => WorkInv'
<1> SUFFICES ASSUME AssetInv, Advance PROVE WorkInv'
  OBVIOUS
<1> USE DEF AssetInv, WorkInv
<1>0. /\ call = NoCall /\ todo = {} /\ advancing /\ ~advancing' /\ phase' = NextPhase[phase]
      /\ UNCHANGED <<vars, todo, call, rows, wasUpdating, wanted, disk, workVars>>
  BY DEF Advance
<1>1. UNCHANGED <<claimed, queue, pending, xfer, cur, probes, nextId, reqId, wanted, marker, target,
                  events, jobs, job>>
  BY <1>0 DEF vars, mainVars, poolVars, netVars, disk, workVars
<1>2. WorkApart' /\ LastNews' /\ Marked' /\ AtWork' = AtWork /\ \A a : Due(a)' <=> Due(a)
  BY <1>0, <1>1, SameWork
<1>3. Reported' /\ Calling' /\ RowPerAsset' /\ IdsOfRows' /\ Requested'
  BY <1>0, <1>1, <1>2 DEF Reported, Unpacked, Calling, RowPerAsset, IdsOfRows, Requested, NoRow, NoCall
<1>4. \/ phase = "dict" /\ phase' = "optional"
      \/ phase = "optional" /\ phase' = "download"
      \/ phase = "download" /\ phase' = "main"
  BY <1>0 DEF AssetTypeOK, Phases, NextPhase
<1>5. WorkIsShown'
  <2>1. Dropped => Dropped'
    BY <1>0, <1>1, <1>2, <1>4 DEF Dropped
  <2> QED
    BY <1>0, <1>2, <2>1 DEF WorkIsShown, Shown
<1>6. Phases'
  BY <1>0, <1>4 DEF Phases, OnlyDict
<1> QED
  BY <1>2, <1>3, <1>5, <1>6

\* Main calls net_download_and_unpack_asset for something that is not due.
LEMMA CallStep ==
  ASSUME AssetInv, NEW a \in Asset, NEW r \in Nat, Request(a, r), ~Due(a),
         Dropped => \A b \in Asset : ~Due(b),
         call = NoCall, todo' \subseteq todo \ {a},
         UNCHANGED <<phase, advancing, rows, wasUpdating, wanted, workVars>>,
         marker' = [marker EXCEPT ![a] = FALSE],
         \A b \in Asset \ {a} : target'[b] = target[b],
         r = 0 => NoRow(a),
         r # 0 => r \in 1 .. Len(rows) /\ rows[r].asset = a /\ rows[r].status = "FINISHED_ERROR",
         phase = "dict" => a = Dict /\ advancing, phase = "optional" /\ ~advancing => a = Dict
  PROVE  WorkInv'
<1> USE DEF AssetInv, WorkInv
<1>1. /\ UNCHANGED <<claimed, queue, pending, xfer, cur, nextId, reqId, events, jobs, job>>
      /\ claimed = None
      /\ call' = [asset |-> a, row |-> r, slot |-> None]
  BY DEF Request, BeginDownload, MainIdle, netVars, poolVars, workVars
<1>2. call'.asset = a /\ call'.row = r /\ call'.slot = None /\ a # NoAsset
  BY <1>1, AssetAssumption
<1>3. \A b \in Asset : marker'[b] = IF b = a THEN FALSE ELSE marker[b]
  BY DEF AssetTypeOK
<1>4. AtWork' = AtWork
  BY <1>1 DEF AtWork
<1>5. \A b : (Working(b)' <=> Working(b)) /\ (Due(b)' <=> Due(b))
  BY <1>1, <1>4 DEF Working, Due
<1>6. ~Working(a)
  BY DEF Due
<1>7. WorkApart'
  BY <1>1, <1>4 DEF WorkApart
<1>8. LastNews'
  BY <1>1, <1>5 DEF LastNews
<1>9. Marked'
  <2>1. /\ \A s \in AtWork : wanted[s] # a /\ wanted[s] \in Asset
        /\ \A b \in Elements(jobs) : b # a
        /\ job.asset # a
    BY <1>6 DEF Working, WorkApart
  <2>2. job.asset # NoAsset => job.asset \in Asset
    BY DEF AssetTypeOK, UnpackJob
  <2>3. Elements(jobs) \subseteq Asset
    BY DEF AssetTypeOK, Elements
  <2>4. job.step # "none" => job.asset \in Asset
    BY <2>2 DEF WorkApart
  <2>5. \A b \in Asset : marker'[b] => target'[b]
    BY <1>3 DEF Marked
  <2>6. /\ \A s \in AtWork : ~marker'[wanted[s]]
        /\ \A b \in Elements(jobs) : ~marker'[b]
    BY <1>3, <2>1, <2>3 DEF Marked
  <2>7. /\ job.step \in {"unpack", "mark", "postFailed"} => ~marker'[job.asset]
        /\ job.step \in {"removeZip", "post"} => Unpacked(job.asset)'
        /\ job.step = "mark" => target'[job.asset]
    BY <1>1, <1>3, <2>1, <2>4 DEF Marked, Unpacked
  <2> HIDE DEF AssetInv, WorkInv
  <2> QED
    BY <1>1, <1>4, <2>5, <2>6, <2>7 DEF Marked
<1>10. Reported'
  <2>1. ASSUME NEW b \in Asset, HasNews(events, b, {"unpacked"}) PROVE Unpacked(b)'
    <3>1. HasNews(events, b, Kinds)
      BY <2>1 DEF HasNews, Kinds, Final
    <3>2. b # a
      BY <3>1 DEF Due
    <3> QED
      BY <1>3, <2>1, <3>2 DEF Reported, Unpacked
  <2>2. ASSUME NEW i \in 1 .. Len(rows), rows[i].status = "FINISHED_OK"
        PROVE  Unpacked(rows[i].asset)'
    <3>1. rows[i].asset \in Asset
      BY <2>2, OkRowsAreQuiet
    <3>2. rows[i].asset # a
      BY <2>2 DEF NoRow, RowPerAsset
    <3> QED
      BY <1>3, <2>2, <3>1, <3>2 DEF Reported, Unpacked
  <2> QED
    BY <1>1, <2>1, <2>2 DEF Reported
<1>11. Calling'
  BY <1>1, <1>2, <1>3, <1>5 DEF Calling, NoRow, NoCall
<1>12. Requested'
  <2>1. todo \subseteq Asset
    BY DEF AssetTypeOK
  <2> QED
    BY <1>2, <1>3, <1>5, <2>1 DEF Requested, NoRow
<1>13. RowPerAsset'
  BY DEF RowPerAsset
<1>14. IdsOfRows'
  BY <1>1, <1>2 DEF IdsOfRows
<1>15. WorkIsShown'
  <2>1. call.slot = None
    BY DEF NoCall
  <2> QED
    BY <1>5, <2>1 DEF WorkIsShown, Shown
<1>16. Phases'
  BY <1>2 DEF Phases, OnlyDict
<1> QED
  BY <1>7, <1>8, <1>9, <1>10, <1>11, <1>12, <1>13, <1>14, <1>15, <1>16

\* clean_asset takes the marker of its asset, and no target of another.
LEMMA CleanFacts ==
  ASSUME marker \in [Asset -> BOOLEAN], target \in [Asset -> BOOLEAN], NEW a, Clean(a, 4)
  PROVE  /\ marker' = [marker EXCEPT ![a] = FALSE]
         /\ \A b \in Asset \ {a} : target'[b] = target[b]
  BY DEF Clean

\* A missing asset is requested.
LEMMA RequestStep ==
  ASSUME AssetInv, NEW a \in Asset, RequestMissing(a) PROVE WorkInv'
<1>1. ~Due(a) /\ ~marker[a] /\ NoRow(a) /\ ~Dropped /\ a \in todo
  BY DEF RequestMissing, AssetInv, WorkInv, Requested, Dropped
<1>2. marker' = [marker EXCEPT ![a] = FALSE]
  BY <1>1 DEF RequestMissing, disk, AssetInv, AssetTypeOK
<1>3. (phase = "dict" => a = Dict /\ advancing) /\ (phase = "optional" /\ ~advancing => a = Dict)
  BY <1>1 DEF AssetInv, AssetTypeOK, WorkInv, Phases, OnlyDict
<1> QED
  BY <1>1, <1>2, <1>3, CallStep DEF RequestMissing, disk

\* download_retry: the row shows a failure, so its asset is not worked for.
LEMMA RetryStep ==
  ASSUME AssetInv, NEW i \in DOMAIN rows, Retry(i) PROVE WorkInv'
<1> SUFFICES ASSUME NEW a, a = rows[i].asset PROVE WorkInv'
  OBVIOUS
<1>0. FrameIdle /\ MayRetry(i) /\ Clean(a, 4) /\ Request(a, i)
      /\ UNCHANGED <<phase, todo, advancing, rows, wasUpdating, wanted, workVars>>
  BY DEF Retry
<1>1. i \in 1 .. Len(rows) /\ i \in Nat /\ i # 0 /\ rows[i].status = "FINISHED_ERROR"
  BY <1>0, LenProperties DEF AssetInv, AssetTypeOK, MayRetry
<1>2. a \in Asset /\ ~Due(a)
  BY <1>0, <1>1, IdleFacts, QuietRows
<1>3. /\ marker' = [marker EXCEPT ![a] = FALSE]
      /\ \A b \in Asset \ {a} : target'[b] = target[b]
  BY <1>0, CleanFacts DEF AssetInv, AssetTypeOK
<1>4. ~Dropped
  BY <1>1, EmptySeq DEF Dropped
<1>5. (phase = "dict" => a = Dict /\ advancing) /\ (phase = "optional" /\ ~advancing => a = Dict)
  BY <1>0, <1>1, EmptySeq, IdleFacts DEF AssetInv, WorkInv, Phases, OnlyDict
<1>6. call = NoCall /\ todo' \subseteq todo \ {a}
  BY <1>0, IdleFacts
<1> QED
  BY <1>0, <1>1, <1>2, <1>3, <1>4, <1>5, <1>6, CallStep

\* trigger_asset_download_or_update, when the worker has kept up: there are no
\* rows and nothing is due.
LEMMA UpdateStep ==
  ASSUME WorkerKeepsUp, AssetInv, NEW a \in Asset, Update(a) PROVE WorkInv'
<1>0. /\ FrameIdle /\ Clean(a, 4) /\ Request(a, 0) /\ phase = "main"
      /\ rows = <<>> /\ job = NoJob /\ events = <<>>
      /\ UNCHANGED <<phase, todo, advancing, rows, wasUpdating, wanted, workVars>>
  BY DEF Update
<1>1. NoRow(a) /\ ~Shown(a)
  BY <1>0, NoRowsShow
<1>2. Dropped => \A b \in Asset : ~Due(b)
  BY <1>0, NoNews, AssetAssumption, EmptyFacts DEF Dropped, Due, Working, NoJob
<1>3. ~Due(a)
  BY <1>0, <1>1, <1>2, NothingDue
<1>4. /\ marker' = [marker EXCEPT ![a] = FALSE]
      /\ \A b \in Asset \ {a} : target'[b] = target[b]
  BY <1>0, CleanFacts DEF AssetInv, AssetTypeOK
<1>5. call = NoCall /\ todo' \subseteq todo \ {a} /\ 0 \in Nat
  BY <1>0, IdleFacts
<1> QED
  BY <1>0, <1>1, <1>2, <1>3, <1>4, <1>5, CallStep

\* The search for a slot.
LEMMA SearchStep == AssetInv /\ SearchSlot => WorkInv'
<1> SUFFICES ASSUME AssetInv, SearchSlot PROVE WorkInv'
  OBVIOUS
<1> USE DEF AssetInv, WorkInv
<1>0. /\ ProbeSlot
      /\ UNCHANGED <<phase, todo, advancing, rows, wasUpdating, marker, target, events, jobs, job,
                     nextId>>
  BY DEF SearchSlot, disk, workVars, ProbeSlot
<1>1. /\ claimed = None
      /\ claimed' # None => /\ claimed' \in Slot \ AtWork /\ probes' = 0
                            /\ AtWork' \subseteq AtWork \cup {claimed'}
      /\ claimed' = None => AtWork' \subseteq AtWork
  BY <1>0, WorkBegins
<1>2. probes > 0 /\ call.asset \in Asset /\ call.slot = None /\ call # NoCall
  BY <1>0 DEF ProbeSlot, Calling, AssetTypeOK, Call
<1>3. ~Due(call.asset) /\ ~marker[call.asset]
  BY <1>2, AssetAssumption DEF Calling
<1>4. CASE claimed' = None
  <2>1. UNCHANGED <<wanted, call>> /\ AtWork' \subseteq AtWork
    BY <1>1, <1>4 DEF SearchSlot
  <2>2. \A a : (Working(a)' => Working(a)) /\ (Due(a)' => Due(a))
    BY <1>0, <2>1, LessWork
  <2>3. WorkApart' /\ LastNews' /\ Marked' /\ Reported'
    BY <1>0, <2>1, <2>2 DEF WorkApart, LastNews, Marked, Reported, Unpacked
  <2>4. Calling' /\ Requested'
    BY <1>0, <1>2, <1>4, <2>1, <2>2 DEF Calling, Requested, NoRow, NoCall
  <2>5. RowPerAsset' /\ IdsOfRows' /\ Phases'
    BY <1>0, <1>2, <2>1 DEF RowPerAsset, IdsOfRows, Phases, OnlyDict, NoCall
  <2>6. WorkIsShown'
    BY <1>0, <1>2, <2>1, <2>2 DEF WorkIsShown, Shown, Dropped
  <2> QED
    BY <2>3, <2>4, <2>5, <2>6
<1>5. CASE claimed' # None
  <2> SUFFICES ASSUME NEW s, s = claimed', NEW a, a = call.asset PROVE WorkInv'
    OBVIOUS
  <2>1. /\ s \in Slot \ AtWork /\ probes' = 0 /\ AtWork' \subseteq AtWork \cup {s} /\ s # None
        /\ wanted' = [wanted EXCEPT ![s] = a] /\ call' = [call EXCEPT !.slot = s]
    BY <1>1, <1>5 DEF SearchSlot
  <2>2. /\ wanted'[s] = a /\ \A t \in AtWork : wanted'[t] = wanted[t] /\ t # s
        /\ call'.asset = a /\ call'.slot = s /\ call'.row = call.row
    BY <2>1 DEF AssetTypeOK, Call, AtWork
  <2>3. a \in Asset /\ ~Due(a) /\ ~Working(a) /\ ~marker[a] /\ a # NoAsset
    BY <1>2, <1>3, AssetAssumption DEF Due
  <2>4. \A b : (Working(b)' => Working(b) \/ b = a) /\ (Due(b)' => Due(b) \/ b = a)
    BY <1>0, <2>1, <2>2 DEF Working, Due
  <2>5. WorkApart'
    <3>1. \A t \in AtWork : wanted[t] # a
      BY <2>3 DEF Working
    <3>2. a \notin Elements(jobs) /\ a # job.asset
      BY <2>3 DEF Working
    <3> QED
      BY <1>0, <2>1, <2>2, <2>3, <3>1, <3>2 DEF WorkApart
  <2>6. LastNews'
    <3>1. \A b \in Asset : HasNews(events, b, Final) => b # a
      BY <2>3 DEF Due, HasNews, Kinds
    <3> QED
      BY <1>0, <2>4, <3>1 DEF LastNews
  <2>7. Marked'
    BY <1>0, <2>1, <2>2, <2>3 DEF Marked, Unpacked
  <2>8. Reported'
    BY <1>0 DEF Reported, Unpacked
  <2>9. Calling'
    BY <1>0, <1>2, <2>1, <2>2, <2>3 DEF Calling, NoRow, NoCall
  <2>10. Requested'
    BY <1>0, <1>2, <2>2, <2>4 DEF Requested, NoRow
  <2>11. RowPerAsset' /\ IdsOfRows'
    BY <1>0, <1>5, <2>2 DEF RowPerAsset, IdsOfRows
  <2>12. Phases'
    BY <1>0, <1>2, <2>2 DEF Phases, OnlyDict
  <2>13. WorkIsShown'
    BY <1>0, <1>2, <2>1, <2>2, <2>4 DEF WorkIsShown, Shown, Dropped
  <2> QED
    BY <2>5, <2>6, <2>7, <2>8, <2>9, <2>10, <2>11, <2>12, <2>13
<1> QED
  BY <1>4, <1>5

\* The ids in ctx->downloads are numbers.
LEMMA RowIds == AssetTypeOK => \A i \in 1 .. Len(rows) : rows[i].id \in Nat
<1> SUFFICES ASSUME AssetTypeOK, NEW i \in 1 .. Len(rows) PROVE rows[i].id \in Nat
  OBVIOUS
<1>1. rows[i] \in Row
  BY ElementOfSeq DEF AssetTypeOK
<1> QED
  BY <1>1, SlotFacts DEF Row, Id

\* The row that download_track adds carries the id the request was just given.
LEMMA TrackedRowFacts ==
  ASSUME AssetInv, call.slot # None, claimed = None
  PROVE  /\ TrackedRow \in Row
         /\ TrackedRow.asset = call.asset /\ TrackedRow.status = "TRACKING"
         /\ TrackedRow.id = nextId - 1 /\ reqId[call.slot] = nextId - 1
<1>1. call.slot \in Slot /\ call.asset \in Asset
  BY AssetAssumption DEF AssetInv, WorkInv, Calling, AssetTypeOK, Call
<1>2. reqId[call.slot] = nextId - 1
  BY DEF AssetInv, WorkInv, IdsOfRows
<1>3. reqId[call.slot] \in Id
  <2>1. reqId[call.slot] \in Id \cup {-1} /\ nextId \in 1 .. MaxId + 1 /\ MaxId \in Nat
    BY <1>1, SlotFacts DEF AssetInv, AssetTypeOK, TypeOK, None
  <2> QED
    BY <1>2, <2>1
<1> QED
  BY <1>1, <1>2, <1>3 DEF TrackedRow, Row, RowStatus

\* The row of the request.
LEMMA TrackStep == AssetInv /\ Track => WorkInv'
<1> SUFFICES ASSUME AssetInv, Track PROVE WorkInv'
  OBVIOUS
<1> USE DEF AssetInv, WorkInv
<1>0. /\ claimed = None /\ probes = 0 /\ call.slot # None /\ call' = NoCall
      /\ wasUpdating' = (wasUpdating \/ (phase = "main" /\ call.row = 0))
      /\ UNCHANGED <<vars, phase, todo, advancing, wanted, disk, workVars>>
  BY DEF Track, MainIdle
<1>1. UNCHANGED <<claimed, queue, pending, xfer, cur, probes, nextId, reqId, wanted, marker, target,
                  events, jobs, job>>
  BY <1>0 DEF vars, mainVars, poolVars, netVars, disk, workVars
<1>2. WorkApart' /\ LastNews' /\ Marked' /\ AtWork' = AtWork /\ \A a : Due(a)' <=> Due(a)
  BY <1>0, <1>1, SameWork
<1>3. call.asset \in Asset /\ call # NoCall
  BY <1>0 DEF Calling, AssetTypeOK, Call, NoCall
<1>4. /\ TrackedRow \in Row
      /\ TrackedRow.asset = call.asset /\ TrackedRow.status = "TRACKING"
      /\ TrackedRow.id = nextId - 1 /\ reqId[call.slot] = nextId - 1
      /\ \A i \in 1 .. Len(rows) : rows[i].id < nextId - 1
  BY <1>0, TrackedRowFacts DEF IdsOfRows
<1>n. nextId \in Nat
  BY SlotFacts DEF AssetTypeOK, TypeOK
<1>5. \E k \in 1 .. Len(rows') :
        /\ \A i \in 1 .. Len(rows') : i # k => i \in 1 .. Len(rows) /\ rows'[i] = rows[i]
        /\ \A i \in 1 .. Len(rows) : i # k => i \in 1 .. Len(rows')
        /\ rows'[k] = TrackedRow
        /\ IF call.row = 0 THEN k \notin 1 .. Len(rows) ELSE k = call.row /\ k \in 1 .. Len(rows)
  <2>1. CASE call.row = 0
    <3>1. rows' = Append(rows, TrackedRow)
      <4>1. DOMAIN rows = 1 .. Len(rows)
        BY LenProperties DEF AssetTypeOK
      <4>2. \A i \in 1 .. Len(rows) : rows[i].id # reqId[call.slot]
        BY <1>4, <1>n, RowIds
      <4> QED
        BY <2>1, <4>1, <4>2 DEF Track
    <3>2. Len(rows) \in Nat /\ Len(rows') = Len(rows) + 1 /\ rows'[Len(rows) + 1] = TrackedRow
          /\ \A i \in 1 .. Len(rows) : rows'[i] = rows[i]
      BY <1>4, <3>1, AppendProperties, LenProperties DEF AssetTypeOK
    <3>3. Len(rows) + 1 \in 1 .. Len(rows') /\ Len(rows) + 1 \notin 1 .. Len(rows)
          /\ 1 .. Len(rows') = 1 .. Len(rows) \cup {Len(rows) + 1}
      BY <3>2
    <3> QED
      BY <2>1, <3>2, <3>3
  <2>2. CASE call.row # 0
    <3>1. rows' = [rows EXCEPT ![call.row] = TrackedRow] /\ call.row \in 1 .. Len(rows)
      BY <1>0, <1>3, <2>2, AssetAssumption DEF Track, Calling
    <3>2. Len(rows') = Len(rows) /\ rows'[call.row] = TrackedRow
          /\ \A i \in 1 .. Len(rows) \ {call.row} : rows'[i] = rows[i]
      BY <1>4, <3>1, ExceptSeq DEF AssetTypeOK
    <3> QED
      BY <2>2, <3>1, <3>2
  <2> QED
    BY <2>1, <2>2
<1>6. PICK k \in 1 .. Len(rows') :
        /\ \A i \in 1 .. Len(rows') : i # k => i \in 1 .. Len(rows) /\ rows'[i] = rows[i]
        /\ \A i \in 1 .. Len(rows) : i # k => i \in 1 .. Len(rows')
        /\ rows'[k] = TrackedRow
        /\ IF call.row = 0 THEN k \notin 1 .. Len(rows) ELSE k = call.row /\ k \in 1 .. Len(rows)
  BY <1>5
<1>7. \A i \in 1 .. Len(rows) : i # k => rows[i].asset # call.asset
  BY <1>0, <1>3, <1>6, AssetAssumption DEF Calling, NoRow, RowPerAsset
<1>8. Reported'
  BY <1>1, <1>4, <1>6 DEF Reported, Unpacked
<1>9. Calling'
  BY <1>0, <1>1 DEF Calling, NoCall
<1>10. Requested'
  <2> SUFFICES ASSUME NEW a \in todo
               PROVE  ~Due(a) /\ ~marker[a] /\ NoRow(a)' /\ call'.asset # a
    BY <1>0, <1>1, <1>2 DEF Requested
  <2>1. ~Due(a) /\ ~marker[a] /\ NoRow(a) /\ call.asset # a /\ a \in Asset
    BY DEF Requested, AssetTypeOK
  <2>2. NoRow(a)'
    BY <1>4, <1>6, <2>1 DEF NoRow
  <2> QED
    BY <1>0, <2>1, <2>2, AssetAssumption DEF NoCall
<1>11. RowPerAsset'
  BY <1>4, <1>6, <1>7 DEF RowPerAsset
<1>12. IdsOfRows'
  <2>1. \A i \in 1 .. Len(rows') : rows'[i].id < nextId
    <3>1. \A i \in 1 .. Len(rows) : rows[i].id < nextId
      BY DEF IdsOfRows
    <3>2. nextId - 1 < nextId
      BY <1>n
    <3> QED
      BY <1>4, <1>6, <3>1, <3>2
  <2> QED
    BY <1>0, <1>1, <2>1 DEF IdsOfRows, NoCall
<1>13. WorkIsShown'
  <2> SUFFICES ASSUME NEW b \in Asset, Due(b) PROVE Shown(b)'
    BY <1>2 DEF WorkIsShown
  <2>1. CASE b = call.asset
    BY <1>4, <1>6, <2>1 DEF Shown
  <2>2. CASE b # call.asset
    <3>1. PICK i \in 1 .. Len(rows) :
            rows[i].asset = b /\ rows[i].status \in {"TRACKING", "UNPACKING"}
      BY <1>3, <2>2 DEF WorkIsShown, Shown, Dropped
    <3>2. i # k
      BY <1>3, <1>6, <2>2, <3>1, AssetAssumption DEF Calling
    <3> QED
      BY <1>6, <3>1, <3>2 DEF Shown
  <2> QED
    BY <2>1, <2>2
<1>14. Phases'
  <2>1. OnlyDict => OnlyDict'
    <3>1. ASSUME OnlyDict, NEW i \in 1 .. Len(rows') PROVE rows'[i].asset = Dict
      BY <1>3, <1>4, <1>6, <3>1, AssetAssumption DEF OnlyDict
    <3> QED
      BY <1>0, <3>1 DEF OnlyDict, NoCall
  <2>2. phase = "dict" => advancing
    BY <1>3 DEF Phases
  <2> QED
    BY <1>0, <2>1, <2>2 DEF Phases
<1> QED
  BY <1>2, <1>8, <1>9, <1>10, <1>11, <1>12, <1>13, <1>14

\* find_download_for_asset, while there is one row per asset.
LEMMA RowOfFacts ==
  ASSUME rows \in Seq(Row), RowPerAsset, NEW a
  PROVE  /\ RowOf(a) = 0 => NoRow(a)
         /\ RowOf(a) # 0 => RowOf(a) \in 1 .. Len(rows) /\ rows[RowOf(a)].asset = a
<1> DEFINE hits == {i \in DOMAIN rows : rows[i].asset = a}
<1>1. DOMAIN rows = 1 .. Len(rows) /\ Len(rows) \in Nat
  BY LenProperties
<1>2. CASE hits = {}
  BY <1>1, <1>2 DEF RowOf, NoRow
<1>3. CASE hits # {}
  <2>1. RowOf(a) = CHOOSE i \in hits : \A j \in hits : i <= j
    BY <1>3 DEF RowOf
  <2>2. PICK n \in hits : n <= n
    BY <1>1, <1>3
  <2>3. hits = {n}
    BY <1>1 DEF RowPerAsset
  <2>4. RowOf(a) \in hits
    BY <2>1, <2>2, <2>3
  <2> QED
    BY <1>1, <2>4
<1> QED
  BY <1>2, <1>3

\* The main thread hears the oldest news.
LEMMA HandleStep == AssetInv /\ HandleEvent => WorkInv'
<1> SUFFICES ASSUME AssetInv, HandleEvent PROVE WorkInv'
  OBVIOUS
<1> USE DEF AssetInv, WorkInv
<1> SUFFICES ASSUME NEW e, e = Head(events), NEW i, i = RowOf(e.asset) PROVE WorkInv'
  OBVIOUS
<1>0. /\ FrameIdle /\ events # <<>> /\ events' = Tail(events)
      /\ rows' = IF i = 0 THEN rows ELSE [rows EXCEPT ![i].status = StatusAfter[e.kind]]
      /\ UNCHANGED <<vars, phase, todo, advancing, call, wasUpdating, wanted, disk, jobs, job>>
  BY DEF HandleEvent
<1>1. UNCHANGED <<claimed, queue, pending, xfer, cur, probes, nextId, reqId, wanted, marker, target,
                  jobs, job>>
  BY <1>0 DEF vars, mainVars, poolVars, netVars, disk, workVars
<1>2. AtWork' = AtWork /\ \A a : Working(a)' <=> Working(a)
  BY <1>1 DEF AtWork, Working
<1>3. /\ e \in News /\ e.kind \in Kinds /\ e.asset \in Asset
      /\ \A a, K : HasNews(events', a, K) => HasNews(events, a, K)
      /\ \A K : e.kind \in K => HasNews(events, e.asset, K)
      /\ FinalIsLast(events')
      /\ e.kind \in Final => ~HasNews(events', e.asset, Kinds)
  BY <1>0, NewsArrived, NewsType DEF LastNews, AssetTypeOK
<1>4. \A a : Due(a)' => Due(a)
  BY <1>2, <1>3 DEF Due
<1>5. /\ Len(rows') = Len(rows)
      /\ \A j \in 1 .. Len(rows) :
           /\ rows'[j].asset = rows[j].asset /\ rows'[j].id = rows[j].id
           /\ rows'[j].status = IF j = i THEN StatusAfter[e.kind] ELSE rows[j].status
      /\ i # 0 => i \in 1 .. Len(rows) /\ rows[i].asset = e.asset
  <2>1. CASE i = 0
    BY <1>0, <2>1
  <2>2. CASE i # 0
    <3>1. i \in 1 .. Len(rows) /\ rows[i].asset = e.asset
      BY <2>2, RowOfFacts DEF AssetTypeOK
    <3>2. rows' = [rows EXCEPT ![i] = [rows[i] EXCEPT !.status = StatusAfter[e.kind]]]
      BY <1>0, <2>2
    <3>3. \A j \in 1 .. Len(rows) : rows[j] \in Row
      BY ElementOfSeq DEF AssetTypeOK
    <3>4. StatusAfter[e.kind] \in RowStatus
      BY <1>3 DEF StatusAfter, RowStatus, Kinds, Final
    <3> DEFINE r == [rows[i] EXCEPT !.status = StatusAfter[e.kind]]
    <3>5. r \in Row /\ r.asset = rows[i].asset /\ r.id = rows[i].id /\ r.status = StatusAfter[e.kind]
      BY <3>1, <3>3, <3>4 DEF Row
    <3> HIDE DEF r
    <3>6. Len(rows') = Len(rows) /\ \A j \in 1 .. Len(rows) : rows'[j] = IF j = i THEN r ELSE rows[j]
      BY <3>1, <3>2, <3>5, ExceptSeq DEF AssetTypeOK, r
    <3> QED
      BY <3>1, <3>5, <3>6
  <2> QED
    BY <2>1, <2>2
<1>6. WorkApart'
  BY <1>1, <1>2 DEF WorkApart
<1>7. LastNews'
  BY <1>2, <1>3 DEF LastNews
<1>8. Marked'
  BY <1>1, <1>2 DEF Marked, Unpacked
<1>9. Reported'
  <2>1. StatusAfter[e.kind] = "FINISHED_OK" => Unpacked(e.asset)
    <3>1. StatusAfter[e.kind] = "FINISHED_OK" => e.kind = "unpacked"
      BY <1>3 DEF StatusAfter, Kinds, Final
    <3> QED
      BY <1>3, <3>1 DEF Reported
  <2> QED
    BY <1>1, <1>3, <1>5, <2>1 DEF Reported, Unpacked
<1>10. Calling'
  BY <1>0, <1>1, IdleFacts DEF Calling, NoCall
<1>11. Requested'
  BY <1>0, IdleFacts DEF Requested
<1>12. RowPerAsset' /\ IdsOfRows'
  BY <1>0, <1>1, <1>5 DEF RowPerAsset, IdsOfRows
<1>13. WorkIsShown'
  <2> SUFFICES ASSUME NEW b \in Asset, Due(b)' PROVE Shown(b)' \/ Dropped'
    BY DEF WorkIsShown
  <2>1. Due(b)
    BY <1>4
  <2>2. Shown(b) \/ Dropped
    BY <1>0, <2>1, IdleFacts DEF WorkIsShown
  <2>3. CASE Dropped
    <3>1. i = 0
      BY <1>5, <2>3, NoRowsShow DEF Dropped, NoRow
    <3> QED
      BY <1>0, <1>1, <1>2, <2>3, <3>1 DEF Dropped
  <2>4. ASSUME NEW j \in 1 .. Len(rows), rows[j].asset = b,
               rows[j].status \in {"TRACKING", "UNPACKING"}
        PROVE  Shown(b)'
    <3>1. CASE j # i
      BY <1>5, <2>4, <3>1 DEF Shown
    <3>2. CASE j = i
      <4>1. e.asset = b
        BY <1>5, <2>4, <3>2
      <4>2. e.kind \notin Final
        BY <1>2, <1>3, <4>1 DEF LastNews, Due
      <4>3. StatusAfter[e.kind] = "UNPACKING"
        BY <1>3, <4>2 DEF StatusAfter, Kinds
      <4> QED
        BY <1>5, <2>4, <3>2, <4>3 DEF Shown
    <3> QED
      BY <3>1, <3>2
  <2> QED
    BY <2>2, <2>3, <2>4 DEF Shown
<1>14. Phases'
  <2>1. rows = <<>> => rows' = <<>>
    <3>1. rows = <<>> => i = 0
      BY <1>5, NoRowsShow DEF NoRow
    <3> QED
      BY <1>0, <3>1
  <2> QED
    BY <1>0, <1>5, <2>1 DEF Phases, OnlyDict
<1> QED
  BY <1>6, <1>7, <1>8, <1>9, <1>10, <1>11, <1>12, <1>13, <1>14

\* The rows are dropped, or the runtime data are read again: nothing is due,
\* except that the end of the last job may still be told after onboarding.
LEMMA DropStep ==
  AssetInv /\ (OnboardingDone \/ UpdateCompleted \/ ReinitRuntime) => WorkInv'
<1> SUFFICES ASSUME AssetInv, OnboardingDone \/ UpdateCompleted \/ ReinitRuntime PROVE WorkInv'
  OBVIOUS
<1> USE DEF AssetInv, WorkInv
<1>0. /\ FrameIdle /\ rows' = <<>>
      /\ UNCHANGED <<vars, phase, todo, call, wanted, disk, workVars>>
  BY DEF OnboardingDone, UpdateCompleted, ReinitRuntime
<1>1. UNCHANGED <<claimed, queue, pending, xfer, cur, probes, nextId, reqId, wanted, marker, target,
                  events, jobs, job>>
  BY <1>0 DEF vars, mainVars, poolVars, netVars, disk, workVars
<1>2. WorkApart' /\ LastNews' /\ Marked' /\ AtWork' = AtWork /\ \A a : Due(a)' <=> Due(a)
  BY <1>0, <1>1, SameWork
<1>3. \A i \in 1 .. Len(rows') : FALSE
  BY <1>0
<1>4. Reported' /\ RowPerAsset' /\ IdsOfRows'
  BY <1>0, <1>1, <1>3, IdleFacts DEF Reported, Unpacked, RowPerAsset, IdsOfRows
<1>5. Calling' /\ Requested'
  BY <1>0, <1>1, IdleFacts DEF Calling, Requested, NoCall
<1>6. OnlyDict => OnlyDict'
  BY <1>0, <1>3 DEF OnlyDict
<1>7. CASE OnboardingDone
  <2>1. phase = "download" /\ Missing = {} /\ advancing' /\ UNCHANGED wasUpdating
    BY <1>7 DEF OnboardingDone
  <2>2. \A a \in Asset : marker[a]
    BY <2>1 DEF Missing
  <2>3. AtWork = {}
    BY <2>2 DEF Marked, WorkApart
  <2>4. jobs = <<>>
    <3>1. jobs # <<>> => Head(jobs) \in Asset /\ Head(jobs) \in Elements(jobs)
      BY TailFacts DEF AssetTypeOK
    <3> QED
      BY <2>2, <3>1 DEF Marked
  <2>5. Dropped'
    BY <1>0, <1>1, <1>2, <2>1, <2>3, <2>4, IdleFacts DEF Dropped, Phases
  <2>6. Phases'
    BY <1>0, <2>1 DEF Phases
  <2> QED
    BY <1>2, <1>4, <1>5, <2>5, <2>6 DEF WorkIsShown
<1>8. CASE UpdateCompleted \/ ReinitRuntime
  <2>1. phase = "main" /\ UNCHANGED advancing /\ ~Dropped
    BY <1>8 DEF UpdateCompleted, ReinitRuntime, Dropped
  <2>2. \A a \in Asset : ~Shown(a)
    <3>1. CASE UpdateCompleted
      <4>1. \A i \in 1 .. Len(rows) : rows[i].status = "FINISHED_OK"
        BY <3>1, LenProperties DEF UpdateCompleted, AllRowsDone, AssetTypeOK
      <4> QED
        BY <4>1 DEF Shown
    <3>2. CASE ReinitRuntime
      BY <3>2, NoRowsShow DEF ReinitRuntime
    <3> QED
      BY <1>8, <3>1, <3>2
  <2>3. WorkIsShown'
    BY <1>0, <1>2, <2>1, <2>2, NothingDue DEF WorkIsShown
  <2>4. Phases'
    BY <1>0, <2>1, IdleFacts DEF Phases
  <2> QED
    BY <1>2, <1>4, <1>5, <2>3, <2>4
<1> QED
  BY <1>7, <1>8

-----------------------------------------------------------------------------
(* The start of a process.                                                 *)

\* Nothing is under way, and a marker has its target.
AtStart ==
  /\ Init
  /\ todo = {} /\ advancing = FALSE /\ call = NoCall /\ rows = <<>>
  /\ wasUpdating = FALSE /\ events = <<>> /\ jobs = <<>> /\ job = NoJob
  /\ \A a \in Asset : marker[a] => target[a]

\* A process starts with nothing to do.
LEMMA WorkAtStart == AtStart => WorkInv
<1> SUFFICES ASSUME AtStart PROVE WorkInv
  OBVIOUS
<1>1. /\ todo = {} /\ advancing = FALSE /\ call = NoCall /\ rows = <<>>
      /\ wasUpdating = FALSE /\ events = <<>> /\ jobs = <<>> /\ job = NoJob
      /\ \A a \in Asset : marker[a] => target[a]
  BY DEF AtStart
<1>2. AtWork = {}
  BY EmptyFacts, SlotFacts DEF AtStart, Init, AtWork
<1>3. probes = 0 /\ claimed = None
  BY DEF AtStart, Init
<1>4. /\ \A i \in 1 .. Len(rows) : FALSE
      /\ job.asset = NoAsset /\ job.step = "none"
      /\ call.asset = NoAsset /\ call.slot = None
  BY <1>1 DEF NoJob, NoCall
<1>5. \A a \in Asset : ~Working(a) /\ ~Due(a)
  BY <1>1, <1>2, <1>4, EmptyFacts, NoNews, AssetAssumption DEF Working, Due
<1>6. WorkApart
  BY <1>1, <1>2, <1>4, EmptyFacts DEF WorkApart
<1>7. LastNews
  BY <1>1, NoNews DEF LastNews
<1>8. Marked
  BY <1>1, <1>2, <1>4, EmptyFacts DEF Marked
<1>9. Reported
  BY <1>1, <1>4, NoNews DEF Reported
<1>10. Calling /\ Requested
  BY <1>1, <1>3, <1>4 DEF Calling, Requested
<1>11. RowPerAsset /\ IdsOfRows
  BY <1>4 DEF RowPerAsset, IdsOfRows
<1>12. WorkIsShown
  BY <1>5 DEF WorkIsShown
<1>13. Phases
  BY <1>1, <1>4 DEF Phases, OnlyDict
<1> QED
  BY <1>6, <1>7, <1>8, <1>9, <1>10, <1>11, <1>12, <1>13 DEF WorkInv

\* It may start again after any step, inside clean_asset as well: the marker
\* goes before the target.
LEMMA RestartStep == AssetInv /\ Restart => WorkInv'
<1> SUFFICES ASSUME AssetInv, Restart PROVE AtStart'
  <2>1. AtStart' => WorkInv'
    BY WorkAtStart, PTL
  <2> QED
    BY <2>1
<1>1. /\ todo' = {} /\ advancing' = FALSE /\ call' = NoCall /\ rows' = <<>>
      /\ wasUpdating' = FALSE /\ events' = <<>> /\ jobs' = <<>> /\ job' = NoJob
  BY DEF Restart
<1>2. Init'
  BY DEF Restart, Reset, Init
<1>3. \A a \in Asset : marker[a] => target[a]
  BY DEF AssetInv, WorkInv, Marked
<1>4. \A a \in Asset : marker'[a] => target'[a]
  <2>1. CASE UNCHANGED disk
    BY <1>3, <2>1 DEF disk
  <2>2. ASSUME NEW a \in Asset, NEW k \in 1 .. 3, Clean(a, k)
        PROVE  \A b \in Asset : marker'[b] => target'[b]
    <3>1. target' = target /\ (marker' = marker \/ marker' = [marker EXCEPT ![a] = FALSE])
      BY <2>2 DEF Clean
    <3>2. marker \in [Asset -> BOOLEAN]
      BY DEF AssetInv, AssetTypeOK
    <3> QED
      BY <1>3, <3>1, <3>2
  <2> QED
    BY <2>1, <2>2 DEF Restart
<1> QED
  BY <1>1, <1>2, <1>4 DEF AtStart

\* Every step keeps the invariant of the work.
LEMMA WorkStep ==
  ASSUME WorkerKeepsUp, AssetInv, [AssetNext]_allVars
  PROVE  WorkInv'
<1>1. CASE UNCHANGED allVars
  <2>1. UNCHANGED <<vars, clientVars, wanted, marker, target, workVars>>
    BY <1>1 DEF allVars, assetVars, disk
  <2>2. UNCHANGED <<claimed, queue, pending, xfer, cur, probes, nextId, reqId>>
    BY <2>1 DEF vars, mainVars, poolVars, netVars
  <2>3. AtWork' \subseteq AtWork
    BY <2>2 DEF AtWork
  <2> QED
    BY <2>1, <2>2, <2>3, MoveStep
<1>2. CASE MainThread
  BY <1>2, FrameStep, AdvanceStep, RequestStep, SearchStep, NetStep, TrackStep, HandleStep, DropStep
     DEF MainThread
<1>3. CASE User
  BY <1>3, FrameStep, RetryStep, UpdateStep DEF User
<1>4. CASE NetThread \/ AssetOpenFails \/ AssetWake \/ \E s \in Slot : AssetTransferEnds(s)
  BY <1>4, NetStep
<1>5. CASE Worker
  BY <1>5, WorkerStep
<1>6. CASE Restart
  BY <1>6, RestartStep
<1> QED
  BY <1>1, <1>2, <1>3, <1>4, <1>5, <1>6 DEF AssetNext, AliveNext

-----------------------------------------------------------------------------
(* Types.                                                                  *)

\* The parts of AssetTypeOK beyond the pool's.
ClientType ==
  /\ phase \in {"dict", "optional", "download", "main"}
  /\ todo \subseteq Asset /\ advancing \in BOOLEAN
  /\ call \in Call
  /\ rows \in Seq(Row)
  /\ wasUpdating \in BOOLEAN
  /\ wanted \in [Slot -> Asset \cup {NoAsset}]

DiskType ==
  /\ tmp \in [Asset -> Content] /\ zip \in [Asset -> Content]
  /\ marker \in [Asset -> BOOLEAN] /\ target \in [Asset -> BOOLEAN]

WorkType ==
  /\ events \in Seq(News)
  /\ jobs \in Seq(Asset)
  /\ job \in UnpackJob

\* The type invariant is that of the pool and those parts.
LEMMA AssetTypes == AssetTypeOK <=> TypeOK /\ ClientType /\ DiskType /\ WorkType
  BY DEF AssetTypeOK, ClientType, DiskType, WorkType

\* What a step does not touch keeps its type.
LEMMA SameTypes ==
  ASSUME AssetTypeOK
  PROVE  /\ UNCHANGED <<clientVars, wanted>> => ClientType'
         /\ UNCHANGED disk => DiskType'
         /\ UNCHANGED workVars => WorkType'
<1>1. ASSUME UNCHANGED <<clientVars, wanted>> PROVE ClientType'
  BY <1>1 DEF AssetTypeOK, ClientType, clientVars
<1>2. ASSUME UNCHANGED disk PROVE DiskType'
  BY <1>2 DEF AssetTypeOK, DiskType, disk
<1>3. ASSUME UNCHANGED workVars PROVE WorkType'
  BY <1>3 DEF AssetTypeOK, WorkType, workVars
<1> QED
  BY <1>1, <1>2, <1>3

\* The records that the main thread and the worker keep.
LEMMA CallTypes ==
  /\ NoCall \in Call /\ NoJob \in UnpackJob
  /\ \A a \in Asset, r \in Nat : [asset |-> a, row |-> r, slot |-> None] \in Call
  /\ \A c \in Call, s \in Slot : [c EXCEPT !.slot = s] \in Call
  BY DEF NoCall, NoJob, Call, UnpackJob

\* clean_asset, complete or cut short.
LEMMA CleanType == ASSUME DiskType, NEW a, NEW k \in 0 .. 4, Clean(a, k) PROVE DiskType'
<1>1. /\ tmp' = tmp \/ tmp' = [tmp EXCEPT ![a] = "none"]
      /\ zip' = zip \/ zip' = [zip EXCEPT ![a] = "none"]
      /\ marker' = marker \/ marker' = [marker EXCEPT ![a] = FALSE]
      /\ target' = target \/ target' = [target EXCEPT ![a] = FALSE]
  BY DEF Clean
<1>2. "none" \in Content
  BY DEF Content
<1>3. tmp' \in [Asset -> Content]
  BY <1>1, <1>2 DEF DiskType
<1>4. zip' \in [Asset -> Content]
  BY <1>1, <1>2 DEF DiskType
<1>5. marker' \in [Asset -> BOOLEAN]
  BY <1>1 DEF DiskType
<1>6. target' \in [Asset -> BOOLEAN]
  BY <1>1 DEF DiskType
<1> QED
  BY <1>3, <1>4, <1>5, <1>6 DEF DiskType

\* A callback is queued.
LEMMA PostType ==
  ASSUME events \in Seq(News), NEW k \in Kinds, NEW a \in Asset, Post(k, a)
  PROVE  events' \in Seq(News)
<1>1. Event(k, a) \in News
  BY NewsType
<1> QED
  BY <1>1, AppendProperties DEF Post

\* Types after the steps of the main thread and of the user ...
LEMMA MainType ==
  AssetInv /\ (MainThread \/ User) => ClientType' /\ DiskType' /\ WorkType'
<1> SUFFICES ASSUME AssetInv, MainThread \/ User PROVE ClientType' /\ DiskType' /\ WorkType'
  OBVIOUS
<1>0. AssetTypeOK /\ ClientType /\ DiskType /\ WorkType
  BY AssetTypes DEF AssetInv
<1>1. CASE DictPressed \/ OptionalPressed \/ DownloadFrame
  <2>1. /\ todo' \subseteq Asset /\ advancing' \in {TRUE, advancing}
        /\ UNCHANGED <<phase, call, rows, wasUpdating, wanted, disk, workVars>>
    BY <1>1 DEF DictPressed, OptionalPressed, StepPressed, DownloadFrame, Missing
  <2>2. ClientType'
    BY <1>0, <2>1 DEF ClientType
  <2> QED
    BY <1>0, <2>1, <2>2, SameTypes
<1>2. CASE Advance
  <2>1. phase' = NextPhase[phase] /\ advancing' = FALSE /\ advancing
        /\ UNCHANGED <<todo, call, rows, wasUpdating, wanted, disk, workVars>>
    BY <1>2 DEF Advance
  <2>2. phase' \in {"dict", "optional", "download", "main"}
    BY <1>0, <2>1 DEF ClientType, NextPhase, AssetInv, WorkInv, Phases
  <2>3. ClientType'
    BY <1>0, <2>1, <2>2 DEF ClientType
  <2> QED
    BY <1>0, <2>1, <2>3, SameTypes
<1>3. ASSUME NEW a \in Asset, RequestMissing(a) PROVE ClientType' /\ DiskType' /\ WorkType'
  <2>1. todo' \subseteq todo /\ call' = [asset |-> a, row |-> 0, slot |-> None]
        /\ UNCHANGED <<phase, advancing, rows, wasUpdating, wanted, disk, workVars>>
    BY <1>3 DEF RequestMissing, Request
  <2>2. ClientType'
    BY <1>0, <2>1, CallTypes DEF ClientType
  <2> QED
    BY <1>0, <2>1, <2>2, SameTypes
<1>4. CASE SearchSlot
  <2>1. UNCHANGED <<phase, todo, advancing, rows, wasUpdating, disk, workVars>>
    BY <1>4 DEF SearchSlot
  <2>2. CASE claimed' = None
    <3>1. UNCHANGED <<call, wanted>>
      BY <1>4, <2>2 DEF SearchSlot
    <3> QED
      BY <1>0, <2>1, <3>1, SameTypes DEF clientVars
  <2>3. CASE claimed' # None
    <3>1. wanted' = [wanted EXCEPT ![claimed'] = call.asset]
          /\ call' = [call EXCEPT !.slot = claimed']
      BY <1>4, <2>3 DEF SearchSlot
    <3>2. claimed' \in Slot
      BY <1>4, <2>3, WorkBegins DEF SearchSlot, AssetInv
    <3>3. call.asset \in Asset \cup {NoAsset}
      BY <1>0 DEF ClientType, Call
    <3>4. call' \in Call
      BY <1>0, <3>1, <3>2, CallTypes DEF ClientType
    <3>5. wanted' \in [Slot -> Asset \cup {NoAsset}]
      BY <1>0, <3>1, <3>3 DEF ClientType
    <3>6. ClientType'
      BY <1>0, <2>1, <3>4, <3>5 DEF ClientType
    <3> QED
      BY <1>0, <2>1, <3>6, SameTypes
  <2> QED
    BY <2>2, <2>3
<1>5. CASE PushRequest
  BY <1>0, <1>5, SameTypes DEF PushRequest, assetVars
<1>6. CASE Track
  <2>1. /\ claimed = None /\ call.slot # None /\ call' = NoCall
        /\ wasUpdating' \in BOOLEAN
        /\ UNCHANGED <<phase, todo, advancing, wanted, disk, workVars>>
    BY <1>0, <1>6 DEF Track, MainIdle, ClientType
  <2>2. TrackedRow \in Row
    BY <2>1, TrackedRowFacts
  <2>3. rows' \in Seq(Row)
    <3>1. CASE rows' = Append(rows, TrackedRow)
      BY <1>0, <2>2, <3>1, AppendProperties DEF ClientType
    <3>2. CASE call.row # 0
      <4>1. call.row \in 1 .. Len(rows)
        BY <2>1, <3>2, AssetAssumption DEF AssetInv, WorkInv, Calling
      <4>2. rows' = [rows EXCEPT ![call.row] = TrackedRow]
        BY <1>6, <3>2 DEF Track
      <4> QED
        BY <1>0, <2>2, <4>1, <4>2, ExceptSeq DEF ClientType
    <3>3. CASE rows' = rows
      BY <1>0, <3>3 DEF ClientType
    <3> QED
      BY <1>6, <3>1, <3>2, <3>3 DEF Track
  <2>4. ClientType'
    BY <1>0, <2>1, <2>3, CallTypes DEF ClientType
  <2> QED
    BY <1>0, <2>1, <2>4, SameTypes
<1>7. CASE HandleEvent
  <2> SUFFICES ASSUME NEW e, e = Head(events), NEW i, i = RowOf(e.asset)
               PROVE  ClientType' /\ DiskType' /\ WorkType'
    OBVIOUS
  <2>1. /\ events # <<>> /\ events' = Tail(events)
        /\ rows' = IF i = 0 THEN rows ELSE [rows EXCEPT ![i].status = StatusAfter[e.kind]]
        /\ UNCHANGED <<phase, todo, advancing, call, wasUpdating, wanted, disk, jobs, job>>
    BY <1>7 DEF HandleEvent
  <2>2. e \in News /\ events' \in Seq(News)
    BY <1>0, <2>1, NewsArrived DEF WorkType
  <2>3. StatusAfter[e.kind] \in RowStatus
    BY <2>2, NewsType DEF StatusAfter, RowStatus, Kinds, Final
  <2>4. rows' \in Seq(Row)
    <3>1. CASE i = 0
      BY <1>0, <2>1, <3>1 DEF ClientType
    <3>2. CASE i # 0
      <4>1. i \in 1 .. Len(rows)
        BY <1>0, <3>2, RowOfFacts DEF ClientType, AssetInv, WorkInv
      <4>2. rows' = [rows EXCEPT ![i] = [rows[i] EXCEPT !.status = StatusAfter[e.kind]]]
        BY <2>1, <3>2
      <4>3. rows[i] \in Row
        BY <1>0, <4>1, ElementOfSeq DEF ClientType
      <4>4. [rows[i] EXCEPT !.status = StatusAfter[e.kind]] \in Row
        BY <2>3, <4>3 DEF Row
      <4> QED
        BY <1>0, <4>1, <4>2, <4>4, ExceptSeq DEF ClientType
    <3> QED
      BY <3>1, <3>2
  <2>5. ClientType'
    BY <1>0, <2>1, <2>4 DEF ClientType
  <2>6. WorkType'
    BY <1>0, <2>1, <2>2 DEF WorkType
  <2> QED
    BY <1>0, <2>1, <2>5, <2>6, SameTypes
<1>8. CASE OnboardingDone \/ UpdateCompleted \/ ReinitRuntime
  <2>1. /\ rows' = <<>> /\ advancing' \in {TRUE, advancing} /\ wasUpdating' \in {FALSE, wasUpdating}
        /\ UNCHANGED <<phase, todo, call, wanted, disk, workVars>>
    BY <1>8 DEF OnboardingDone, UpdateCompleted, ReinitRuntime
  <2>2. ClientType'
    BY <1>0, <2>1, EmptyFacts DEF ClientType
  <2> QED
    BY <1>0, <2>1, <2>2, SameTypes
<1>9. ASSUME NEW a \in Asset, NEW r \in Nat, Clean(a, 4), Request(a, r),
             UNCHANGED <<phase, todo, advancing, rows, wasUpdating, wanted, workVars>>
      PROVE  ClientType' /\ DiskType' /\ WorkType'
  <2>1. DiskType'
    BY <1>0, <1>9, CleanType
  <2>2. call' \in Call
    BY <1>9, CallTypes DEF Request
  <2>3. ClientType'
    BY <1>0, <1>9, <2>2 DEF ClientType
  <2> QED
    BY <1>0, <1>9, <2>1, <2>3, SameTypes
<1>10. ASSUME NEW i \in DOMAIN rows, Retry(i) PROVE ClientType' /\ DiskType' /\ WorkType'
  <2>1. i \in Nat /\ rows[i].asset \in Asset
    <3>1. i \in 1 .. Len(rows) /\ i \in Nat
      BY <1>0, LenProperties DEF ClientType
    <3>2. rows[i] \in Row
      BY <1>0, <3>1, ElementOfSeq DEF ClientType
    <3> QED
      BY <3>1, <3>2 DEF Row
  <2> QED
    BY <1>9, <1>10, <2>1 DEF Retry
<1>11. ASSUME NEW a \in Asset, Update(a) PROVE ClientType' /\ DiskType' /\ WorkType'
  BY <1>9, <1>11 DEF Update
<1> QED
  BY <1>1, <1>2, <1>3, <1>4, <1>5, <1>6, <1>7, <1>8, <1>10, <1>11 DEF MainThread, User

\* ... of the network thread and of the network ...
LEMMA NetType ==
  ASSUME AssetInv,
         NetThread \/ AssetOpenFails \/ AssetWake \/ \E s \in Slot : AssetTransferEnds(s)
  PROVE  ClientType' /\ DiskType' /\ WorkType'
<1>0. AssetTypeOK /\ ClientType /\ DiskType /\ WorkType /\ PoolInv /\ pending \in Seq(Slot)
  BY AssetTypes DEF AssetInv, PoolInv, TypeOK
<1>c. UNCHANGED <<clientVars, wanted, marker, target, job>>
  BY DEF NetThread, AssetStartTransfer, AssetStartFails, AssetTellDone, NetThreadOther,
         AssetOpenFails, AssetWake, AssetTransferEnds, assetVars, disk, workVars
<1>1. ClientType'
  BY <1>0, <1>c, SameTypes
<1>2. ASSUME NEW a, NEW c \in Content, tmp' = [tmp EXCEPT ![a] = c], zip' = zip PROVE DiskType'
  <2>1. tmp' \in [Asset -> Content]
    BY <1>0, <1>2 DEF DiskType
  <2> QED
    BY <1>0, <1>2, <1>c, <2>1 DEF DiskType
<1>3. ASSUME NEW a \in Asset, Opened(a), zip' = zip PROVE DiskType'
  <2>1. tmp[a] \in Content /\ "part" \in Content
    BY <1>0 DEF DiskType, Content
  <2>2. tmp' = [tmp EXCEPT ![a] = IF tmp[a] = "none" THEN "part" ELSE tmp[a]]
    BY <1>3 DEF Opened
  <2> QED
    BY <1>2, <1>3, <2>1, <2>2
<1>4. CASE AssetOpenFails \/ AssetWake \/ NetThreadOther
  <2>1. UNCHANGED <<disk, workVars>>
    BY <1>4 DEF AssetOpenFails, AssetWake, NetThreadOther, assetVars
  <2> QED
    BY <1>0, <1>1, <2>1, SameTypes
<1>5. CASE AssetStartTransfer \/ AssetStartFails
  <2> SUFFICES ASSUME NEW s, s = Top(pending), NEW a, a = wanted[s]
               PROVE  DiskType' /\ WorkType'
    BY <1>1
  <2>1. pending # <<>> /\ netPc = "start"
    BY <1>5 DEF AssetStartTransfer, AssetStartFails, StartTransfer, StartFails
  <2>2. s \in AtWork
    <3>1. s \in Slot /\ s \in Elements(pending)
      BY <1>0, <2>1, PopFacts
    <3>2. cur = None
      BY <1>0, <2>1 DEF PoolInv, AboutToRelease
    <3> QED
      BY <3>1, <3>2, SlotFacts DEF AtWork
  <2>3. a \in Asset
    BY <2>2 DEF AssetInv, WorkInv, WorkApart
  <2>4. Opened(a) /\ zip' = zip
    BY <1>5 DEF AssetStartTransfer, AssetStartFails
  <2>5. CASE AssetStartTransfer
    <3>1. UNCHANGED workVars
      BY <2>5 DEF AssetStartTransfer
    <3> QED
      BY <1>0, <1>3, <2>3, <2>4, <3>1, SameTypes
  <2>6. CASE AssetStartFails
    <3>1. Post("downloadFailed", a) /\ UNCHANGED <<jobs, job>> /\ "downloadFailed" \in Kinds
      BY <2>6 DEF AssetStartFails, Kinds, Final
    <3>2. WorkType'
      BY <1>0, <2>3, <3>1, PostType DEF WorkType
    <3> QED
      BY <1>3, <2>3, <2>4, <3>2
  <2> QED
    BY <1>5, <2>5, <2>6
<1>6. ASSUME NEW s \in Slot, AssetTellDone(s) PROVE DiskType' /\ WorkType'
  <2> SUFFICES ASSUME NEW a, a = wanted[s] PROVE DiskType' /\ WorkType'
    OBVIOUS
  <2>1. a \in Asset
    BY <1>0, <1>6, WorkEnds DEF AssetTellDone, AssetInv, WorkInv, WorkApart
  <2>2. CASE ArchiveReady(a)
    <3>1. /\ zip' = [zip EXCEPT ![a] = tmp[a]] /\ tmp' = [tmp EXCEPT ![a] = "none"]
          /\ Post("unpacking", a) /\ jobs' = Append(jobs, a)
          /\ "unpacking" \in Kinds /\ "none" \in Content
      BY <2>2 DEF ArchiveReady, Kinds, Content
    <3>2. zip' \in [Asset -> Content] /\ tmp' \in [Asset -> Content]
      BY <1>0, <2>1, <3>1 DEF DiskType
    <3>3. events' \in Seq(News)
      BY <1>0, <2>1, <3>1, PostType DEF WorkType
    <3>4. jobs' \in Seq(Asset)
      BY <1>0, <2>1, <3>1, AppendProperties DEF WorkType
    <3> QED
      BY <1>0, <1>c, <3>2, <3>3, <3>4 DEF DiskType, WorkType
  <2>3. CASE UNCHANGED <<tmp, zip, events, jobs>>
    BY <1>0, <1>c, <2>3, SameTypes DEF disk, workVars
  <2>4. CASE Post("downloadFailed", a) /\ UNCHANGED <<tmp, zip, jobs>>
    <3>1. "downloadFailed" \in Kinds
      BY DEF Kinds, Final
    <3>2. WorkType'
      BY <1>0, <1>c, <2>1, <2>4, <3>1, PostType DEF WorkType
    <3> QED
      BY <1>0, <1>c, <2>4, <3>2, SameTypes DEF disk
  <2> QED
    BY <1>6, <2>2, <2>3, <2>4 DEF AssetTellDone
<1>7. ASSUME NEW s \in Slot, AssetTransferEnds(s) PROVE DiskType' /\ WorkType'
  <2> SUFFICES ASSUME NEW a, a = wanted[s] PROVE DiskType' /\ WorkType'
    OBVIOUS
  <2>1. WorkType' /\ zip' = zip
    BY <1>0, <1>7, SameTypes DEF AssetTransferEnds
  <2>2. tmp' = tmp \/ \E c \in {"whole", "bad"} : tmp' = [tmp EXCEPT ![a] = c]
    BY <1>7 DEF AssetTransferEnds
  <2>3. CASE tmp' = tmp
    BY <1>0, <1>c, <2>1, <2>3, SameTypes DEF disk
  <2>4. ASSUME NEW c \in {"whole", "bad"}, tmp' = [tmp EXCEPT ![a] = c] PROVE DiskType'
    <3>1. c \in Content
      BY DEF Content
    <3> QED
      BY <1>2, <2>1, <2>4, <3>1
  <2> QED
    BY <2>1, <2>2, <2>3, <2>4
<1> QED
  BY <1>1, <1>4, <1>5, <1>6, <1>7 DEF NetThread

\* ... of the worker ...
LEMMA WorkerType == AssetInv /\ Worker => ClientType' /\ DiskType' /\ WorkType'
<1> SUFFICES ASSUME AssetInv, Worker PROVE ClientType' /\ DiskType' /\ WorkType'
  OBVIOUS
<1>0. AssetTypeOK /\ ClientType /\ DiskType /\ WorkType
  BY AssetTypes DEF AssetInv
<1>1. ClientType'
  <2>1. UNCHANGED <<clientVars, wanted>>
    BY DEF Worker, UnpackStart, UnpackOk, MarkInstalled, RemoveZip, PostUnpacked, UnpackFails,
           PostUnpackFailed
  <2> QED
    BY <1>0, <2>1, SameTypes
<1>a. job.step # "none" => job.asset \in Asset
  BY <1>0 DEF WorkType, UnpackJob, AssetInv, WorkInv, WorkApart
<1>j. ASSUME NEW st \in {"none", "unpack", "mark", "removeZip", "post", "postFailed"}
      PROVE  [job EXCEPT !.step = st] \in UnpackJob
  BY <1>0 DEF WorkType, UnpackJob
<1>2. CASE UnpackStart
  <2>1. /\ jobs # <<>> /\ jobs' = Tail(jobs) /\ job' = [asset |-> Head(jobs), step |-> "unpack"]
        /\ target' = [target EXCEPT ![Head(jobs)] = FALSE] /\ UNCHANGED <<tmp, zip, marker, events>>
    BY <1>2 DEF UnpackStart
  <2>2. jobs' \in Seq(Asset) /\ Head(jobs) \in Asset
    BY <1>0, <2>1, TailFacts DEF WorkType
  <2>3. job' \in UnpackJob
    BY <2>1, <2>2 DEF UnpackJob
  <2>4. target' \in [Asset -> BOOLEAN]
    BY <1>0, <2>1 DEF DiskType
  <2> QED
    BY <1>0, <1>1, <2>1, <2>2, <2>3, <2>4 DEF WorkType, DiskType
<1>3. CASE UnpackOk
  <2>1. /\ job' = [job EXCEPT !.step = "mark"] /\ target' = [target EXCEPT ![job.asset] = TRUE]
        /\ UNCHANGED <<tmp, zip, marker, events, jobs>>
    BY <1>3 DEF UnpackOk, Step
  <2>2. target' \in [Asset -> BOOLEAN]
    BY <1>0, <2>1 DEF DiskType
  <2> QED
    BY <1>0, <1>1, <1>j, <2>1, <2>2 DEF WorkType, DiskType
<1>4. CASE MarkInstalled
  <2>1. /\ job' = [job EXCEPT !.step = "removeZip"]
        /\ marker' \in {[marker EXCEPT ![job.asset] = TRUE], marker}
        /\ UNCHANGED <<tmp, zip, target, events, jobs>>
    BY <1>4 DEF MarkInstalled, Step
  <2>2. marker' \in [Asset -> BOOLEAN]
    BY <1>0, <2>1 DEF DiskType
  <2> QED
    BY <1>0, <1>1, <1>j, <2>1, <2>2 DEF WorkType, DiskType
<1>5. CASE RemoveZip
  <2>1. /\ job' = [job EXCEPT !.step = "post"] /\ zip' = [zip EXCEPT ![job.asset] = "none"]
        /\ UNCHANGED <<tmp, marker, target, events, jobs>> /\ "none" \in Content
    BY <1>5 DEF RemoveZip, Step, Content
  <2>2. zip' \in [Asset -> Content]
    BY <1>0, <2>1 DEF DiskType
  <2> QED
    BY <1>0, <1>1, <1>j, <2>1, <2>2 DEF WorkType, DiskType
<1>6. CASE UnpackFails
  <2>1. job' = [job EXCEPT !.step = "postFailed"] /\ Clean(job.asset, 4)
        /\ UNCHANGED <<events, jobs>>
    BY <1>6 DEF UnpackFails, Step
  <2>2. DiskType'
    BY <1>0, <2>1, CleanType
  <2> QED
    BY <1>0, <1>1, <1>j, <2>1, <2>2 DEF WorkType
<1>7. CASE PostUnpacked \/ PostUnpackFailed
  <2>1. /\ job.step # "none" /\ job' = NoJob /\ UNCHANGED <<disk, jobs>>
        /\ \E k \in {"unpacked", "unpackFailed"} : Post(k, job.asset)
    BY <1>7 DEF PostUnpacked, PostUnpackFailed
  <2>2. {"unpacked", "unpackFailed"} \subseteq Kinds
    BY DEF Kinds, Final
  <2>3. events' \in Seq(News)
    <3> SUFFICES ASSUME NEW a, a = job.asset PROVE events' \in Seq(News)
      OBVIOUS
    <3> QED
      BY <1>0, <1>a, <2>1, <2>2, PostType DEF WorkType
  <2> QED
    BY <1>0, <1>1, <2>1, <2>3, SameTypes, CallTypes DEF WorkType
<1> QED
  BY <1>2, <1>3, <1>4, <1>5, <1>6, <1>7 DEF Worker

\* ... and of a restart.
LEMMA RestartType == AssetInv /\ Restart => ClientType' /\ DiskType' /\ WorkType'
<1> SUFFICES ASSUME AssetInv, Restart PROVE ClientType' /\ DiskType' /\ WorkType'
  OBVIOUS
<1>0. AssetTypeOK /\ ClientType /\ DiskType
  BY AssetTypes DEF AssetInv
<1>1. /\ todo' = {} /\ advancing' = FALSE /\ call' = NoCall /\ rows' = <<>>
      /\ wasUpdating' = FALSE /\ events' = <<>> /\ jobs' = <<>> /\ job' = NoJob
      /\ UNCHANGED phase /\ wanted' = [s \in Slot |-> NoAsset]
  BY DEF Restart
<1>2. ClientType'
  BY <1>0, <1>1, CallTypes, EmptyFacts DEF ClientType
<1>3. WorkType'
  BY <1>1, CallTypes, EmptyFacts DEF WorkType
<1>4. DiskType'
  <2>1. CASE UNCHANGED disk
    BY <1>0, <2>1, SameTypes
  <2>2. ASSUME NEW a \in Asset, NEW k \in 1 .. 3, Clean(a, k) PROVE DiskType'
    BY <1>0, <2>2, CleanType
  <2> QED
    BY <2>1, <2>2 DEF Restart
<1> QED
  BY <1>2, <1>3, <1>4

-----------------------------------------------------------------------------
(* The invariant.                                                          *)

\* The invariant holds at the start ...
LEMMA AssetInvAtStart == AssetInit => AssetInv
<1> SUFFICES ASSUME AssetInit PROVE AssetInv
  OBVIOUS
<1>1. PoolInv
  BY PoolAtStart DEF AssetInit
<1>2. WorkInv
  <2>1. \A a \in Asset : marker[a] => target[a]
    BY DEF AssetInit
  <2> QED
    BY <2>1, WorkAtStart DEF AssetInit, AtStart
<1>3. ClientType
  BY CallTypes, EmptyFacts DEF AssetInit, ClientType
<1>4. DiskType
  <2>1. tmp \in [Asset -> Content] /\ zip \in [Asset -> Content]
    BY DEF AssetInit, Content
  <2>2. marker \in [Asset -> BOOLEAN] /\ target \in [Asset -> BOOLEAN]
    BY DEF AssetInit
  <2> QED
    BY <2>1, <2>2 DEF DiskType
<1>5. WorkType
  BY CallTypes, EmptyFacts DEF AssetInit, WorkType
<1> QED
  BY <1>1, <1>2, <1>3, <1>4, <1>5, AssetTypes DEF AssetInv, PoolInv

\* ... each step keeps it ...
LEMMA AssetInvStep ==
  ASSUME WorkerKeepsUp, AssetInv, [AssetNext]_allVars
  PROVE  AssetInv'
<1>1. PoolInv'
  BY PoolStays DEF AssetInv
<1>2. WorkInv'
  BY WorkStep
<1>3. ClientType' /\ DiskType' /\ WorkType'
  <2>1. CASE UNCHANGED allVars
    BY <2>1, SameTypes DEF AssetInv, allVars, assetVars
  <2> QED
    BY <2>1, MainType, NetType, WorkerType, RestartType DEF AssetNext, AliveNext
<1> QED
  BY <1>1, <1>2, <1>3, AssetTypes DEF AssetInv, AssetTypeOK, PoolInv, ClientType, DiskType, WorkType

\* ... so it always holds.
LEMMA AssetInvHolds == WorkerKeepsUp => (AssetSpec => []AssetInv)
<1> SUFFICES ASSUME WorkerKeepsUp PROVE AssetSpec => []AssetInv
  OBVIOUS
<1>1. AssetInv /\ [AssetNext]_allVars => AssetInv'
  BY AssetInvStep
<1> QED
  BY <1>1, AssetInvAtStart, PTL DEF AssetSpec

-----------------------------------------------------------------------------
(* The theorems.                                                           *)

\* Rows, requests, news and jobs only ever name slots, ids and assets that exist.
THEOREM AssetTypeCorrect == WorkerKeepsUp => (AssetSpec => []AssetTypeOK)
<1> SUFFICES ASSUME WorkerKeepsUp PROVE AssetSpec => []AssetTypeOK
  OBVIOUS
<1>1. AssetInv => AssetTypeOK
  BY DEF AssetInv
<1> QED
  BY <1>1, AssetInvHolds, PTL

\* Whatever crash, retry or update came before, an asset with its .installed
\* marker is completely unpacked: screens open what has a marker.
THEOREM InstallIsComplete == WorkerKeepsUp => (AssetSpec => []InstalledIsComplete)
<1> SUFFICES ASSUME WorkerKeepsUp PROVE AssetSpec => []InstalledIsComplete
  OBVIOUS
<1>1. AssetInv => InstalledIsComplete
  BY DEF AssetInv, WorkInv, Marked, InstalledIsComplete
<1> QED
  BY <1>1, AssetInvHolds, PTL

\* Whoever is busy with an asset has not reported it.
LEMMA BusyIsDue == ASSUME NEW a \in Asset, Busy(a) PROVE Due(a)
  BY DEF Busy, Due, Working, AtWork

\* The rows are numbered from 1.
LEMMA RowsInRange == AssetInv => DOMAIN rows = 1 .. Len(rows)
  BY LenProperties DEF AssetInv, AssetTypeOK

\* A row that offers a retry is quiet: the clean_asset of download_retry removes
\* no file under a transfer or an unpack job of its asset.
THEOREM RetryIsSafe == WorkerKeepsUp => (AssetSpec => []FailedRowIsQuiet)
<1> SUFFICES ASSUME WorkerKeepsUp PROVE AssetSpec => []FailedRowIsQuiet
  OBVIOUS
<1>1. AssetInv => FailedRowIsQuiet
  <2> SUFFICES ASSUME AssetInv, NEW i \in 1 .. Len(rows), i # call.row,
                      rows[i].status = "FINISHED_ERROR"
               PROVE  ~Busy(rows[i].asset)
    BY RowsInRange DEF FailedRowIsQuiet
  <2> SUFFICES ASSUME NEW a, a = rows[i].asset PROVE ~Busy(a)
    OBVIOUS
  <2> QED
    BY QuietRows, BusyIsDue
<1> QED
  BY <1>1, AssetInvHolds, PTL

\* A row that says FINISHED_OK belongs to an asset that is unpacked still, and
\* that has its marker when files can be written. (mark_installed does not look
\* whether its touch succeeds: no more than this follows from the row.)
THEOREM OkMeansUnpacked == WorkerKeepsUp => (AssetSpec => []OkRowIsUnpacked)
<1> SUFFICES ASSUME WorkerKeepsUp PROVE AssetSpec => []OkRowIsUnpacked
  OBVIOUS
<1>1. AssetInv => OkRowIsUnpacked
  BY RowsInRange DEF AssetInv, WorkInv, Reported, Unpacked, OkRowIsUnpacked
<1> QED
  BY <1>1, AssetInvHolds, PTL

\* init_runtime_data, which opens what is installed, never runs while an asset is
\* being downloaded or unpacked.
THEOREM ReinitIsSafe == WorkerKeepsUp => (AssetSpec => ReinitWhenQuiet)
<1> SUFFICES ASSUME WorkerKeepsUp PROVE AssetSpec => ReinitWhenQuiet
  OBVIOUS
<1>1. AssetInv => [ReinitRuntime => \A a \in Asset : ~Busy(a)]_allVars
  <2> SUFFICES ASSUME AssetInv, ReinitRuntime, NEW a \in Asset PROVE ~Busy(a)
    OBVIOUS
  <2>1. FrameIdle /\ rows = <<>> /\ ~Dropped
    BY DEF ReinitRuntime, Dropped
  <2> QED
    BY <2>1, NoRowsShow, NothingDue, BusyIsDue
<1> QED
  BY <1>1, AssetInvHolds, PTL DEF ReinitWhenQuiet

-----------------------------------------------------------------------------
(* The thread tracks every transfer.                                       *)

\* As the thread tracks one transfer at least for each asset, it always tracks
\* those that run.
TrackedInv == active = {s \in Slot : xfer[s] # "idle"}

\* When one more transfer starts, there is room for it.
LEMMA RoomToTrack ==
  ASSUME IsFiniteSet(Asset), Cardinality(Asset) <= MaxActive,
         AssetInv, TrackedInv, StartTransfer
  PROVE  Cardinality(active) < MaxActive
<1> SUFFICES ASSUME NEW t, t = Top(pending) PROVE Cardinality(active) < MaxActive
  OBVIOUS
<1>1. netPc = "start" /\ pending # <<>>
  BY DEF StartTransfer
<1>2. PoolInv /\ pending \in Seq(Slot) /\ cur = None
  BY <1>1 DEF AssetInv, PoolInv, TypeOK, AboutToRelease
<1>3. t \in Slot /\ t \in Elements(pending)
  BY <1>1, <1>2, PopFacts
<1>4. t \notin active
  BY <1>2, <1>3 DEF PoolInv, Ownership, TrackedInv
<1>5. active \cup {t} \subseteq AtWork
  BY <1>2, <1>3, SlotFacts DEF AtWork, TrackedInv
<1> DEFINE S == active \cup {t}
           f == [s \in S |-> wanted[s]]
<1>6. f \in [S -> Asset] /\ \A x, y \in S : f[x] = f[y] => x = y
  BY <1>5 DEF AssetInv, WorkInv, WorkApart
<1>7. IsFiniteSet(Slot)
  BY SlotFacts, FS_Interval DEF Slot
<1>8. IsFiniteSet(active)
  <2>1. active \subseteq Slot
    BY DEF TrackedInv
  <2> QED
    BY <1>7, <2>1, FS_Subset
<1>9. IsFiniteSet(S) /\ Cardinality(S) = Cardinality(active) + 1
  BY <1>4, <1>8, FS_AddElement
<1> HIDE DEF S, f
<1>10. ~(Cardinality(Asset) < Cardinality(S))
  BY <1>6, <1>9, FS_PigeonHole
<1>11. Cardinality(active) \in Nat /\ Cardinality(Asset) \in Nat /\ MaxActive \in Nat
  BY <1>8, FS_CardinalityType, PoolAssumption
<1> QED
  BY <1>9, <1>10, <1>11

\* So every transfer is tracked, in every step.
LEMMA TrackedStep ==
  ASSUME IsFiniteSet(Asset), Cardinality(Asset) <= MaxActive,
         AssetInv, TrackedInv, [AssetNext]_allVars
  PROVE  TrackedInv'
<1> USE DEF TrackedInv
<1>0. PoolInv /\ xfer \in [Slot -> Xfer] /\ pending \in Seq(Slot)
  BY DEF AssetInv, PoolInv, TypeOK
<1>1. CASE UNCHANGED <<active, xfer>>
  BY <1>1
<1>2. CASE StartTransfer
  <2> SUFFICES ASSUME NEW t, t = Top(pending) PROVE TrackedInv'
    OBVIOUS
  <2>1. active' = active \cup {t} /\ xfer' = [xfer EXCEPT ![t] = "running"] /\ t \in Slot
    BY <1>0, <1>2, RoomToTrack, PopFacts DEF StartTransfer
  <2> QED
    BY <1>0, <2>1
<1>3. CASE Perform
  <2>1. active' = active \ ToCancel
        /\ xfer' = [s \in Slot |-> IF s \in ToCancel THEN "idle" ELSE xfer[s]]
    BY <1>3 DEF Perform
  <2> QED
    BY <2>1
<1>4. CASE DoneRelease
  <2>1. active' = active \ {cur} /\ xfer' = [xfer EXCEPT ![cur] = "idle"]
    BY <1>4 DEF DoneRelease
  <2> QED
    BY <1>0, <2>1
<1>5. ASSUME NEW s \in Slot, TransferEnds(s) PROVE TrackedInv'
  <2>1. xfer[s] = "running" /\ active' = active
        /\ \E r \in {"ok", "error"} : xfer' = [xfer EXCEPT ![s] = r]
    BY <1>5 DEF TransferEnds, netVars
  <2> QED
    BY <1>0, <2>1
<1>6. CASE Reset
  BY <1>6 DEF Reset
<1>7. CASE Next \/ BeginDownload
  <2>1. CASE MainStep \/ BeginDownload
    BY <1>1, <2>1 DEF MainStep, BeginDownload, ProbeSlot, Push, Cancel, netVars
  <2>2. CASE Relock \/ DrainOne \/ DrainEnd \/ StartFails \/ StartFailsRelease \/ EndOfLoop
             \/ OpenFails \/ Wake \/ \E s \in Slot : TellDone(s)
    BY <1>1, <2>2 DEF Relock, DrainOne, DrainEnd, StartFails, StartFailsRelease, EndOfLoop, OpenFails,
       Wake, TellDone
  <2> QED
    BY <1>2, <1>3, <1>4, <1>5, <1>7, <2>1, <2>2 DEF Next, NetThreadStep
<1>8. CASE UNCHANGED vars
  BY <1>1, <1>8 DEF vars, netVars
<1> QED
  BY <1>6, <1>7, <1>8, PoolSteps DEF allVars

\* There is one row and one transfer per asset, and the thread tracks every
\* transfer, when it tracks at least as many as there are assets.
THEOREM EachAssetOnce ==
  WorkerKeepsUp /\ IsFiniteSet(Asset) /\ Cardinality(Asset) <= MaxActive
    => (AssetSpec => []OneDownloadPerAsset)
<1> SUFFICES ASSUME WorkerKeepsUp, IsFiniteSet(Asset), Cardinality(Asset) <= MaxActive
             PROVE  AssetSpec => []OneDownloadPerAsset
  OBVIOUS
<1>1. AssetInit => TrackedInv
  BY DEF AssetInit, Init, TrackedInv
<1>2. AssetInv /\ TrackedInv /\ [AssetNext]_allVars => TrackedInv'
  BY TrackedStep
<1>3. AssetInv /\ TrackedInv => OneDownloadPerAsset
  <2> SUFFICES ASSUME AssetInv, TrackedInv PROVE OneDownloadPerAsset
    OBVIOUS
  <2>1. \A i, j \in DOMAIN rows : rows[i].asset = rows[j].asset => i = j
    BY RowsInRange DEF AssetInv, WorkInv, RowPerAsset
  <2>2. \A s, t \in {u \in Slot : xfer[u] # "idle" /\ cur # u} : wanted[s] = wanted[t] => s = t
    BY DEF AssetInv, WorkInv, WorkApart, AtWork
  <2>3. \A s \in Slot : xfer[s] # "idle" => s \in active
    BY DEF TrackedInv
  <2> QED
    BY <2>1, <2>2, <2>3 DEF OneDownloadPerAsset
<1> QED
  BY <1>1, <1>2, <1>3, AssetInvHolds, PTL DEF AssetSpec
=============================================================================
