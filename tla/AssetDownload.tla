--------------------------- MODULE AssetDownload ---------------------------
(***************************************************************************)
(* How klappt installs a downloadable asset (a dictionary or a speech      *)
(* model): a screen of the main thread requests the archive and keeps a    *)
(* row of ctx->downloads for it, the NetWorkerThread downloads             *)
(* <zip>.tmp and renames it to <zip>, the generic worker unpacks it,       *)
(* writes the .installed marker and removes the archive, and both threads  *)
(* report to the row through callbacks that the main thread runs (MT).     *)
(* The process may be killed between any two steps and starts again with   *)
(* what is on disk.                                                        *)
(*                                                                         *)
(* The network side is module NetWorker; its actions are joined here with  *)
(* what on_asset_zip_downloaded does on that thread.                       *)
(***************************************************************************)
EXTENDS NetWorker

CONSTANTS
  Asset,           \* the assets the settings select: dictionary, TTS, ASR
  NoAsset,
  Dict,            \* the dictionary among them; the others are optional
  FilesMayFail,    \* whether fopen of the .tmp, its rename and the touch of
                   \* the marker may fail
  WorkerKeepsUp    \* whether the worker reports a job before a user who saw
                   \* its marker has found and pressed an update button

ASSUME AssetAssumption ==
  /\ NoAsset \notin Asset /\ Dict \in Asset
  /\ FilesMayFail \in BOOLEAN /\ WorkerKeepsUp \in BOOLEAN

VARIABLES
  phase,        \* onboarding_stage, its steps without downloads left out;
                \* "main" when it is over (UpdateDicts)
  todo,         \* assets this frame of the onboarding step still requests
  advancing,    \* this frame ends with onboarding_advance
  call,         \* main inside net_download_and_unpack_asset: asset, row, slot
  rows,         \* ctx->downloads
  wasUpdating,  \* was_updating of screen_update_dicts.cpp
  wanted,       \* the asset behind each pool slot (req.file_name)
  tmp, zip,     \* the archive under its .tmp and its final name
  marker,       \* the .installed file
  target,       \* whether the unpacked asset is there and complete
  events,       \* MT callbacks on their way to the main thread
  jobs,         \* unpack jobs in worker_job_queue
  job           \* the unpack job the worker runs, with its next step

disk       == <<tmp, zip, marker, target>>
clientVars == <<phase, todo, advancing, call, rows, wasUpdating>>
workVars   == <<events, jobs, job>>
assetVars  == <<clientVars, wanted, disk, workVars>>
allVars    == <<vars, assetVars>>

\* What a file holds: nothing, a prefix of the archive, the whole archive, or
\* bytes of something else (an HTTP error page, a prefix followed by one).
Content == {"none", "part", "whole", "bad"}

NoCall == [asset |-> NoAsset, row |-> 0, slot |-> None]
NoJob  == [asset |-> NoAsset, step |-> "none"]

RowStatus == {"TRACKING", "UNPACKING", "FINISHED_OK", "FINISHED_ERROR"}

\* The steps of onboarding that start downloads, in their order.
NextPhase == [dict |-> "optional", optional |-> "download", download |-> "main"]

AssetInit ==
  /\ Init
  /\ todo = {} /\ advancing = FALSE /\ call = NoCall /\ rows = <<>>
  /\ wasUpdating = FALSE
  /\ wanted = [s \in Slot |-> NoAsset]
  /\ events = <<>> /\ jobs = <<>> /\ job = NoJob
  /\ phase = "dict"
  /\ tmp = [a \in Asset |-> "none"]
  /\ zip = [a \in Asset |-> "none"]
  /\ marker = [a \in Asset |-> FALSE]
  /\ target = [a \in Asset |-> FALSE]

-----------------------------------------------------------------------------
(* Files.                                                                    *)

\* clean_asset removes four things in this order; k of them when the process
\* dies on the way. A removal that fails is left out.
CleanMarkerLast(a, k) ==                                     \* mutant of Clean
  /\ tmp' = IF k > 0 THEN [tmp EXCEPT ![a] = "none"] ELSE tmp
  /\ zip' = IF k > 1 THEN [zip EXCEPT ![a] = "none"] ELSE zip
  /\ target' = IF k > 2 THEN [target EXCEPT ![a] = FALSE] ELSE target
  /\ marker' = IF k > 3 THEN [marker EXCEPT ![a] = FALSE] ELSE marker

Clean(a, k) ==
  /\ tmp' = IF k > 0 THEN [tmp EXCEPT ![a] = "none"] ELSE tmp
  /\ zip' = IF k > 1 THEN [zip EXCEPT ![a] = "none"] ELSE zip
  /\ marker' = IF k > 2 THEN [marker EXCEPT ![a] = FALSE] ELSE marker
  /\ target' = IF k > 3 THEN [target EXCEPT ![a] = FALSE] ELSE target

-----------------------------------------------------------------------------
(* The main thread.                                                          *)

FrameIdle == MainIdle /\ call = NoCall /\ todo = {} /\ ~advancing

Missing == {a \in Asset : ~marker[a]}

\* Bound: a frame requests what request ids are left for.
IdsLeft(assets) == nextId + Cardinality(assets) <= MaxId + 1

\* The download button of the dictionary's step, and the continue button of
\* the optional assets' step: what is missing is requested, then onboarding
\* advances.
StepPressed(step, which) ==
  /\ phase = step /\ FrameIdle /\ IdsLeft(Missing \cap which)
  /\ todo' = Missing \cap which
  /\ advancing' = TRUE
  /\ UNCHANGED <<vars, phase, call, rows, wasUpdating, wanted, disk, workVars>>

DictPressed     == StepPressed("dict", {Dict})
OptionalPressed == StepPressed("optional", Asset \ {Dict})

\* Mutant of DownloadFrame: it does not look whether there are rows.
DownloadEveryFrame ==
  /\ phase = "download" /\ FrameIdle
  /\ Missing # {} /\ IdsLeft(Missing)
  /\ todo' = Missing
  /\ UNCHANGED <<vars, phase, advancing, call, rows, wasUpdating, wanted, disk, workVars>>

\* step_draw_downloading_and_setup: with no rows at all, every missing asset is
\* requested.
DownloadFrame ==
  /\ phase = "download" /\ FrameIdle
  /\ rows = <<>> /\ Missing # {} /\ IdsLeft(Missing)
  /\ todo' = Missing
  /\ UNCHANGED <<vars, phase, advancing, call, rows, wasUpdating, wanted, disk, workVars>>

\* onboarding_advance: the stage is saved to disk.
Advance ==
  /\ MainIdle /\ call = NoCall /\ todo = {} /\ advancing
  /\ phase' = NextPhase[phase]
  /\ advancing' = FALSE
  /\ UNCHANGED <<vars, todo, call, rows, wasUpdating, wanted, disk, workVars>>

\* net_download_and_unpack_asset for asset a; r is the row being retried, or 0.
Request(a, r) ==
  /\ BeginDownload
  /\ call' = [asset |-> a, row |-> r, slot |-> None]

RequestMissing(a) ==
  /\ call = NoCall /\ a \in todo
  /\ Request(a, 0)
  /\ todo' = todo \ {a}
  /\ UNCHANGED <<phase, advancing, rows, wasUpdating, wanted, disk, workVars>>

\* The search for a slot, and the request's file name once it is found.
SearchSlot ==
  /\ ProbeSlot
  /\ IF claimed' # None
     THEN /\ wanted' = [wanted EXCEPT ![claimed'] = call.asset]
          /\ call' = [call EXCEPT !.slot = claimed']
     ELSE UNCHANGED <<wanted, call>>
  /\ UNCHANGED <<phase, todo, advancing, rows, wasUpdating, disk, workVars>>

PushRequest == Push /\ UNCHANGED assetVars

\* download_track appends a row, unless one has this id already;
\* download_update_tracking points the retried row to the new request.
ClearedRow == [asset |-> call.asset, status |-> "TRACKING",  \* mutant of TrackedRow
               slot |-> None, id |-> None]
TrackedRow == [asset |-> call.asset, status |-> "TRACKING",
               slot |-> call.slot, id |-> reqId[call.slot]]

Track ==
  /\ MainIdle /\ call.slot # None
  /\ rows' = IF call.row # 0 THEN [rows EXCEPT ![call.row] = TrackedRow]
             ELSE IF \E i \in DOMAIN rows : rows[i].id = reqId[call.slot] THEN rows
             ELSE Append(rows, TrackedRow)
  /\ wasUpdating' = (wasUpdating \/ (phase = "main" /\ call.row = 0))
  /\ call' = NoCall
  /\ UNCHANGED <<vars, phase, todo, advancing, wanted, disk, workVars>>

\* find_download_for_asset: the first row of asset a, 0 when there is none.
RowOf(a) == LET hits == {i \in DOMAIN rows : rows[i].asset = a}
            IN  IF hits = {} THEN 0 ELSE CHOOSE i \in hits : \A j \in hits : i <= j

\* The status each MT callback gives to its asset's row.
OkOnceDownloaded ==                                    \* mutant of StatusAfter
  [unpacking |-> "FINISHED_OK", downloadFailed |-> "FINISHED_ERROR",
   unpacked |-> "FINISHED_OK", unpackFailed |-> "FINISHED_ERROR"]
StatusAfter == [unpacking |-> "UNPACKING", downloadFailed |-> "FINISHED_ERROR",
                unpacked |-> "FINISHED_OK", unpackFailed |-> "FINISHED_ERROR"]

\* The main thread runs the oldest MT callback.
HandleEvent ==
  /\ FrameIdle /\ events # <<>>
  /\ LET e == Head(events)
         i == RowOf(e.asset)
     IN  rows' = IF i = 0 THEN rows ELSE [rows EXCEPT ![i].status = StatusAfter[e.kind]]
  /\ events' = Tail(events)
  /\ UNCHANGED <<vars, phase, todo, advancing, call, wasUpdating, wanted, disk, jobs, job>>

\* When the row's retry button is there (no screen makes a row cancelable).
RetryAnyRow(i) == rows[i].status # "FINISHED_OK"        \* mutant of MayRetry
MayRetry(i) == rows[i].status = "FINISHED_ERROR"

\* download_retry: the asset's files are removed and it is requested again.
Retry(i) ==
  /\ FrameIdle /\ MayRetry(i)
  /\ Clean(rows[i].asset, 4)
  /\ Request(rows[i].asset, i)
  /\ UNCHANGED <<phase, todo, advancing, rows, wasUpdating, wanted, workVars>>

\* trigger_asset_download_or_update, shown while there are no downloads and
\* init_runtime_data is not due.
Update(a) ==
  /\ phase = "main" /\ FrameIdle
  /\ rows = <<>> /\ ~wasUpdating
  /\ WorkerKeepsUp => job = NoJob /\ events = <<>>
  /\ Clean(a, 4)
  /\ Request(a, 0)
  /\ UNCHANGED <<phase, todo, advancing, rows, wasUpdating, wanted, workVars>>

\* are_all_selected_assets_fully_unpacked: onboarding goes on, its rows go.
OnboardingDone ==
  /\ phase = "download" /\ FrameIdle
  /\ Missing = {}
  /\ rows' = <<>>
  /\ advancing' = TRUE
  /\ UNCHANGED <<vars, phase, todo, call, wasUpdating, wanted, disk, workVars>>

\* screen_update_dicts_draw drops the rows once each is FINISHED_OK ...
AnyRowDone == \E i \in DOMAIN rows : rows[i].status \in {"UNPACKING", "FINISHED_OK"}  \* mutant of AllRowsDone
AllRowsDone == \A i \in DOMAIN rows : rows[i].status = "FINISHED_OK"

UpdateCompleted ==
  /\ phase = "main" /\ FrameIdle
  /\ rows # <<>> /\ AllRowsDone
  /\ rows' = <<>>
  /\ UNCHANGED <<vars, phase, todo, advancing, call, wasUpdating, wanted, disk, workVars>>

\* ... and its next frame runs init_runtime_data on what is installed.
ReinitRuntime ==
  /\ phase = "main" /\ FrameIdle
  /\ rows = <<>> /\ wasUpdating
  /\ wasUpdating' = FALSE
  /\ UNCHANGED <<vars, phase, todo, advancing, call, rows, wanted, disk, workVars>>

-----------------------------------------------------------------------------
(* The NetWorkerThread, with on_asset_zip_downloaded as its callback.        *)

Event(k, a) == [kind |-> k, asset |-> a]
Post(k, a)  == events' = Append(events, Event(k, a))

\* Opening the .tmp creates it, or keeps what an earlier download left.
Opened(a) == tmp' = [tmp EXCEPT ![a] = IF @ = "none" THEN "part" ELSE @]

AssetOpenFails ==
  /\ FilesMayFail /\ OpenFails
  /\ UNCHANGED assetVars

AssetStartTransfer ==
  /\ StartTransfer
  /\ Opened(wanted[Top(pending)])
  /\ UNCHANGED <<clientVars, wanted, zip, marker, target, workVars>>

AssetStartFails ==
  /\ StartFails
  /\ Opened(wanted[Top(pending)])
  /\ Post("downloadFailed", wanted[Top(pending)])
  /\ UNCHANGED <<clientVars, wanted, zip, marker, target, jobs, job>>

\* Success: the archive gets its final name, the row is to show UNPACKING and
\* the worker is given the unpack job. If the rename fails nobody is told.
ArchiveReady(a) ==
  /\ zip' = [zip EXCEPT ![a] = tmp[a]]
  /\ tmp' = [tmp EXCEPT ![a] = "none"]
  /\ Post("unpacking", a)
  /\ jobs' = Append(jobs, a)

AssetTellDone(s) ==
  /\ TellDone(s)
  /\ \/ DoneStatus(s) = "FINISHED" /\ ArchiveReady(wanted[s])
     \/ /\ DoneStatus(s) = "FINISHED" /\ FilesMayFail
        /\ UNCHANGED <<tmp, zip, events, jobs>>
     \/ /\ DoneStatus(s) # "FINISHED"
        /\ Post("downloadFailed", wanted[s])
        /\ UNCHANGED <<tmp, zip, jobs>>
  /\ UNCHANGED <<clientVars, wanted, marker, target, job>>

\* The other steps of the thread touch nothing of the client's.
NetThreadOther ==
  /\ \/ Relock \/ DrainOne \/ DrainEnd \/ StartFailsRelease
     \/ Perform \/ DoneRelease \/ EndOfLoop
  /\ UNCHANGED assetVars

\* The network ends a transfer (external). A resumed download appends to what
\* the .tmp holds, which may be of an older archive; an HTTP error page lands in
\* the .tmp as well.
AssetTransferEnds(s) ==
  /\ TransferEnds(s)
  /\ LET a == wanted[s] IN
       IF xfer'[s] = "ok"
       THEN /\ tmp[a] # "whole"          \* the range past the end is refused
            /\ \E c \in {"whole", "bad"} :
                 tmp' = [tmp EXCEPT ![a] = IF @ = "part" THEN c ELSE "bad"]
       ELSE \/ UNCHANGED tmp
            \/ tmp' = [tmp EXCEPT ![a] = "bad"]
  /\ UNCHANGED <<clientVars, wanted, zip, marker, target, workVars>>

\* The download screens signal the condition variable in every frame.
AssetWake == Wake /\ UNCHANGED assetVars

-----------------------------------------------------------------------------
(* The generic worker: job_asset_unpack, one step at a time.                 *)

UnpackStart ==
  /\ job = NoJob /\ jobs # <<>>
  /\ job' = [asset |-> Head(jobs), step |-> "unpack"]
  /\ jobs' = Tail(jobs)
  /\ target' = [target EXCEPT ![Head(jobs)] = FALSE]
  /\ UNCHANGED <<vars, clientVars, wanted, tmp, zip, marker, events>>

Step(from, to) ==
  /\ job.step = from
  /\ job' = [job EXCEPT !.step = to]

\* unpack_asset succeeds on a whole archive only.
UnpackOk ==
  /\ Step("unpack", "mark")
  /\ zip[job.asset] = "whole"
  /\ target' = [target EXCEPT ![job.asset] = TRUE]
  /\ UNCHANGED <<vars, clientVars, wanted, tmp, zip, marker, events, jobs>>

\* mark_installed. The job does not learn whether fs_touch made the marker.
MarkInstalled ==
  /\ Step("mark", "removeZip")
  /\ \/ marker' = [marker EXCEPT ![job.asset] = TRUE]
     \/ FilesMayFail /\ UNCHANGED marker
  /\ UNCHANGED <<vars, clientVars, wanted, tmp, zip, target, events, jobs>>

RemoveZip ==
  /\ Step("removeZip", "post")
  /\ zip' = [zip EXCEPT ![job.asset] = "none"]
  /\ UNCHANGED <<vars, clientVars, wanted, tmp, marker, target, events, jobs>>

PostUnpacked ==
  /\ job.step = "post"
  /\ Post("unpacked", job.asset)
  /\ job' = NoJob
  /\ UNCHANGED <<vars, clientVars, wanted, disk, jobs>>

\* It fails on any other archive, and on a full disk.
UnpackFails ==
  /\ Step("unpack", "postFailed")
  /\ Clean(job.asset, 4)
  /\ UNCHANGED <<vars, clientVars, wanted, events, jobs>>

FailSilently ==                                   \* mutant of PostUnpackFailed
  /\ job.step = "postFailed"
  /\ job' = NoJob
  /\ UNCHANGED <<vars, clientVars, wanted, disk, events, jobs>>

PostUnpackFailed ==
  /\ job.step = "postFailed"
  /\ Post("unpackFailed", job.asset)
  /\ job' = NoJob
  /\ UNCHANGED <<vars, clientVars, wanted, disk, jobs>>

-----------------------------------------------------------------------------
\* The process dies and starts again: everything but the disk (the onboarding
\* stage is saved there too) is as at the start. It may die inside the
\* clean_asset of a retry, of an update or of a failed unpack.
Restart ==
  /\ Reset
  /\ todo' = {} /\ advancing' = FALSE /\ call' = NoCall /\ rows' = <<>>
  /\ wasUpdating' = FALSE
  /\ wanted' = [s \in Slot |-> NoAsset]
  /\ events' = <<>> /\ jobs' = <<>> /\ job' = NoJob
  /\ UNCHANGED phase
  /\ \/ UNCHANGED disk
     \/ \E a \in Asset, k \in 1 .. 3 :
          /\ \/ job = [asset |-> a, step |-> "unpack"]
             \/ /\ FrameIdle
                /\ \/ \E i \in DOMAIN rows : MayRetry(i) /\ rows[i].asset = a
                   \/ phase = "main" /\ rows = <<>> /\ ~wasUpdating
          /\ Clean(a, k)

MainThread ==
  \/ DownloadFrame \/ Advance
  \/ \E a \in Asset : RequestMissing(a)
  \/ SearchSlot \/ PushRequest \/ Track
  \/ HandleEvent
  \/ OnboardingDone \/ UpdateCompleted \/ ReinitRuntime

User ==
  \/ DictPressed \/ OptionalPressed
  \/ \E i \in DOMAIN rows : Retry(i)
  \/ \E a \in Asset : Update(a)

NetThread ==
  \/ AssetStartTransfer \/ AssetStartFails
  \/ \E s \in Slot : AssetTellDone(s)
  \/ NetThreadOther

Worker ==
  \/ UnpackStart \/ UnpackOk \/ MarkInstalled \/ RemoveZip \/ PostUnpacked
  \/ UnpackFails \/ PostUnpackFailed

\* What happens while the process lives.
AliveNext ==
  \/ MainThread \/ User
  \/ NetThread \/ AssetOpenFails \/ AssetWake
  \/ \E s \in Slot : AssetTransferEnds(s)
  \/ Worker

AssetNext == AliveNext \/ Restart

AssetSpec == AssetInit /\ [][AssetNext]_allVars

\* Threads run until they block. The network owes nothing: no timeout is set, so
\* a transfer may stay on the wire for ever, while the others go on. Nor do users.
\* Push needs strong fairness: the mutex is taken in every loop.
AssetFairness ==
  /\ WF_allVars(MainThread)
  /\ SF_allVars(PushRequest)
  /\ WF_allVars(NetThread)
  /\ WF_allVars(Worker)

\* One life of the process.
AssetFairSpec == AssetInit /\ [][AliveNext]_allVars /\ AssetFairness

-----------------------------------------------------------------------------
(* Properties.                                                               *)

Row  == [asset : Asset, status : RowStatus, slot : Slot, id : Id]
Call == [asset : Asset \cup {NoAsset}, row : Nat, slot : Slot \cup {None}]
News == [kind : DOMAIN StatusAfter, asset : Asset]
UnpackJob == [asset : Asset \cup {NoAsset},
              step : {"none", "unpack", "mark", "removeZip", "post", "postFailed"}]

AssetTypeOK ==
  /\ TypeOK
  /\ phase \in {"dict", "optional", "download", "main"}
  /\ todo \subseteq Asset /\ advancing \in BOOLEAN
  /\ call \in Call
  /\ rows \in Seq(Row)
  /\ wasUpdating \in BOOLEAN
  /\ wanted \in [Slot -> Asset \cup {NoAsset}]
  /\ tmp \in [Asset -> Content] /\ zip \in [Asset -> Content]
  /\ marker \in [Asset -> BOOLEAN] /\ target \in [Asset -> BOOLEAN]
  /\ events \in Seq(News)
  /\ jobs \in Seq(Asset)
  /\ job \in UnpackJob

\* An asset with its .installed marker is completely unpacked, whatever crash,
\* retry or update came before: a screen that sees the marker may open it.
InstalledIsComplete == \A a \in Asset : marker[a] => target[a]

\* Some thread still works for asset a's current download; slot cur is only
\* about to be released.
Busy(a) ==
  \/ \E s \in Slot \ {cur} :
       /\ wanted[s] = a
       /\ s \in Elements(queue) \cup Elements(pending) \/ xfer[s] # "idle"
  \/ a \in Elements(jobs) \/ job.asset = a

\* A row that offers a retry is quiet: the retry's clean_asset never removes
\* files under a transfer or an unpack job of that asset.
FailedRowIsQuiet ==
  \A i \in DOMAIN rows \ {call.row} :
    rows[i].status = "FINISHED_ERROR" => ~Busy(rows[i].asset)

\* No more than one row, and one request at work, per asset; so the thread,
\* which tracks fewer transfers than the pool has slots, tracks all of them.
OneDownloadPerAsset ==
  /\ \A i, j \in DOMAIN rows : rows[i].asset = rows[j].asset => i = j
  /\ \A s, t \in {u \in Slot : xfer[u] # "idle" /\ cur # u} :
       wanted[s] = wanted[t] => s = t
  /\ \A s \in Slot : xfer[s] # "idle" => s \in active

\* A row that says FINISHED_OK belongs to an asset that is unpacked, and nothing
\* has removed or overwritten it since; unless the marker could not be written
\* (nobody is told of that), the asset is installed.
OkRowIsUnpacked ==
  \A i \in DOMAIN rows : rows[i].status = "FINISHED_OK" =>
    target[rows[i].asset] /\ (marker[rows[i].asset] \/ FilesMayFail)

\* init_runtime_data, which opens what is installed, never runs while an asset
\* is still being downloaded or unpacked.
ReinitWhenQuiet == [][ReinitRuntime => \A a \in Asset : ~Busy(a)]_allVars

\* What the download step says ("Downloading and setting up offline
\* dictionary"): the dictionary is installed, or it is being requested, or a
\* row of its own shows it.
DownloadStepGetsDict ==
  (phase = "download" /\ FrameIdle) =>
    marker[Dict] \/ rows = <<>> \/ RowOf(Dict) # 0

\* Some row of asset a shows no end yet; a transfer of a is on the wire.
Unsettled(a) == \E i \in DOMAIN rows :
                  rows[i].asset = a /\ rows[i].status \in {"TRACKING", "UNPACKING"}
OnTheWire(a) == \E s \in Slot : wanted[s] = a /\ xfer[s] = "running"

\* A row that says TRACKING or UNPACKING waits for nothing but the network: as
\* long as the process lives, whenever no transfer of its asset is on the wire, one
\* gets there or the row gets a final status. When files can be opened and renamed,
\* no error return, no failed unpacking and no stalled transfer of another asset
\* leaves it waiting.
RowSettles ==
  \A a \in Asset : Unsettled(a) ~> ~Unsettled(a) \/ OnTheWire(a)
=============================================================================
