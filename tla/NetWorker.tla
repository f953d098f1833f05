----------------------------- MODULE NetWorker -----------------------------
(***************************************************************************)
(* The native network worker of klappt (platform/net_worker.cpp and        *)
(* app/net_context.h): the main thread claims a slot of a fixed pool,      *)
(* fills it and queues its index; the NetWorkerThread drains the queue     *)
(* into a stack of pending requests, hands them to a libcurl multi handle, *)
(* tells the client how each transfer ended and gives the slot back.       *)
(*                                                                         *)
(* libcurl is external: xfer[s] is what the multi handle knows of slot s.  *)
(* Progress counters, URLs, TLS settings and the error texts are left out: *)
(* nothing the threads decide depends on them.                             *)
(***************************************************************************)
EXTENDS Integers, Sequences, FiniteSets

CONSTANTS
  PoolSize,     \* MAX_REQUESTS: slots of the pool
  MaxActive,    \* MAX_ACTIVE_REQUESTS: capacity of active_requests_indices
  Cancelable,   \* whether some screen passes is_cancelable to download_row
  MaxId         \* bound of the model: how many request ids are ever issued

ASSUME PoolAssumption ==
  /\ PoolSize  \in Nat \ {0}
  /\ MaxActive \in Nat \ {0}
  /\ Cancelable \in BOOLEAN
  /\ MaxId     \in Nat

Slot   == 0 .. PoolSize - 1
None   == -1            \* no slot; also the request_id of a cleared request
Id     == 1 .. MaxId
Status == {"FINISHED", "CANCELLED", "ERROR"}

\* The transfer of a slot as libcurl sees it: not added to the multi handle,
\* running, or ended with or without success.
Xfer == {"idle", "running", "ok", "error"}

VARIABLES
  used,         \* requests_pool[s].is_used
  nextFree,     \* maybe_next_free, modulo the size of the pool
  probes,       \* slots thread_safe_get_unused_slot may still try, 0 outside it
  claimed,      \* the slot main has claimed and not queued yet, or None
  overrun,      \* main went on with index -1: the code then uses pool[-1]
  reqId,        \* req.request_id of each slot
  nextId,       \* request_id_counter
  cancelFlag,   \* req.is_cancelled, set by the main thread
  intCancelled, \* int_data.is_cancelled, the net thread's own copy
  queue,        \* net_worker_job_queue.queue
  pending,      \* pending_requests, a stack: the last element is its top
  active,       \* active_requests_indices
  xfer,         \* the multi handle's transfers
  msgs,         \* slots with an unread CURLMSG_DONE message
  cur,          \* slot whose end was just told and that is about to be released
  netPc,        \* where the NetWorkerThread is in its loop
  outcome       \* what on_finished_func was told for each request id

mainVars == <<nextFree, probes, claimed, overrun, nextId>>
poolVars == <<used, reqId, cancelFlag>>
netVars  == <<pending, active, msgs, cur, netPc, outcome, intCancelled>>
vars     == <<mainVars, poolVars, netVars, queue, xfer>>

NetPc == {"drain", "asleep", "waking", "woken", "start", "startRelease",
          "done", "doneRelease"}

\* The NetWorkerThread holds the queue's mutex while it drains the queue.
MutexHeld == netPc \in {"drain", "woken"}

Elements(q) == {q[i] : i \in DOMAIN q}
Top(q)      == q[Len(q)]
PopNothing(q) == q                                            \* mutant of Pop
Pop(q)      == SubSeq(q, 1, Len(q) - 1)

Init ==
  /\ used = [s \in Slot |-> FALSE]
  /\ nextFree = 0 /\ probes = 0 /\ claimed = None /\ overrun = FALSE
  /\ reqId = [s \in Slot |-> None]
  /\ nextId = 1
  /\ cancelFlag = [s \in Slot |-> FALSE]
  /\ intCancelled = [s \in Slot |-> FALSE]
  /\ queue = <<>> /\ pending = <<>> /\ active = {}
  /\ xfer = [s \in Slot |-> "idle"]
  /\ msgs = {} /\ cur = None
  /\ netPc = "drain"
  /\ outcome = [i \in Id |-> "none"]

\* A new process starts over (for modules in which the process may die).
Reset ==
  /\ used' = [s \in Slot |-> FALSE]
  /\ nextFree' = 0 /\ probes' = 0 /\ claimed' = None /\ overrun' = FALSE
  /\ reqId' = [s \in Slot |-> None]
  /\ nextId' = 1
  /\ cancelFlag' = [s \in Slot |-> FALSE]
  /\ intCancelled' = [s \in Slot |-> FALSE]
  /\ queue' = <<>> /\ pending' = <<>> /\ active' = {}
  /\ xfer' = [s \in Slot |-> "idle"]
  /\ msgs' = {} /\ cur' = None
  /\ netPc' = "drain"
  /\ outcome' = [i \in Id |-> "none"]

-----------------------------------------------------------------------------
(* The main thread: net_download_file, net_download_memory, net_cancel.     *)

\* Main is between calls of the Worker API, and pool[-1] was never used.
MainIdle == probes = 0 /\ claimed = None /\ ~overrun

\* How many slots one search tries.
ProbeAllButOne == PoolSize - 1                        \* mutant of ProbeLimit
ProbeLimit == PoolSize

\* Where the search goes next: Atomic::inc of the counter, modulo the pool.
NextProbeNoWrap == nextFree + 1                        \* mutant of NextProbe
NextProbe == (nextFree + 1) % PoolSize

\* net_download_*: enter thread_safe_get_unused_slot.
BeginDownload ==
  /\ MainIdle
  /\ nextId <= MaxId
  /\ probes' = ProbeLimit
  /\ UNCHANGED <<poolVars, netVars, queue, xfer, nextFree, claimed, overrun, nextId>>

\* One iteration of the search: the slot at the shared counter is claimed with
\* a compare-and-swap and cleared, or the next one is tried. After PoolSize
\* failures the search returns -1, which its callers use as an index.
ProbeSlot ==
  /\ probes > 0
  /\ nextFree' = NextProbe
  /\ IF used[nextFree]
     THEN /\ probes' = probes - 1
          /\ overrun' = (probes = 1)
          /\ UNCHANGED <<claimed, poolVars>>
     ELSE /\ used' = [used EXCEPT ![nextFree] = TRUE]
          /\ reqId' = [reqId EXCEPT ![nextFree] = None]
          /\ cancelFlag' = [cancelFlag EXCEPT ![nextFree] = FALSE]
          /\ claimed' = nextFree
          /\ probes' = 0
          /\ UNCHANGED overrun
  /\ UNCHANGED <<netVars, queue, xfer, nextId>>

\* request_id_counter after a request took its id.
IdNotBumped == nextId                              \* mutant of NextRequestId
NextRequestId == nextId + 1

\* SDL_SignalCondition wakes the thread if it waits, and is lost otherwise.
NotSignalled == netPc                                  \* mutant of Signalled
Signalled == IF netPc = "asleep" THEN "waking" ELSE netPc

\* net_request_push: number the request, queue its slot and signal the
\* condition variable.
Push ==
  /\ claimed # None
  /\ ~MutexHeld
  /\ reqId' = [reqId EXCEPT ![claimed] = nextId]
  /\ nextId' = NextRequestId
  /\ queue' = Append(queue, claimed)
  /\ netPc' = Signalled
  /\ claimed' = None
  /\ UNCHANGED <<used, cancelFlag, pending, active, msgs, cur, outcome,
                 intCancelled, xfer, nextFree, probes, overrun>>

\* net_cancel_request: the caller names a slot, which may have been released,
\* or given to a later request, since the caller learned of it.
Cancel(s) ==
  /\ Cancelable /\ MainIdle
  /\ ~cancelFlag[s]
  /\ cancelFlag' = [cancelFlag EXCEPT ![s] = TRUE]
  /\ UNCHANGED <<used, reqId, mainVars, netVars, queue, xfer>>

-----------------------------------------------------------------------------
(* The NetWorkerThread, in the order of its loop.                            *)

\* A signal from a screen that shows downloads, or a spurious wakeup.
Wake ==
  /\ netPc = "asleep"
  /\ netPc' = "waking"
  /\ UNCHANGED <<mainVars, poolVars, pending, active, msgs, cur, outcome,
                 intCancelled, queue, xfer>>

\* SDL_WaitCondition returns with the mutex held.
Relock ==
  /\ netPc = "waking"
  /\ netPc' = "woken"
  /\ UNCHANGED <<mainVars, poolVars, pending, active, msgs, cur, outcome,
                 intCancelled, queue, xfer>>

HasRoom == Len(pending) + Cardinality(active) < PoolSize

\* One request of the job queue becomes the top of the pending stack.
DrainOne ==
  /\ MutexHeld
  /\ queue # <<>> /\ HasRoom
  /\ pending' = Append(pending, Head(queue))
  /\ queue' = Tail(queue)
  /\ UNCHANGED <<mainVars, poolVars, active, msgs, cur, netPc, outcome,
                 intCancelled, xfer>>

\* The queue is drained: the thread sleeps when it tracks nothing, and after a
\* sleep it goes on without looking again.
DrainEnd ==
  /\ MutexHeld
  /\ queue = <<>> \/ ~HasRoom
  /\ netPc' = IF netPc = "drain" /\ pending = <<>> /\ active = {} /\ queue = <<>>
              THEN "asleep" ELSE "start"
  /\ UNCHANGED <<mainVars, poolVars, pending, active, msgs, cur, outcome,
                 intCancelled, queue, xfer>>

\* Every request taken off the stack starts from int_data = {}.
FreshIntData == intCancelled' = [intCancelled EXCEPT ![Top(pending)] = FALSE]

\* The request on top of the stack cannot open its file: `continue` pops it,
\* and neither tells its client nor releases its slot.
OpenFails ==
  /\ netPc = "start" /\ pending # <<>>
  /\ pending' = Pop(pending)
  /\ FreshIntData
  /\ UNCHANGED <<mainVars, poolVars, active, msgs, cur, netPc, outcome, queue, xfer>>

\* It is handed to libcurl. push_one does nothing when the set is full, and
\* its result is ignored: the transfer then runs untracked.
StartTransfer ==
  /\ netPc = "start" /\ pending # <<>>
  /\ LET s == Top(pending) IN
       /\ xfer' = [xfer EXCEPT ![s] = "running"]
       /\ active' = IF Cardinality(active) < MaxActive THEN active \cup {s} ELSE active
  /\ pending' = Pop(pending)
  /\ FreshIntData
  /\ UNCHANGED <<mainVars, poolVars, msgs, cur, netPc, outcome, queue>>

\* What on_finished_func is told about slot s.
Tell(s, st) == outcome' = [outcome EXCEPT ![reqId[s]] = st]

\* libcurl refuses it: the client is told ERROR before the slot is released.
StartFails ==
  /\ netPc = "start" /\ pending # <<>>
  /\ cur' = Top(pending)
  /\ Tell(Top(pending), "ERROR")
  /\ netPc' = "startRelease"
  /\ FreshIntData
  /\ UNCHANGED <<mainVars, poolVars, pending, active, msgs, queue, xfer>>

StartFailsRelease ==
  /\ netPc = "startRelease"
  /\ used' = [used EXCEPT ![cur] = FALSE]
  /\ pending' = Pop(pending)
  /\ cur' = None
  /\ netPc' = "start"
  /\ UNCHANGED <<mainVars, reqId, cancelFlag, intCancelled, active, msgs, outcome,
                 queue, xfer>>

\* Tracked slots whose client asked for cancellation.
ToCancel == {s \in active : cancelFlag[s]}

\* curl_multi_perform queues a DONE message for every transfer that ended.
\* Then the cancelled slots leave the multi handle, which drops their messages.
Perform ==
  /\ netPc = "start" /\ pending = <<>>
  /\ msgs' = {s \in Slot \ ToCancel : xfer[s] \in {"ok", "error"}}
  /\ xfer' = [s \in Slot |-> IF s \in ToCancel THEN "idle" ELSE xfer[s]]
  /\ active' = active \ ToCancel
  /\ intCancelled' = [s \in Slot |-> intCancelled[s] \/ s \in ToCancel]
  /\ netPc' = "done"
  /\ UNCHANGED <<mainVars, poolVars, pending, cur, outcome, queue>>

\* req_status of a DONE message.
DoneStatus(s) == IF xfer[s] = "error" THEN "ERROR"
                 ELSE IF intCancelled[s] THEN "CANCELLED" ELSE "FINISHED"

\* Mutant of TellDone: the slot is released before the client is told.
TellAfterRelease(s) ==
  /\ netPc = "done" /\ s \in msgs
  /\ Tell(s, DoneStatus(s))
  /\ used' = [used EXCEPT ![s] = FALSE]
  /\ cur' = s
  /\ netPc' = "doneRelease"
  /\ UNCHANGED <<mainVars, reqId, cancelFlag, pending, active, msgs,
                 intCancelled, queue, xfer>>

\* A DONE message: the file is closed and the client is told first.
TellDone(s) ==
  /\ netPc = "done" /\ s \in msgs
  /\ Tell(s, DoneStatus(s))
  /\ cur' = s
  /\ netPc' = "doneRelease"
  /\ UNCHANGED <<mainVars, poolVars, pending, active, msgs,
                 intCancelled, queue, xfer>>

\* Then the handle leaves curl, the slot leaves the active set and the pool
\* gets it back.
DoneRelease ==
  /\ netPc = "doneRelease"
  /\ xfer' = [xfer EXCEPT ![cur] = "idle"]
  /\ active' = active \ {cur}
  /\ msgs' = msgs \ {cur}
  /\ used' = [used EXCEPT ![cur] = FALSE]
  /\ cur' = None
  /\ netPc' = "done"
  /\ UNCHANGED <<mainVars, reqId, cancelFlag, intCancelled, pending, outcome, queue>>

\* No message is left: the loop starts over.
EndOfLoop ==
  /\ netPc = "done" /\ msgs = {}
  /\ netPc' = "drain"
  /\ UNCHANGED <<mainVars, poolVars, pending, active, msgs, cur, outcome,
                 intCancelled, queue, xfer>>

-----------------------------------------------------------------------------
\* The network ends a running transfer, with success or not (external).
TransferEnds(s) ==
  /\ xfer[s] = "running"
  /\ \E r \in {"ok", "error"} : xfer' = [xfer EXCEPT ![s] = r]
  /\ UNCHANGED <<mainVars, poolVars, netVars, queue>>

\* What the API asks of its callers, who never look at the -1 it may return.
CallerSeesRoom == \E s \in Slot : ~used[s]

MainStep ==
  \/ CallerSeesRoom /\ BeginDownload
  \/ ProbeSlot
  \/ Push
  \/ \E s \in Slot : Cancel(s)

NetThreadStep ==
  \/ Relock \/ DrainOne \/ DrainEnd
  \/ StartTransfer \/ StartFails \/ StartFailsRelease
  \/ Perform \/ (\E s \in Slot : TellDone(s)) \/ DoneRelease \/ EndOfLoop

Next ==
  \/ MainStep
  \/ NetThreadStep
  \/ OpenFails
  \/ Wake
  \/ \E s \in Slot : TransferEnds(s)

Spec == Init /\ [][Next]_vars

-----------------------------------------------------------------------------
(* Properties.                                                               *)

TypeOK ==
  /\ used \in [Slot -> BOOLEAN]
  /\ nextFree \in Slot
  /\ probes \in 0 .. PoolSize
  /\ claimed \in Slot \cup {None}
  /\ overrun \in BOOLEAN
  /\ reqId \in [Slot -> Id \cup {None}]
  /\ nextId \in 1 .. MaxId + 1
  /\ cancelFlag \in [Slot -> BOOLEAN]
  /\ intCancelled \in [Slot -> BOOLEAN]
  /\ queue \in Seq(Slot) /\ pending \in Seq(Slot)
  /\ active \in SUBSET Slot
  /\ xfer \in [Slot -> Xfer]
  /\ msgs \in SUBSET Slot
  /\ cur \in Slot \cup {None}
  /\ netPc \in NetPc
  /\ outcome \in [Id -> Status \cup {"none"}]

NoRepeats(q) == \A i, j \in DOMAIN q : q[i] = q[j] => i = j

\* The places that can hold a slot index and do hold s.
Holders(s) ==
  {h \in {"main", "queue", "pending", "curl"} :
     \/ h = "main"    /\ claimed = s
     \/ h = "queue"   /\ s \in Elements(queue)
     \/ h = "pending" /\ s \in Elements(pending)
     \/ h = "curl"    /\ xfer[s] # "idle"}

\* A slot is handled by one place at a time: main, the queue, the pending
\* stack and the multi handle never share one, none of them holds it twice,
\* and none of them holds a slot that is free for the next download.
SlotOwnership ==
  /\ NoRepeats(queue) /\ NoRepeats(pending)
  /\ \A s \in Slot :
       /\ \A h, k \in Holders(s) : h = k
       /\ Holders(s) # {} => used[s]

\* Two requests that are under way never carry the same request_id, on which
\* download_track keys its rows.
DistinctIds ==
  \A s, t \in Slot : reqId[s] = reqId[t] /\ reqId[s] # None => s = t

\* The thread never sleeps on the condition variable while a request waits in
\* the queue: no wakeup is lost between the check and the wait.
NoLostWakeup == netPc = "asleep" => queue = <<>>

\* A caller that found a free slot gets one: the search, which runs while the
\* NetWorkerThread releases slots, never returns -1.
SearchSucceeds == ~overrun

\* on_finished_func is told at most once of each request, while the request's
\* slot still belongs to it.
ToldOnce ==
  [][\A i \in Id : outcome'[i] # outcome[i] =>
       /\ outcome[i] = "none"
       /\ \E s \in Slot : used[s] /\ used'[s] /\ reqId[s] = i]_vars
=============================================================================
