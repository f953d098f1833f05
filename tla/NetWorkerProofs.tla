-------------------------- MODULE NetWorkerProofs --------------------------
(***************************************************************************)
(* Proofs about NetWorker, for every pool size, every number of tracked    *)
(* requests and every number of request ids: each invariant and the action *)
(* property that the run of NetWorker checks on a small pool.              *)
(*                                                                         *)
(* IInv is the inductive invariant. Beyond the checked invariants it says  *)
(* who holds which slot (Ownership), which slot the thread is about to     *)
(* release (AboutToRelease), that a search has a free slot ahead of it     *)
(* (RoomAhead) and that no request under way was told (Untold).            *)
(***************************************************************************)
EXTENDS NetWorker, TLAPS

-----------------------------------------------------------------------------
(* Facts about sequences of slots.                                           *)

\* Appending to a queue adds one element, and keeps it free of repetitions
\* when the element is new (queue.push, pending_requests.push_one).
LEMMA AppendFacts ==
  ASSUME NEW S, NEW q \in Seq(S), NEW x \in S
  PROVE  /\ Append(q, x) \in Seq(S)
         /\ Elements(Append(q, x)) = Elements(q) \cup {x}
         /\ NoRepeats(q) /\ x \notin Elements(q) => NoRepeats(Append(q, x))
<1>1. Append(q, x) \in Seq(S)
  OBVIOUS
<1>2. /\ Len(Append(q, x)) = Len(q) + 1
      /\ DOMAIN Append(q, x) = 1 .. Len(q) + 1
      /\ DOMAIN q = 1 .. Len(q)
      /\ Append(q, x)[Len(q) + 1] = x
      /\ \A i \in 1 .. Len(q) : Append(q, x)[i] = q[i]
      /\ Len(q) \in Nat
  OBVIOUS
<1>3. Elements(Append(q, x)) = Elements(q) \cup {x}
  <2>1. \A y \in Elements(Append(q, x)) : y \in Elements(q) \cup {x}
    BY <1>2 DEF Elements
  <2>2. \A y \in Elements(q) : y \in Elements(Append(q, x))
    BY <1>2 DEF Elements
  <2>3. x \in Elements(Append(q, x))
    BY <1>2 DEF Elements
  <2> QED
    BY <2>1, <2>2, <2>3
<1>4. ASSUME NoRepeats(q), x \notin Elements(q)
      PROVE  NoRepeats(Append(q, x))
  BY <1>2, <1>4 DEF NoRepeats, Elements
<1> QED
  BY <1>1, <1>3, <1>4

\* Taking the head of a queue without repetitions leaves a queue without it.
LEMMA TailFacts ==
  ASSUME NEW S, NEW q \in Seq(S), q # <<>>
  PROVE  /\ Tail(q) \in Seq(S)
         /\ Head(q) \in S
         /\ Elements(q) = Elements(Tail(q)) \cup {Head(q)}
         /\ NoRepeats(q) => NoRepeats(Tail(q)) /\ Head(q) \notin Elements(Tail(q))
<1>1. /\ Len(q) \in Nat \ {0}
      /\ DOMAIN q = 1 .. Len(q)
      /\ DOMAIN Tail(q) = 1 .. Len(q) - 1
      /\ Tail(q) \in Seq(S)
      /\ \A i \in 1 .. Len(q) - 1 : Tail(q)[i] = q[i + 1]
      /\ Head(q) = q[1]
      /\ Head(q) \in S
  OBVIOUS
<1>2. \A y \in Elements(q) : y \in Elements(Tail(q)) \cup {Head(q)}
  <2> TAKE y \in Elements(q)
  <2>1. PICK i \in 1 .. Len(q) : y = q[i]
    BY <1>1 DEF Elements
  <2>2. CASE i = 1
    BY <1>1, <2>1, <2>2
  <2>3. CASE i # 1
    <3>1. i - 1 \in DOMAIN Tail(q) /\ Tail(q)[i - 1] = y
      BY <1>1, <2>1, <2>3
    <3> QED
      BY <3>1 DEF Elements
  <2> QED
    BY <2>2, <2>3
<1>3. \A y \in Elements(Tail(q)) : \E i \in 2 .. Len(q) : y = q[i]
  <2> TAKE y \in Elements(Tail(q))
  <2>1. PICK i \in 1 .. Len(q) - 1 : y = Tail(q)[i]
    BY <1>1 DEF Elements
  <2>2. i + 1 \in 2 .. Len(q) /\ y = q[i + 1]
    BY <1>1, <2>1
  <2> QED
    BY <2>2
<1>4. Elements(q) = Elements(Tail(q)) \cup {Head(q)}
  <2>1. Head(q) \in Elements(q)
    BY <1>1 DEF Elements
  <2>2. \A y \in Elements(Tail(q)) : y \in Elements(q)
    BY <1>1, <1>3 DEF Elements
  <2> QED
    BY <1>2, <2>1, <2>2
<1>5. ASSUME NoRepeats(q)
      PROVE  NoRepeats(Tail(q)) /\ Head(q) \notin Elements(Tail(q))
  <2>1. Head(q) \notin Elements(Tail(q))
    BY <1>1, <1>3, <1>5 DEF NoRepeats
  <2>2. NoRepeats(Tail(q))
    BY <1>1, <1>5 DEF NoRepeats
  <2> QED
    BY <2>1, <2>2
<1> QED
  BY <1>1, <1>4, <1>5

\* Popping a stack without repetitions leaves a stack without its top.
LEMMA PopFacts ==
  ASSUME NEW S, NEW q \in Seq(S), q # <<>>
  PROVE  /\ Pop(q) \in Seq(S)
         /\ Top(q) \in S /\ Top(q) \in Elements(q)
         /\ Elements(q) = Elements(Pop(q)) \cup {Top(q)}
         /\ NoRepeats(q) => NoRepeats(Pop(q)) /\ Top(q) \notin Elements(Pop(q))
<1>1. /\ Len(q) \in Nat
      /\ Len(q) > 0
      /\ DOMAIN q = 1 .. Len(q)
      /\ \A i \in 1 .. Len(q) : q[i] \in S
  OBVIOUS
<1>2. /\ Pop(q) \in Seq(S)
      /\ DOMAIN Pop(q) = 1 .. Len(q) - 1
      /\ \A i \in 1 .. Len(q) - 1 : Pop(q)[i] = q[i]
  BY <1>1 DEF Pop
<1>3. Top(q) = q[Len(q)] /\ Top(q) \in S
  BY <1>1 DEF Top
<1>4. Elements(q) = Elements(Pop(q)) \cup {Top(q)}
  <2>1. \A y \in Elements(q) : y \in Elements(Pop(q)) \cup {Top(q)}
    <3> TAKE y \in Elements(q)
    <3>1. PICK i \in 1 .. Len(q) : y = q[i]
      BY <1>1 DEF Elements
    <3>2. CASE i = Len(q)
      BY <1>3, <3>1, <3>2
    <3>3. CASE i # Len(q)
      <4> DEFINE n == Len(q)
      <4>1. i \in 1 .. n - 1
        <5>1. n \in Nat /\ i \in 1 .. n /\ i # n
          BY <1>1, <3>3
        <5> HIDE DEF n
        <5> QED
          BY <5>1
      <4>2. i \in DOMAIN Pop(q) /\ Pop(q)[i] = y
        BY <1>2, <3>1, <4>1
      <4> QED
        BY <4>2 DEF Elements
    <3> QED
      BY <3>2, <3>3
  <2>2. \A y \in Elements(Pop(q)) : y \in Elements(q)
    BY <1>1, <1>2 DEF Elements
  <2>3. Top(q) \in Elements(q)
    BY <1>1, <1>3 DEF Elements
  <2> QED
    BY <2>1, <2>2, <2>3
<1>5. ASSUME NoRepeats(q)
      PROVE  NoRepeats(Pop(q)) /\ Top(q) \notin Elements(Pop(q))
  <2>1. NoRepeats(Pop(q))
    BY <1>1, <1>2, <1>5 DEF NoRepeats
  <2>2. \A i \in DOMAIN Pop(q) : Pop(q)[i] # Top(q)
    BY <1>1, <1>2, <1>3, <1>5 DEF NoRepeats
  <2> QED
    BY <2>1, <2>2 DEF Elements
<1> QED
  BY <1>2, <1>3, <1>4, <1>5

\* The empty queue.
LEMMA EmptyFacts ==
  /\ Elements(<<>>) = {}
  /\ NoRepeats(<<>>)
  /\ \A S : <<>> \in Seq(S)
  BY DEF Elements, NoRepeats

-----------------------------------------------------------------------------
(* The inductive invariant.                                                  *)

\* Main searches, or has claimed a slot, for a request that still has an id.
MainProgress ==
  /\ probes > 0 => claimed = None
  /\ probes > 0 \/ claimed # None => nextId <= MaxId

\* Each of the four holders of a slot index excludes the others, and holds
\* claimed slots only.
Ownership ==
  /\ NoRepeats(queue) /\ NoRepeats(pending)
  /\ \A s \in Slot :
       /\ claimed = s => /\ used[s] /\ xfer[s] = "idle"
                         /\ s \notin Elements(queue) /\ s \notin Elements(pending)
       /\ s \in Elements(queue) => used[s] /\ xfer[s] = "idle" /\ s \notin Elements(pending)
       /\ s \in Elements(pending) => used[s] /\ xfer[s] = "idle"
       /\ xfer[s] # "idle" => used[s]

\* DONE messages are about transfers that ended, and the slot the thread is
\* about to release is the one it has just told the client about.
AboutToRelease ==
  /\ \A s \in msgs : xfer[s] \in {"ok", "error"}
  /\ netPc = "startRelease" => pending # <<>> /\ cur = Top(pending)
  /\ netPc = "doneRelease" => cur \in msgs
  /\ netPc \notin {"startRelease", "doneRelease"} => cur = None

\* Ids are handed out in order.
IdsInOrder == \A s \in Slot : reqId[s] < nextId

\* How far the search is from slot s.
Distance(s) == IF s >= nextFree THEN s - nextFree ELSE s - nextFree + PoolSize

\* A search that is under way has a free slot among those it still tries: the
\* thread only ever releases slots meanwhile.
RoomAhead == probes > 0 => \E s \in Slot : ~used[s] /\ Distance(s) < probes

\* Whoever holds a slot after its request was pushed holds a request nobody
\* was told about, the slot about to be released excepted.
Untold ==
  /\ \A s \in Slot :
       s # cur /\ (s \in Elements(queue) \/ s \in Elements(pending) \/ xfer[s] # "idle")
         => reqId[s] \in Id /\ outcome[reqId[s]] = "none"
  /\ \A i \in Id : i >= nextId => outcome[i] = "none"

\* What holds of the pool and of the thread whether or not a search finds a slot.
PoolInv == TypeOK /\ MainProgress /\ Ownership /\ AboutToRelease

IInv ==
  /\ PoolInv
  /\ IdsInOrder /\ DistinctIds /\ NoLostWakeup
  /\ RoomAhead /\ SearchSucceeds /\ Untold

\* Slots and ids are integers other than None.
LEMMA SlotFacts ==
  /\ PoolSize \in Nat \ {0} /\ MaxId \in Nat
  /\ 0 \in Slot
  /\ \A s \in Slot : s \in 0 .. PoolSize - 1 /\ s # None
  /\ \A i \in Id : i \in 1 .. MaxId /\ i # None
  BY PoolAssumption DEF Slot, Id, None

\* The search's next index is the successor on the ring of slots.
LEMMA NextProbeFact ==
  ASSUME nextFree \in Slot
  PROVE  NextProbe = IF nextFree = PoolSize - 1 THEN 0 ELSE nextFree + 1
  BY SlotFacts DEF NextProbe, Slot

\* The initial state satisfies the inductive invariant.
LEMMA InitIInv == Init => IInv
<1> SUFFICES ASSUME Init PROVE IInv
  OBVIOUS
<1>1. TypeOK
  <2>1. /\ used \in [Slot -> BOOLEAN] /\ cancelFlag \in [Slot -> BOOLEAN]
        /\ intCancelled \in [Slot -> BOOLEAN] /\ reqId \in [Slot -> Id \cup {None}]
        /\ xfer \in [Slot -> Xfer] /\ outcome \in [Id -> Status \cup {"none"}]
    BY DEF Init, Xfer
  <2>2. /\ nextFree \in Slot /\ probes \in 0 .. PoolSize
        /\ claimed \in Slot \cup {None} /\ cur \in Slot \cup {None}
        /\ nextId \in 1 .. MaxId + 1 /\ overrun \in BOOLEAN
    BY SlotFacts DEF Init
  <2>3. queue \in Seq(Slot) /\ pending \in Seq(Slot)
    BY EmptyFacts DEF Init
  <2>4. active \in SUBSET Slot /\ msgs \in SUBSET Slot /\ netPc \in NetPc
    BY DEF Init, NetPc
  <2> QED
    BY <2>1, <2>2, <2>3, <2>4 DEF TypeOK
<1>2. MainProgress /\ NoLostWakeup /\ RoomAhead /\ SearchSucceeds
  BY DEF Init, MainProgress, NoLostWakeup, RoomAhead, SearchSucceeds, None
<1>3. Ownership
  BY SlotFacts, EmptyFacts DEF Init, Ownership
<1>4. AboutToRelease /\ IdsInOrder /\ DistinctIds
  BY DEF Init, AboutToRelease, IdsInOrder, DistinctIds, None
<1>5. Untold
  BY EmptyFacts DEF Init, Untold
<1> QED
  BY <1>1, <1>2, <1>3, <1>4, <1>5 DEF IInv, PoolInv

-----------------------------------------------------------------------------
(* Every step preserves it, one part at a time.                              *)

\* Type correctness.
LEMMA TypeStep ==
  ASSUME PoolInv, Next \/ BeginDownload
  PROVE  TypeOK'
<1> USE DEF PoolInv, TypeOK, mainVars, poolVars, netVars
<1>1. CASE BeginDownload
  BY <1>1, SlotFacts DEF BeginDownload, ProbeLimit
<1>2. CASE ProbeSlot
  <2>1. nextFree' \in Slot
    BY <1>2, SlotFacts, NextProbeFact DEF ProbeSlot, Slot
  <2>2. probes' \in 0 .. PoolSize
    <3>1. probes' = probes - 1 \/ probes' = 0
      BY <1>2 DEF ProbeSlot
    <3>2. probes > 0 /\ probes \in 0 .. PoolSize
      BY <1>2 DEF ProbeSlot
    <3> QED
      BY <3>1, <3>2, SlotFacts
  <2>0. claimed' \in Slot \cup {None} /\ overrun' \in BOOLEAN
    <3>1. CASE used[nextFree]
      <4>1. overrun' = (probes = 1) /\ claimed' = claimed
        BY <1>2, <3>1 DEF ProbeSlot
      <4> QED
        BY <4>1, ZenonT(20)
    <3>2. CASE ~used[nextFree]
      BY <1>2, <3>2 DEF ProbeSlot
    <3> QED
      BY <3>1, <3>2
  <2>3. /\ used' \in [Slot -> BOOLEAN] /\ cancelFlag' \in [Slot -> BOOLEAN]
        /\ reqId' \in [Slot -> Id \cup {None}]
    BY <1>2 DEF ProbeSlot
  <2> QED
    BY <1>2, <2>0, <2>1, <2>2, <2>3 DEF ProbeSlot
<1>3. CASE Push
  <2>1. claimed \in Slot /\ nextId \in Id
    BY <1>3, SlotFacts DEF Push, MainProgress, Id
  <2>2. queue' \in Seq(Slot)
    BY <1>3, <2>1, AppendFacts DEF Push
  <2>3. reqId' \in [Slot -> Id \cup {None}] /\ nextId' \in 1 .. MaxId + 1
    BY <1>3, <2>1, SlotFacts DEF Push, NextRequestId, Id
  <2>4. netPc' \in NetPc /\ claimed' \in Slot \cup {None}
    BY <1>3 DEF Push, Signalled, NetPc
  <2> QED
    BY <1>3, <2>2, <2>3, <2>4 DEF Push
<1>4. CASE \E s \in Slot : Cancel(s)
  BY <1>4 DEF Cancel
<1>5. CASE Relock \/ Wake \/ EndOfLoop \/ DrainEnd
  BY <1>5 DEF Relock, Wake, EndOfLoop, DrainEnd, NetPc
<1>6. CASE DrainOne
  <2>1. Head(queue) \in Slot /\ queue' \in Seq(Slot)
    BY <1>6, TailFacts DEF DrainOne
  <2>2. pending' \in Seq(Slot)
    BY <1>6, <2>1, AppendFacts DEF DrainOne
  <2> QED
    BY <1>6, <2>1, <2>2 DEF DrainOne
<1>7. CASE OpenFails \/ StartTransfer \/ StartFails
  <2>1. Top(pending) \in Slot /\ Pop(pending) \in Seq(Slot)
    BY <1>7, PopFacts DEF OpenFails, StartTransfer, StartFails
  <2>2. CASE OpenFails
    BY <2>1, <2>2 DEF OpenFails, FreshIntData
  <2>3. CASE StartTransfer
    BY <2>1, <2>3 DEF StartTransfer, FreshIntData, Xfer
  <2>4. CASE StartFails
    BY <2>1, <2>4 DEF StartFails, FreshIntData, Tell, Status, NetPc
  <2> QED
    BY <1>7, <2>2, <2>3, <2>4
<1>8. CASE StartFailsRelease
  <2>1. pending' \in Seq(Slot)
    BY <1>8, PopFacts DEF StartFailsRelease, AboutToRelease
  <2> QED
    BY <1>8, <2>1 DEF StartFailsRelease, NetPc
<1>9. CASE Perform
  <2>1. intCancelled' \in [Slot -> BOOLEAN] /\ xfer' \in [Slot -> Xfer]
    BY <1>9 DEF Perform, Xfer
  <2>2. msgs' \in SUBSET Slot /\ active' \in SUBSET Slot
    BY <1>9 DEF Perform
  <2> QED
    BY <1>9, <2>1, <2>2 DEF Perform, NetPc
<1>10. CASE \E s \in Slot : TellDone(s)
  <2>1. PICK s \in Slot : TellDone(s)
    BY <1>10
  <2>2. outcome' \in [Id -> Status \cup {"none"}]
    BY <2>1 DEF TellDone, Tell, DoneStatus, Status
  <2> QED
    BY <2>1, <2>2 DEF TellDone, NetPc
<1>11. CASE DoneRelease
  BY <1>11 DEF DoneRelease, NetPc, Xfer
<1>12. CASE \E s \in Slot : TransferEnds(s)
  BY <1>12 DEF TransferEnds, Xfer
<1> QED
  BY <1>1, <1>2, <1>3, <1>4, <1>5, <1>6, <1>7, <1>8, <1>9, <1>10, <1>11, <1>12
     DEF Next, MainStep, NetThreadStep

\* A search, and the id it will need.
LEMMA ProgressStep ==
  ASSUME PoolInv, Next \/ BeginDownload
  PROVE  MainProgress'
<1> USE DEF PoolInv, TypeOK, MainProgress
<1>1. CASE BeginDownload
  BY <1>1, SlotFacts DEF BeginDownload, MainIdle
<1>2. CASE ProbeSlot
  BY <1>2, SlotFacts DEF ProbeSlot
<1>3. CASE Push
  BY <1>3, SlotFacts DEF Push
<1>4. CASE UNCHANGED <<probes, claimed, nextId>>
  BY <1>4
<1> QED
  BY <1>1, <1>2, <1>3, <1>4
     DEF Next, MainStep, NetThreadStep, Cancel, Relock, Wake, EndOfLoop, DrainEnd, DrainOne,
         OpenFails, StartTransfer, StartFails, StartFailsRelease, Perform, TellDone, DoneRelease,
         TransferEnds, mainVars

\* Main's own progress, the ids and the search.
LEMMA MainStepInv ==
  ASSUME IInv, Next
  PROVE  MainProgress' /\ IdsInOrder' /\ DistinctIds' /\ RoomAhead' /\ SearchSucceeds'
<1> USE DEF IInv, PoolInv, TypeOK, mainVars, poolVars, netVars
<1>1. CASE CallerSeesRoom /\ BeginDownload
  <2>1. MainProgress' /\ IdsInOrder' /\ DistinctIds' /\ SearchSucceeds'
    BY <1>1, SlotFacts DEF BeginDownload, MainIdle, MainProgress, IdsInOrder, DistinctIds,
                           SearchSucceeds
  <2>2. RoomAhead'
    <3>1. PICK s \in Slot : ~used[s]
      BY <1>1 DEF CallerSeesRoom
    <3>2. Distance(s)' < probes'
      BY <1>1, <3>1, SlotFacts DEF BeginDownload, ProbeLimit, Distance, Slot
    <3> QED
      BY <1>1, <3>1, <3>2 DEF RoomAhead, BeginDownload
  <2> QED
    BY <2>1, <2>2
<1>2. CASE ProbeSlot
  <2>1. CASE used[nextFree]
    <3>1. PICK s \in Slot : ~used[s] /\ Distance(s) < probes
      BY <1>2 DEF RoomAhead, ProbeSlot
    <3>2. s # nextFree
      BY <2>1, <3>1
    <3>3. Distance(s) > 0 /\ Distance(s)' = Distance(s) - 1
      BY <1>2, <3>2, SlotFacts, NextProbeFact DEF ProbeSlot, Distance, Slot
    <3>4. probes' = probes - 1 /\ probes \in Nat /\ used' = used /\ Distance(s) \in Int
      BY <1>2, <2>1, SlotFacts DEF ProbeSlot, Distance, Slot
    <3>5. RoomAhead' /\ SearchSucceeds'
      BY <1>2, <2>1, <3>1, <3>3, <3>4 DEF RoomAhead, SearchSucceeds, ProbeSlot
    <3>6. MainProgress' /\ IdsInOrder' /\ DistinctIds'
      BY <1>2, <2>1, <3>4 DEF ProbeSlot, MainProgress, IdsInOrder, DistinctIds
    <3> QED
      BY <3>5, <3>6
  <2>2. CASE ~used[nextFree]
    <3>1. MainProgress' /\ RoomAhead' /\ SearchSucceeds'
      BY <1>2, <2>2, SlotFacts DEF ProbeSlot, MainProgress, RoomAhead, SearchSucceeds
    <3>2. /\ \A s \in Slot : reqId'[s] = IF s = nextFree THEN None ELSE reqId[s]
          /\ nextId' = nextId /\ None < nextId
      BY <1>2, <2>2, SlotFacts DEF ProbeSlot, None
    <3>3. IdsInOrder'
      BY <3>2 DEF IdsInOrder
    <3>4. DistinctIds'
      BY <3>2 DEF DistinctIds
    <3> QED
      BY <3>1, <3>3, <3>4
  <2> QED
    BY <2>1, <2>2
<1>3. CASE Push
  <2>1. claimed \in Slot /\ nextId \in Nat /\ nextId' = nextId + 1 /\ claimed' = None
    BY <1>3, SlotFacts DEF Push, NextRequestId
  <2>2. probes = 0 /\ probes' = 0
    BY <1>3, SlotFacts DEF Push, MainProgress
  <2>3. MainProgress' /\ RoomAhead' /\ SearchSucceeds'
    BY <1>3, <2>1, <2>2 DEF Push, MainProgress, RoomAhead, SearchSucceeds
  <2>4. \A s \in Slot : reqId'[s] = IF s = claimed THEN nextId ELSE reqId[s]
    BY <1>3, <2>1 DEF Push
  <2>5. \A s \in Slot : reqId[s] \in Int
    BY SlotFacts DEF Id, None
  <2>6. \A s \in Slot : reqId[s] < nextId
    BY DEF IdsInOrder
  <2>7. IdsInOrder'
    <3> SUFFICES ASSUME NEW s \in Slot PROVE reqId'[s] < nextId'
      BY DEF IdsInOrder
    <3>1. CASE s = claimed
      BY <2>1, <2>4, <3>1
    <3>2. CASE s # claimed
      <4>1. reqId'[s] = reqId[s] /\ reqId[s] \in Int /\ reqId[s] < nextId
        BY <2>4, <2>5, <2>6, <3>2
      <4> HIDE DEF IInv, PoolInv, TypeOK
      <4> QED
        BY <2>1, <4>1
    <3> QED
      BY <3>1, <3>2
  <2>8. DistinctIds'
    <3> SUFFICES ASSUME NEW s \in Slot, NEW t \in Slot, reqId'[s] = reqId'[t], reqId'[s] # None
                 PROVE  s = t
      BY DEF DistinctIds
    <3>1. CASE s = claimed \/ t = claimed
      BY <2>1, <2>4, <2>5, <2>6, <3>1
    <3>2. CASE s # claimed /\ t # claimed
      BY <2>4, <3>2 DEF DistinctIds
    <3> QED
      BY <3>1, <3>2
  <2> QED
    BY <2>3, <2>7, <2>8
<1>4. CASE StartFailsRelease \/ DoneRelease
  <2>1. /\ UNCHANGED <<nextFree, probes, claimed, overrun, nextId, reqId>>
        /\ \A s \in Slot : ~used[s] => ~used'[s]
    BY <1>4 DEF StartFailsRelease, DoneRelease
  <2>2. RoomAhead'
    BY <2>1 DEF RoomAhead, Distance
  <2> QED
    BY <2>1, <2>2 DEF MainProgress, IdsInOrder, DistinctIds, SearchSucceeds
<1>5. CASE UNCHANGED <<mainVars, used, reqId>>
  BY <1>5 DEF MainProgress, IdsInOrder, DistinctIds, RoomAhead, Distance, SearchSucceeds
<1> QED
  BY <1>1, <1>2, <1>3, <1>4, <1>5
     DEF Next, MainStep, NetThreadStep, Cancel, Relock, Wake, EndOfLoop, DrainEnd, DrainOne,
         OpenFails, StartTransfer, StartFails, Perform, TellDone, TransferEnds

\* Ownership of the slots.
LEMMA OwnershipStep ==
  ASSUME PoolInv, Next \/ BeginDownload
  PROVE  Ownership'
<1> USE DEF PoolInv, TypeOK
<1>1. CASE UNCHANGED <<claimed, queue, pending, xfer, used>>
  BY <1>1 DEF Ownership
<1>2. CASE ProbeSlot /\ ~used[nextFree]
  <2>1. /\ UNCHANGED <<queue, pending, xfer>>
        /\ claimed' = nextFree
        /\ \A s \in Slot : used'[s] <=> (used[s] \/ s = nextFree)
    BY <1>2 DEF ProbeSlot, netVars
  <2>2. /\ nextFree \in Slot /\ xfer[nextFree] = "idle"
        /\ nextFree \notin Elements(queue) /\ nextFree \notin Elements(pending)
    BY <1>2 DEF Ownership
  <2> QED
    BY <2>1, <2>2 DEF Ownership
<1>3. CASE Push
  <2>1. /\ UNCHANGED <<pending, xfer, used>>
        /\ claimed \in Slot /\ claimed' = None
        /\ queue' = Append(queue, claimed)
    BY <1>3 DEF Push
  <2>2. /\ Elements(queue') = Elements(queue) \cup {claimed}
        /\ NoRepeats(queue')
    BY <2>1, AppendFacts DEF Ownership
  <2> QED
    BY <2>1, <2>2, SlotFacts DEF Ownership
<1>4. CASE DrainOne
  <2>1. /\ UNCHANGED <<claimed, xfer, used>>
        /\ queue # <<>> /\ Head(queue) \in Slot
        /\ queue' = Tail(queue) /\ pending' = Append(pending, Head(queue))
    BY <1>4, TailFacts DEF DrainOne, mainVars, poolVars
  <2>2. /\ Elements(queue) = Elements(queue') \cup {Head(queue)}
        /\ NoRepeats(queue') /\ Head(queue) \notin Elements(queue')
    BY <2>1, TailFacts DEF Ownership
  <2>3. Head(queue) \notin Elements(pending)
    BY <2>1, <2>2 DEF Ownership
  <2>4. Elements(pending') = Elements(pending) \cup {Head(queue)} /\ NoRepeats(pending')
    BY <2>1, <2>3, AppendFacts DEF Ownership
  <2> QED
    BY <2>1, <2>2, <2>4 DEF Ownership
<1>5. CASE OpenFails \/ StartTransfer \/ StartFailsRelease
  <2>1. pending # <<>> /\ pending' = Pop(pending) /\ UNCHANGED <<claimed, queue>>
    BY <1>5 DEF OpenFails, StartTransfer, StartFailsRelease, AboutToRelease, mainVars
  <2>2. /\ Elements(pending) = Elements(pending') \cup {Top(pending)}
        /\ NoRepeats(pending') /\ Top(pending) \notin Elements(pending')
        /\ Top(pending) \in Slot
    BY <2>1, PopFacts DEF Ownership
  <2>3. CASE OpenFails
    BY <2>1, <2>2, <2>3 DEF OpenFails, poolVars, Ownership
  <2>4. CASE StartTransfer
    BY <2>1, <2>2, <2>4 DEF StartTransfer, poolVars, Ownership
  <2>5. CASE StartFailsRelease
    <3>1. cur = Top(pending) /\ xfer' = xfer /\ used' = [used EXCEPT ![cur] = FALSE]
      BY <2>5 DEF StartFailsRelease, AboutToRelease
    <3> QED
      BY <2>1, <2>2, <3>1 DEF Ownership
  <2> QED
    BY <1>5, <2>3, <2>4, <2>5
<1>6. CASE Perform \/ (\E s \in Slot : TransferEnds(s))
  <2>1. /\ UNCHANGED <<claimed, queue, pending, used>>
        /\ \A s \in Slot : xfer'[s] # "idle" => xfer[s] # "idle"
    BY <1>6 DEF Perform, TransferEnds, mainVars, poolVars, netVars
  <2> QED
    BY <2>1 DEF Ownership
<1>7. CASE DoneRelease
  <2>1. /\ UNCHANGED <<claimed, queue, pending>>
        /\ cur \in Slot /\ xfer[cur] # "idle"
        /\ xfer' = [xfer EXCEPT ![cur] = "idle"]
        /\ used' = [used EXCEPT ![cur] = FALSE]
    BY <1>7 DEF DoneRelease, AboutToRelease, mainVars
  <2> QED
    BY <2>1 DEF Ownership
<1> QED
  BY <1>1, <1>2, <1>3, <1>4, <1>5, <1>6, <1>7
     DEF Next, MainStep, NetThreadStep, BeginDownload, ProbeSlot, Cancel, Relock, Wake, EndOfLoop,
         DrainEnd, StartFails, TellDone, mainVars, poolVars, netVars

\* The slot about to be released.
LEMMA ThreadStep ==
  ASSUME PoolInv, Next \/ BeginDownload
  PROVE  AboutToRelease'
<1> USE DEF PoolInv, TypeOK, AboutToRelease
<1>1. CASE UNCHANGED <<netVars, queue, xfer>>
  BY <1>1 DEF netVars
<1>2. CASE Push
  BY <1>2 DEF Push, Signalled, MutexHeld
<1>3. CASE Relock \/ Wake \/ EndOfLoop \/ DrainEnd
  BY <1>3 DEF Relock, Wake, EndOfLoop, DrainEnd, MutexHeld
<1>4. CASE DrainOne
  BY <1>4 DEF DrainOne, MutexHeld
<1>5. CASE OpenFails \/ StartFails
  BY <1>5 DEF OpenFails, StartFails
<1>6. CASE StartTransfer
  <2>0. pending # <<>> /\ pending \in Seq(Slot)
    BY <1>6 DEF StartTransfer
  <2>1. Top(pending) \in Slot /\ Top(pending) \in Elements(pending)
    BY <2>0, PopFacts
  <2>2. xfer[Top(pending)] = "idle"
    BY <2>1 DEF Ownership
  <2>3. xfer' = [xfer EXCEPT ![Top(pending)] = "running"] /\ UNCHANGED <<msgs, cur, netPc, queue>>
    BY <1>6 DEF StartTransfer
  <2>4. netPc = "start"
    BY <1>6 DEF StartTransfer
  <2> QED
    BY <2>1, <2>2, <2>3, <2>4
<1>7. CASE StartFailsRelease
  BY <1>7 DEF StartFailsRelease
<1>8. CASE Perform
  BY <1>8 DEF Perform
<1>9. CASE \E s \in Slot : TellDone(s)
  BY <1>9 DEF TellDone
<1>10. CASE DoneRelease
  BY <1>10, SlotFacts DEF DoneRelease
<1>11. CASE \E s \in Slot : TransferEnds(s)
  BY <1>11 DEF TransferEnds, netVars
<1> QED
  BY <1>1, <1>2, <1>3, <1>4, <1>5, <1>6, <1>7, <1>8, <1>9, <1>10, <1>11
     DEF Next, MainStep, NetThreadStep, BeginDownload, ProbeSlot, Cancel

\* All of it, also for a caller that does not look for room.
LEMMA PoolStep ==
  ASSUME PoolInv, Next \/ BeginDownload
  PROVE  PoolInv'
  BY TypeStep, ProgressStep, OwnershipStep, ThreadStep DEF PoolInv

\* The sleeping thread.
LEMMA WakeupStep ==
  ASSUME IInv, Next
  PROVE  NoLostWakeup'
<1> USE DEF IInv, NoLostWakeup
<1>1. CASE Push
  BY <1>1 DEF Push, Signalled, MutexHeld
<1>2. CASE DrainOne
  BY <1>2 DEF DrainOne, MutexHeld
<1>3. CASE DrainEnd
  BY <1>3 DEF DrainEnd
<1>4. CASE netPc' # "asleep"
  BY <1>4
<1>5. CASE UNCHANGED <<netPc, queue>>
  BY <1>5
<1> QED
  BY <1>1, <1>2, <1>3, <1>4, <1>5
     DEF Next, MainStep, NetThreadStep, BeginDownload, ProbeSlot, Cancel, Relock, Wake, EndOfLoop,
         OpenFails, StartTransfer, StartFails, StartFailsRelease, Perform, TellDone, DoneRelease,
         TransferEnds, netVars

\* No request under way was told about.
LEMMA UntoldStep ==
  ASSUME IInv, Next
  PROVE  Untold'
<1> USE DEF IInv, PoolInv, TypeOK
<1> DEFINE Held(s) == s \in Elements(queue) \/ s \in Elements(pending) \/ xfer[s] # "idle"
<1>0. /\ \A s \in Slot : s # cur /\ Held(s) => reqId[s] \in Id /\ outcome[reqId[s]] = "none"
      /\ \A i \in Id : i >= nextId => outcome[i] = "none"
  BY DEF Untold
<1>1. CASE UNCHANGED <<queue, pending, xfer, cur, outcome, reqId, nextId>>
  BY <1>0, <1>1 DEF Untold
<1>2. CASE ProbeSlot /\ ~used[nextFree]
  <2>1. /\ UNCHANGED <<queue, pending, xfer, cur, outcome, nextId>>
        /\ reqId' = [reqId EXCEPT ![nextFree] = None]
    BY <1>2 DEF ProbeSlot, netVars
  <2>2. nextFree \in Slot /\ ~Held(nextFree)
    BY <1>2 DEF Ownership
  <2>3. \A s \in Slot : s # cur /\ Held(s)' => Held(s) /\ reqId'[s] = reqId[s]
    BY <2>1, <2>2
  <2> QED
    BY <1>0, <2>1, <2>3 DEF Untold
<1>3. CASE Push
  <2>1. /\ UNCHANGED <<pending, xfer, cur, outcome>>
        /\ claimed \in Slot
        /\ queue' = Append(queue, claimed)
        /\ reqId' = [reqId EXCEPT ![claimed] = nextId]
        /\ nextId' = nextId + 1
    BY <1>3 DEF Push, NextRequestId
  <2>2. nextId \in Id /\ outcome[nextId] = "none"
    BY <1>0, <1>3, <2>1, SlotFacts DEF MainProgress, Id
  <2>3. Elements(queue') = Elements(queue) \cup {claimed}
    BY <2>1, AppendFacts
  <2>4. \A s \in Slot : s # claimed /\ Held(s)' => Held(s) /\ reqId'[s] = reqId[s]
    BY <2>1, <2>3
  <2>5. reqId'[claimed] = nextId
    BY <2>1
  <2>6. \A i \in Id : i >= nextId' => outcome'[i] = "none"
    BY <1>0, <2>1 DEF Id
  <2> QED
    BY <1>0, <2>1, <2>2, <2>4, <2>5, <2>6 DEF Untold
<1>4. CASE DrainOne
  <2>1. /\ UNCHANGED <<xfer, cur, outcome, reqId, nextId>>
        /\ queue # <<>> /\ Head(queue) \in Slot
        /\ queue' = Tail(queue) /\ pending' = Append(pending, Head(queue))
    BY <1>4, TailFacts DEF DrainOne, mainVars, poolVars
  <2>2. /\ Elements(queue) = Elements(queue') \cup {Head(queue)}
        /\ Elements(pending') = Elements(pending) \cup {Head(queue)}
    BY <2>1, TailFacts, AppendFacts
  <2>3. \A s \in Slot : Held(s)' => Held(s)
    BY <2>1, <2>2
  <2> QED
    BY <1>0, <2>1, <2>3 DEF Untold
<1>5. CASE OpenFails \/ StartTransfer
  <2>1. /\ UNCHANGED <<queue, cur, outcome, reqId, nextId>>
        /\ pending # <<>> /\ pending' = Pop(pending)
        /\ \A s \in Slot : s # Top(pending) => xfer'[s] = xfer[s]
    BY <1>5 DEF OpenFails, StartTransfer, mainVars, poolVars
  <2>2. Elements(pending) = Elements(pending') \cup {Top(pending)} /\ Top(pending) \in Slot
    BY <2>1, PopFacts
  <2>3. \A s \in Slot : Held(s)' => Held(s)
    BY <2>1, <2>2
  <2> QED
    BY <1>0, <2>1, <2>3 DEF Untold
<1>6. CASE StartFails \/ (\E s \in Slot : TellDone(s))
  <2>1. PICK t \in Slot, st \in Status :
           /\ cur = None /\ cur' = t /\ Held(t)
           /\ outcome' = [outcome EXCEPT ![reqId[t]] = st]
           /\ UNCHANGED <<queue, pending, xfer, reqId, nextId>>
    <3>1. CASE StartFails
      <4>1. pending # <<>> /\ pending \in Seq(Slot)
        BY <3>1 DEF StartFails
      <4>2. Top(pending) \in Slot /\ Top(pending) \in Elements(pending)
        BY <4>1, PopFacts
      <4> QED
        BY <3>1, <4>2 DEF StartFails, Tell, Status, AboutToRelease, mainVars, poolVars
    <3>2. CASE \E s \in Slot : TellDone(s)
      BY <3>2 DEF TellDone, Tell, DoneStatus, Status, AboutToRelease, mainVars, poolVars
    <3> QED
      BY <1>6, <3>1, <3>2
  <2>2. t # cur /\ reqId[t] \in Id /\ outcome[reqId[t]] = "none"
    BY <1>0, <2>1, SlotFacts
  <2>3. reqId[t] < nextId /\ \A s \in Slot : s # t => reqId[s] # reqId[t]
    BY <2>2, SlotFacts DEF IdsInOrder, DistinctIds
  <2>4. \A s \in Slot : s # cur' /\ Held(s)' =>
          reqId'[s] \in Id /\ outcome'[reqId'[s]] = "none"
    BY <1>0, <2>1, <2>3, SlotFacts
  <2>5. \A i \in Id : i >= nextId' => outcome'[i] = "none"
    BY <1>0, <2>1, <2>2, <2>3 DEF Id
  <2> QED
    BY <2>4, <2>5 DEF Untold
<1>7. CASE StartFailsRelease
  <2>1. /\ UNCHANGED <<queue, xfer, outcome, reqId, nextId>>
        /\ pending # <<>> /\ pending' = Pop(pending) /\ cur = Top(pending)
        /\ cur' = None
    BY <1>7 DEF StartFailsRelease, AboutToRelease, mainVars
  <2>2. /\ Elements(pending) = Elements(pending') \cup {cur}
        /\ cur \notin Elements(pending') /\ cur \in Slot
    BY <2>1, PopFacts DEF Ownership
  <2>3. \A s \in Slot : Held(s)' => Held(s) /\ s # cur
    BY <2>1, <2>2 DEF Ownership
  <2> QED
    BY <1>0, <2>1, <2>3 DEF Untold
<1>8. CASE Perform \/ (\E s \in Slot : TransferEnds(s))
  <2>1. /\ UNCHANGED <<queue, pending, cur, outcome, reqId, nextId>>
        /\ \A s \in Slot : xfer'[s] # "idle" => xfer[s] # "idle"
    BY <1>8 DEF Perform, TransferEnds, mainVars, poolVars, netVars
  <2> QED
    BY <1>0, <2>1 DEF Untold
<1>9. CASE DoneRelease
  <2>1. /\ UNCHANGED <<queue, pending, outcome, reqId, nextId>>
        /\ cur \in Slot /\ xfer[cur] # "idle" /\ cur' = None
        /\ xfer' = [xfer EXCEPT ![cur] = "idle"]
    BY <1>9 DEF DoneRelease, AboutToRelease, mainVars
  <2>2. \A s \in Slot : Held(s)' => Held(s) /\ s # cur
    BY <2>1 DEF Ownership
  <2> QED
    BY <1>0, <2>1, <2>2 DEF Untold
<1> QED
  BY <1>1, <1>2, <1>3, <1>4, <1>5, <1>6, <1>7, <1>8, <1>9
     DEF Next, MainStep, NetThreadStep, BeginDownload, ProbeSlot, Cancel, Relock, Wake, EndOfLoop,
         DrainEnd, mainVars, poolVars, netVars

-----------------------------------------------------------------------------
(* The theorems.                                                             *)

\* The inductive invariant holds in every reachable state.
THEOREM InductiveInvariant == Spec => []IInv
<1>1. Init => IInv
  BY InitIInv
<1>2. IInv /\ [Next]_vars => IInv'
  <2> SUFFICES ASSUME IInv, [Next]_vars PROVE IInv'
    OBVIOUS
  <2>1. CASE Next
    BY <2>1, PoolStep, MainStepInv, WakeupStep, UntoldStep DEF IInv
  <2>2. CASE UNCHANGED vars
    BY <2>2 DEF vars, mainVars, poolVars, netVars, IInv, PoolInv, TypeOK, MainProgress,
                Ownership, AboutToRelease, IdsInOrder, DistinctIds, NoLostWakeup, RoomAhead, Distance,
                SearchSucceeds, Untold
  <2> QED
    BY <2>1, <2>2
<1> QED
  BY <1>1, <1>2, PTL DEF Spec

\* Type correctness of the worker's state, the bound of nextId included: no
\* index that main or the thread uses is outside the pool.
THEOREM TypeCorrect == Spec => []TypeOK
<1>1. IInv => TypeOK
  BY DEF IInv, PoolInv
<1> QED
  BY <1>1, InductiveInvariant, PTL

\* A slot is handled by one place at a time, and never while it is free.
THEOREM SlotsAreOwned == Spec => []SlotOwnership
<1>1. IInv => SlotOwnership
  BY DEF IInv, PoolInv, Ownership, SlotOwnership, Holders
<1> QED
  BY <1>1, InductiveInvariant, PTL

\* Requests under way have different ids.
THEOREM IdsAreDistinct == Spec => []DistinctIds
<1>1. IInv => DistinctIds
  BY DEF IInv, PoolInv
<1> QED
  BY <1>1, InductiveInvariant, PTL

\* The thread does not sleep over a queued request.
THEOREM WakeupsArrive == Spec => []NoLostWakeup
<1>1. IInv => NoLostWakeup
  BY DEF IInv, PoolInv
<1> QED
  BY <1>1, InductiveInvariant, PTL

\* A caller that saw room gets a slot, however large the pool.
THEOREM SearchFinds == Spec => []SearchSucceeds
<1>1. IInv => SearchSucceeds
  BY DEF IInv, PoolInv
<1> QED
  BY <1>1, InductiveInvariant, PTL

\* on_finished_func is told at most once of a request, before its slot is given
\* back.
THEOREM ClientsAreToldOnce == Spec => ToldOnce
<1> DEFINE Once == \A i \in Id : outcome'[i] # outcome[i] =>
                     /\ outcome[i] = "none"
                     /\ \E s \in Slot : used[s] /\ used'[s] /\ reqId[s] = i
<1>1. IInv /\ [Next]_vars => [Once]_vars
  <2> SUFFICES ASSUME IInv, Next PROVE Once
    OBVIOUS
  <2> USE DEF IInv, PoolInv, TypeOK
  <2>1. CASE UNCHANGED outcome
    BY <2>1
  <2>2. CASE StartFails \/ (\E s \in Slot : TellDone(s))
    <3>1. PICK t \in Slot, st \in Status :
             /\ t # cur /\ used[t]
             /\ t \in Elements(pending) \/ xfer[t] # "idle"
             /\ outcome' = [outcome EXCEPT ![reqId[t]] = st]
             /\ UNCHANGED used
      <4>1. CASE StartFails
        <5>1. pending # <<>> /\ pending \in Seq(Slot)
          BY <4>1 DEF StartFails
        <5>2. Top(pending) \in Slot /\ Top(pending) \in Elements(pending)
          BY <5>1, PopFacts
        <5> QED
          BY <4>1, <5>2, SlotFacts DEF StartFails, Tell, Status, AboutToRelease, Ownership, mainVars, poolVars
      <4>2. CASE \E s \in Slot : TellDone(s)
        BY <4>2, SlotFacts DEF TellDone, Tell, DoneStatus, Status, AboutToRelease, Ownership, mainVars, poolVars
      <4> QED
        BY <2>2, <4>1, <4>2
    <3>2. outcome[reqId[t]] = "none"
      BY <3>1 DEF Untold
    <3>3. \A i \in Id : outcome'[i] # outcome[i] => i = reqId[t]
      BY <3>1
    <3> QED
      BY <3>1, <3>2, <3>3
  <2> QED
    BY <2>1, <2>2
       DEF Next, MainStep, NetThreadStep, BeginDownload, ProbeSlot, Push, Cancel, Relock, Wake,
           DrainOne, DrainEnd, OpenFails, StartTransfer, StartFailsRelease, Perform, DoneRelease,
           EndOfLoop, TransferEnds, netVars
<1>2. Spec => [][Once]_vars
  BY <1>1, InductiveInvariant, PTL DEF Spec
<1> QED
  BY <1>2 DEF ToldOnce
=============================================================================
