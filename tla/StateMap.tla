------------------------------ MODULE StateMap ------------------------------
(***************************************************************************)
(* What the learning-state store of klappt promises the screens: a durable *)
(* map from word ids to learning states. Every call is atomic, a call that *)
(* returns false changed nothing, and the due words come out in the order  *)
(* in which they fell due. States.tla (LMDB) is shown to implement it.     *)
(***************************************************************************)
EXTENDS Integers, Sequences

CONSTANTS
  WordId,      \* numbers: LMDB orders keys by their bytes, most significant first
  State,       \* records with a field `due`
  NoState,     \* of a word without a state
  Now,         \* the clock values with which due words are collected
  Limit        \* the limits asked for, 0 for none

VARIABLES
  map,         \* [WordId -> State \cup {NoState}]
  ret          \* the call that returned last, with its result

DueOf(s) == IF s.due < 0 THEN 0 ELSE s.due       \* std::max<Timestamp>(0, due)

\* One word's turn comes before another's.
Earlier(m, v, w) ==
  \/ DueOf(m[v]) < DueOf(m[w])
  \/ DueOf(m[v]) = DueOf(m[w]) /\ v < w

IsDue(m, w, now) == m[w] # NoState /\ DueOf(m[w]) <= now

\* q lists words of m that are due, each once, earliest first; a due word is
\* missing only when q reached the limit, and then it comes after all of q.
IsDueList(q, m, now, limit) ==
  /\ \A i \in DOMAIN q : IsDue(m, q[i], now)
  /\ \A i, j \in DOMAIN q : i < j => Earlier(m, q[i], q[j])
  /\ \A w \in WordId : IsDue(m, w, now) =>
       \/ \E i \in DOMAIN q : q[i] = w
       \/ /\ limit > 0 /\ Len(q) = limit
          /\ \A i \in DOMAIN q : Earlier(m, q[i], w)

Idle == [op |-> "none", ok |-> TRUE]

Init == map = [w \in WordId |-> NoState] /\ ret = Idle

Get(w) ==
  /\ ret' = [op |-> "get", word |-> w, ok |-> TRUE, state |-> map[w]]
  /\ UNCHANGED map

Set(w, s) ==
  /\ map' = [map EXCEPT ![w] = s]
  /\ ret' = [op |-> "set", word |-> w, ok |-> TRUE]

Erase(w) ==
  /\ map' = [map EXCEPT ![w] = NoState]
  /\ ret' = [op |-> "erase", word |-> w, ok |-> TRUE]

CollectDue(now, limit) ==
  /\ ret'.op = "due" /\ ret'.ok
  /\ IsDueList(ret'.words, map, now, limit)
  /\ UNCHANGED map

\* A call fails, or the process is restarted: the map is what it was.
Fail ==
  /\ ~ret'.ok
  /\ UNCHANGED map

Restart == ret' = Idle /\ UNCHANGED map

Next ==
  \/ \E w \in WordId : Get(w) \/ Erase(w)
  \/ \E w \in WordId, s \in State : Set(w, s)
  \/ \E now \in Now, limit \in Limit : CollectDue(now, limit)
  \/ Fail
  \/ Restart

Spec == Init /\ [][Next]_<<map, ret>>
=============================================================================
