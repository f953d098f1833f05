------------------------------- MODULE States -------------------------------
(***************************************************************************)
(* Engine::States of klappt on LMDB (domain/engine.cpp): a database of     *)
(* learning states by word id and a second one, ordered by due time, that  *)
(* indexes it. Each call is one LMDB transaction of several steps, any of  *)
(* which may fail and abort it, and the process may be killed at any step. *)
(*                                                                         *)
(* LMDB is external: a write transaction works on copies that replace the  *)
(* databases at commit, a read transaction on the committed databases.     *)
(***************************************************************************)
EXTENDS Integers, Sequences

CONSTANTS
  WordId,      \* 64-bit ids, big-endian as keys: ordered as numbers
  Due,         \* the due times a caller may put in a state
  Body,        \* what else a state holds
  NoState,     \* mdb_get answers MDB_NOTFOUND
  Now,         \* clock values passed to collect_due
  Limit        \* limits passed to collect_due, 0 for none

State == [due : Due, body : Body]

ASSUME StatesAssumption ==
  /\ WordId \subseteq Nat /\ Due \subseteq Int /\ Now \subseteq Nat
  /\ Limit \subseteq Nat
  /\ NoState \notin State

VARIABLES
  isOpen,      \* env is not null
  db,          \* the committed state database
  index,       \* the committed due database, a set of <<due, id>> keys
  txn,         \* the open transaction
  wdb, windex, \* its working copies
  dst,         \* words collect_due has pushed
  ret          \* the call that returned last, with its result

stores == <<db, index>>
vars == <<isOpen, db, index, txn, wdb, windex, dst, ret>>

NoTxn == [kind |-> "none"]
Idle  == [op |-> "none", ok |-> TRUE]

Init ==
  /\ isOpen = FALSE
  /\ db = [w \in WordId |-> NoState] /\ index = {}
  /\ txn = NoTxn
  /\ wdb = db /\ windex = index
  /\ dst = <<>> /\ ret = Idle

\* due_key_from: the key of a state in the due database.
DueKeyNoId(w, s) == <<IF s.due < 0 THEN 0 ELSE s.due, 0>>    \* mutant of DueKey
DueKey(w, s) == <<IF s.due < 0 THEN 0 ELSE s.due, w>>

\* The order of keys, that of their bytes.
Before(k, l) == k[1] < l[1] \/ (k[1] = l[1] /\ k[2] < l[2])

-----------------------------------------------------------------------------
\* States::open closes what was open; it makes the two databases if they do
\* not exist. A failing step closes the environment again.
Open ==
  /\ txn = NoTxn
  /\ isOpen' \in BOOLEAN
  /\ UNCHANGED <<stores, txn, wdb, windex, dst, ret>>

Close ==
  /\ txn = NoTxn /\ isOpen
  /\ isOpen' = FALSE
  /\ UNCHANGED <<stores, txn, wdb, windex, dst, ret>>

Ready == isOpen /\ txn = NoTxn

\* The end of a call: its transaction and its copies are gone, it returns r.
Return(r) ==
  /\ txn' = NoTxn /\ wdb' = db' /\ windex' = index' /\ dst' = <<>>
  /\ ret' = r

\* States::get: a read transaction of one step.
Get(w) ==
  /\ Ready
  /\ ret' = [op |-> "get", word |-> w, ok |-> TRUE, state |-> db[w]]
  /\ UNCHANGED <<isOpen, stores, txn, wdb, windex, dst>>

\* States::set and States::erase begin a write transaction.
BeginWrite(t) ==
  /\ Ready
  /\ txn' = t
  /\ wdb' = db /\ windex' = index
  /\ UNCHANGED <<isOpen, stores, dst, ret>>

Set(w, s) == BeginWrite([kind |-> "set", at |-> "readOld", word |-> w, state |-> s])
Erase(w)  == BeginWrite([kind |-> "erase", at |-> "readOld", word |-> w])

At(kind, pc) == txn.kind = kind /\ txn.at = pc
Goto(pc) == txn' = [txn EXCEPT !.at = pc]

\* The old state is read for its due time. Without one there is no key to
\* delete, and nothing to erase.
ReadOldFound ==
  /\ txn.kind \in {"set", "erase"} /\ txn.at = "readOld"
  /\ wdb[txn.word] # NoState
  /\ Goto("delDue")
  /\ UNCHANGED <<isOpen, stores, wdb, windex, dst, ret>>

SetOfNewWord ==
  /\ At("set", "readOld")
  /\ wdb[txn.word] = NoState
  /\ Goto("putState")
  /\ UNCHANGED <<isOpen, stores, wdb, windex, dst, ret>>

EraseOfNothing ==
  /\ At("erase", "readOld")
  /\ wdb[txn.word] = NoState
  /\ UNCHANGED <<isOpen, stores>>
  /\ Return([op |-> "erase", word |-> txn.word, ok |-> TRUE])

\* mdb_del of the old due key; a key that is not there is no error.
OldKeyKept == windex                                      \* mutant of OldKeyGone
OldKeyGone == windex \ {DueKey(txn.word, wdb[txn.word])}

DelOldDue ==
  /\ txn.kind \in {"set", "erase"} /\ txn.at = "delDue"
  /\ windex' = OldKeyGone
  /\ Goto(IF txn.kind = "set" THEN "putState" ELSE "delState")
  /\ UNCHANGED <<isOpen, stores, wdb, dst, ret>>

PutState ==
  /\ At("set", "putState")
  /\ wdb' = [wdb EXCEPT ![txn.word] = txn.state]
  /\ Goto("putDue")
  /\ UNCHANGED <<isOpen, stores, windex, dst, ret>>

PutDue ==
  /\ At("set", "putDue")
  /\ windex' = windex \cup {DueKey(txn.word, txn.state)}
  /\ Goto("commit")
  /\ UNCHANGED <<isOpen, stores, wdb, dst, ret>>

DelState ==
  /\ At("erase", "delState")
  /\ wdb' = [wdb EXCEPT ![txn.word] = NoState]
  /\ Goto("commit")
  /\ UNCHANGED <<isOpen, stores, windex, dst, ret>>

Commit ==
  /\ txn.kind \in {"set", "erase"} /\ txn.at = "commit"
  /\ db' = wdb /\ index' = windex
  /\ UNCHANGED isOpen
  /\ Return([op |-> txn.kind, word |-> txn.word, ok |-> TRUE])

\* Mutant of TxnFails: what was written so far is committed on a failure.
TxnFailsCommitted ==
  /\ txn # NoTxn
  /\ db' = wdb /\ index' = windex
  /\ UNCHANGED isOpen
  /\ Return([op |-> txn.kind, ok |-> FALSE])

\* Any LMDB call of a transaction may fail, and so may a payload of the wrong
\* size: the transaction is aborted and the call returns false.
TxnFails ==
  /\ txn # NoTxn
  /\ UNCHANGED <<isOpen, stores>>
  /\ Return([op |-> txn.kind, ok |-> FALSE])

\* mdb_txn_begin of a get fails.
GetFails ==
  /\ Ready
  /\ ret' = [op |-> "get", ok |-> FALSE]
  /\ UNCHANGED <<isOpen, stores, txn, wdb, windex, dst>>

-----------------------------------------------------------------------------
\* States::collect_due walks the due database with a cursor; `seen` holds the
\* keys the cursor has passed.
CollectDue(now, limit) ==
  /\ Ready
  /\ txn' = [kind |-> "due", now |-> now, limit |-> limit, seen |-> {}]
  /\ dst' = <<>>
  /\ UNCHANGED <<isOpen, stores, wdb, windex, ret>>

\* The key under the cursor: MDB_FIRST, then MDB_NEXT.
UnderCursor(k) ==
  /\ k \in index \ txn.seen
  /\ \A l \in index \ txn.seen : k = l \/ Before(k, l)

LimitReached == txn.limit > 0 /\ Len(dst) >= txn.limit

PushDue(k) ==
  /\ txn.kind = "due" /\ UnderCursor(k)
  /\ ~LimitReached /\ k[1] <= txn.now
  /\ dst' = Append(dst, k[2])
  /\ txn' = [txn EXCEPT !.seen = @ \cup {k}]
  /\ UNCHANGED <<isOpen, stores, wdb, windex, ret>>

CollectDone ==
  /\ txn.kind = "due"
  /\ \A k \in index : UnderCursor(k) => LimitReached \/ k[1] > txn.now
  /\ UNCHANGED <<isOpen, stores>>
  /\ Return([op |-> "due", ok |-> TRUE, words |-> dst])

-----------------------------------------------------------------------------
\* The process is killed; LMDB keeps what was committed.
Crash ==
  /\ isOpen' = FALSE
  /\ txn' = NoTxn /\ wdb' = db /\ windex' = index
  /\ dst' = <<>> /\ ret' = Idle
  /\ UNCHANGED stores

Next ==
  \/ Open \/ Close
  \/ \E w \in WordId : Get(w) \/ Erase(w)
  \/ \E w \in WordId, s \in State : Set(w, s)
  \/ ReadOldFound \/ SetOfNewWord \/ EraseOfNothing \/ DelOldDue
  \/ PutState \/ PutDue \/ DelState \/ Commit
  \/ TxnFails \/ GetFails
  \/ \E now \in Now, limit \in Limit : CollectDue(now, limit)
  \/ \E k \in index : PushDue(k)
  \/ CollectDone
  \/ Crash

Spec == Init /\ [][Next]_vars

-----------------------------------------------------------------------------
SetTxn ==
  [kind : {"set"}, at : {"readOld", "delDue", "putState", "putDue", "commit"},
   word : WordId, state : State]
EraseTxn ==
  [kind : {"erase"}, at : {"readOld", "delDue", "delState", "commit"}, word : WordId]
DueTxn ==
  [kind : {"due"}, now : Now, limit : Limit, seen : SUBSET (Nat \X WordId)]

TypeOK ==
  /\ isOpen \in BOOLEAN
  /\ db \in [WordId -> State \cup {NoState}]
  /\ wdb \in [WordId -> State \cup {NoState}]
  /\ index \subseteq Nat \X WordId
  /\ windex \subseteq Nat \X WordId
  /\ txn \in {NoTxn} \cup SetTxn \cup EraseTxn \cup DueTxn
  /\ dst \in Seq(WordId)

\* The due database that a state database calls for.
IndexOf(d) == {DueKey(w, d[w]) : w \in {v \in WordId : d[v] # NoState}}

\* The due database always holds exactly one key for each state, the one of
\* its due time, whatever failed or crashed in between: no word is scheduled
\* twice, or forgotten.
IndexMatches == index = IndexOf(db)

\* Every call behaves as one step of the abstract map: set and erase happen
\* completely or, when they return false, not at all; collect_due returns the
\* due words of the map, earliest first, up to its limit.
Map == INSTANCE StateMap WITH map <- db
MapSpec == Map!Spec

\* The comment in States::erase: "if a state exists -- its due is not 0, so
\* due_key should exist".
DueIsNotZero == \A w \in WordId : db[w] # NoState => db[w].due # 0
=============================================================================
