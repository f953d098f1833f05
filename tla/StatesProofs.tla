---------------------------- MODULE StatesProofs ----------------------------
(***************************************************************************)
(* Proofs about States, for every set of word ids, due times and state     *)
(* contents: the due database indexes the state database, and the store    *)
(* implements the abstract map StateMap.                                   *)
(*                                                                         *)
(* IInv is the inductive invariant. WriteInv says what the working copies  *)
(* of a write transaction hold at each of its steps; CursorInv what        *)
(* collect_due has pushed when its cursor has passed the keys `seen`.      *)
(***************************************************************************)
EXTENDS States, TLAPS, WellFoundedInduction

Stores == [WordId -> State \cup {NoState}]

\* The index of store d without word w's key.
Without(d, w) == IndexOf([d EXCEPT ![w] = NoState])

WriteInv ==
  /\ txn.kind \in {"set", "erase"} =>
       /\ txn.at = "readOld" => wdb = db /\ windex = IndexOf(db)
       /\ txn.at = "delDue" =>
            wdb = db /\ windex = IndexOf(db) /\ db[txn.word] # NoState
  /\ txn.kind = "set" =>
       /\ txn.at = "putState" => wdb = db /\ windex = Without(db, txn.word)
       /\ txn.at = "putDue" =>
            /\ wdb = [db EXCEPT ![txn.word] = txn.state]
            /\ windex = Without(db, txn.word)
       /\ txn.at = "commit" =>
            /\ wdb = [db EXCEPT ![txn.word] = txn.state]
            /\ windex = IndexOf(wdb)
  /\ txn.kind = "erase" =>
       /\ txn.at = "delState" => wdb = db /\ windex = Without(db, txn.word)
       /\ txn.at = "commit" =>
            /\ wdb = [db EXCEPT ![txn.word] = NoState]
            /\ windex = IndexOf(wdb)

KeyOf(w) == DueKey(w, db[w])

CursorInv ==
  txn.kind = "due" =>
    /\ txn.seen \subseteq index
    /\ \A i \in DOMAIN dst : db[dst[i]] # NoState /\ KeyOf(dst[i]) \in txn.seen
    /\ \A k \in txn.seen : k[1] <= txn.now /\ \E i \in DOMAIN dst : dst[i] = k[2]
    /\ \A i, j \in DOMAIN dst : i < j => Before(KeyOf(dst[i]), KeyOf(dst[j]))
    /\ \A k \in txn.seen, l \in index \ txn.seen : Before(k, l)
    /\ txn.limit > 0 => Len(dst) <= txn.limit

IInv == TypeOK /\ IndexMatches /\ WriteInv /\ CursorInv

-----------------------------------------------------------------------------
(* The due keys (due_key_from).                                              *)

\* A key is a natural due time with the word's id: two words never share one.
LEMMA KeyFacts ==
  ASSUME NEW w \in WordId, NEW s \in State
  PROVE  /\ DueKey(w, s) \in Nat \X WordId
         /\ DueKey(w, s)[1] = Map!DueOf(s)
         /\ DueKey(w, s)[2] = w
<1>1. s.due \in Int
  BY StatesAssumption DEF State
<1>2. Map!DueOf(s) \in Nat
  BY <1>1 DEF Map!DueOf
<1>3. DueKey(w, s) = <<Map!DueOf(s), w>>
  BY DEF DueKey, Map!DueOf
<1> QED
  BY <1>2, <1>3

\* Every key of the index is the key of a word that has a state.
LEMMA IndexFacts ==
  ASSUME NEW d \in Stores
  PROVE  /\ IndexOf(d) \subseteq Nat \X WordId
         /\ \A k \in IndexOf(d) : d[k[2]] # NoState /\ k = DueKey(k[2], d[k[2]])
         /\ \A w \in WordId : d[w] # NoState => DueKey(w, d[w]) \in IndexOf(d)
<1>1. \A w \in WordId : d[w] # NoState => d[w] \in State
  BY DEF Stores
<1>2. \A w \in WordId : d[w] # NoState =>
        DueKey(w, d[w]) \in Nat \X WordId /\ DueKey(w, d[w])[2] = w
  BY <1>1, KeyFacts
<1> QED
  BY <1>2 DEF IndexOf

\* mdb_del of the old key leaves the keys of the other words.
LEMMA IndexDelete ==
  ASSUME NEW d \in Stores, NEW w \in WordId, d[w] # NoState
  PROVE  IndexOf(d) \ {DueKey(w, d[w])} = Without(d, w)
<1> DEFINE e == [d EXCEPT ![w] = NoState]
<1>1. e \in Stores /\ e[w] = NoState /\ \A v \in WordId \ {w} : e[v] = d[v]
  BY DEF Stores
<1>2. \A v \in WordId \ {w} : d[v] # NoState => DueKey(v, d[v]) # DueKey(w, d[w])
  <2>1. \A v \in WordId : d[v] # NoState => DueKey(v, d[v])[2] = v
    BY KeyFacts DEF Stores
  <2> QED
    BY <2>1
<1> HIDE DEF e
<1>3. \A k : k \in IndexOf(d) \ {DueKey(w, d[w])} <=> k \in IndexOf(e)
  BY <1>1, <1>2 DEF IndexOf
<1> QED
  BY <1>3 DEF Without, e

\* A word without a state has no key to delete.
LEMMA IndexOfAbsent ==
  ASSUME NEW d \in Stores, NEW w \in WordId, d[w] = NoState
  PROVE  IndexOf(d) = Without(d, w)
<1>1. [d EXCEPT ![w] = NoState] = d
  BY DEF Stores
<1> QED
  BY <1>1 DEF Without

\* mdb_put of the new key completes the index of the new store.
LEMMA IndexPut ==
  ASSUME NEW d \in Stores, NEW w \in WordId, NEW s \in State
  PROVE  Without(d, w) \cup {DueKey(w, s)} = IndexOf([d EXCEPT ![w] = s])
<1> DEFINE e == [d EXCEPT ![w] = NoState]
           f == [d EXCEPT ![w] = s]
<1>1. /\ e \in Stores /\ f \in Stores /\ e[w] = NoState /\ f[w] = s
      /\ \A v \in WordId \ {w} : e[v] = d[v] /\ f[v] = d[v]
  BY DEF Stores
<1>2. s # NoState
  BY StatesAssumption
<1> HIDE DEF e, f
<1>3. \A k : k \in IndexOf(e) \cup {DueKey(w, s)} <=> k \in IndexOf(f)
  BY <1>1, <1>2 DEF IndexOf
<1> QED
  BY <1>3 DEF Without, e, f

-----------------------------------------------------------------------------
(* The order of the cursor.                                                  *)

LessThan == OpToRel(<, Nat)

LEMMA LessThanWF == IsWellFoundedOn(LessThan, Nat)
BY NatLessThanWellFounded DEF LessThan

LEMMA LessThanIs == \A x, y \in Nat : y < x => <<y, x>> \in LessThan
BY DEF LessThan, OpToRel

\* A set of naturals that is not empty has a least element.
LEMMA NatMin ==
  ASSUME NEW T, T \subseteq Nat, T # {}
  PROVE  \E x \in T : \A y \in T : x <= y
<1>1. \E x \in T : \A y \in T : ~ (<<y, x>> \in LessThan)
  BY LessThanWF, WFMin
<1>2. PICK x \in T : \A y \in T : ~ (<<y, x>> \in LessThan)
  BY <1>1
<1>3. \A y \in T : x <= y
  <2> TAKE y \in T
  <2>1. x \in Nat /\ y \in Nat
    OBVIOUS
  <2>2. <<y, x>> \notin LessThan
    BY <1>2
  <2>3. ~ (y < x)
    BY <2>1, <2>2, LessThanIs, Zenon
  <2> QED
    BY <2>1, <2>3
<1> QED
  BY <1>3

\* The cursor stands on some key as long as one is left: MDB_FIRST and
\* MDB_NEXT find the least.
LEMMA LeastKey ==
  ASSUME NEW K, K \subseteq Nat \X WordId, K # {}
  PROVE  \E k \in K : \A l \in K : k = l \/ Before(k, l)
<1>1. \A k \in K : k[1] \in Nat /\ k[2] \in WordId /\ k = <<k[1], k[2]>>
  OBVIOUS
<1>2. PICK d \in {k[1] : k \in K} : \A e \in {k[1] : k \in K} : d <= e
  <2> DEFINE T == {k[1] : k \in K}
  <2>1. T \subseteq Nat /\ T # {}
    BY <1>1
  <2> HIDE DEF T
  <2>2. \E x \in T : \A y \in T : x <= y
    BY <2>1, NatMin
  <2> QED
    BY <2>2 DEF T
<1>3. PICK i \in {k[2] : k \in {l \in K : l[1] = d}} :
        \A j \in {k[2] : k \in {l \in K : l[1] = d}} : i <= j
  <2> DEFINE T == {k[2] : k \in {l \in K : l[1] = d}}
  <2>1. T \subseteq Nat /\ T # {}
    BY <1>1, <1>2, StatesAssumption
  <2> HIDE DEF T
  <2>2. \E x \in T : \A y \in T : x <= y
    BY <2>1, NatMin
  <2> QED
    BY <2>2 DEF T
<1>4. <<d, i>> \in K
  BY <1>1, <1>3
<1>5. \A l \in K : <<d, i>> = l \/ Before(<<d, i>>, l)
  <2> TAKE l \in K
  <2>1. d \in Nat /\ i \in Nat /\ l[1] \in Nat /\ l[2] \in Nat /\ l = <<l[1], l[2]>>
    BY <1>1, <1>4, StatesAssumption
  <2>2. d <= l[1]
    BY <1>2
  <2>3. l[1] = d => i <= l[2]
    BY <1>3
  <2> QED
    BY <2>1, <2>2, <2>3 DEF Before
<1> QED
  BY <1>4, <1>5
-----------------------------------------------------------------------------
(* The inductive invariant.                                                  *)

LEMMA InitIInv == Init => IInv
<1> SUFFICES ASSUME Init PROVE IInv
  OBVIOUS
<1>1. TypeOK
  <2>1. db \in [WordId -> State \cup {NoState}] /\ wdb = db
    BY DEF Init
  <2>2. index = {} /\ windex = {} /\ txn = NoTxn /\ dst = <<>> /\ isOpen = FALSE
    BY DEF Init
  <2>3. txn \in {NoTxn} \cup SetTxn \cup EraseTxn \cup DueTxn
    BY <2>2, Zenon
  <2>4. dst \in Seq(WordId) /\ index \subseteq Nat \X WordId /\ windex \subseteq Nat \X WordId
    BY <2>2
  <2> QED
    BY <2>1, <2>2, <2>3, <2>4 DEF TypeOK
<1>2. IndexMatches
  BY DEF Init, IndexMatches, IndexOf
<1>3. WriteInv /\ CursorInv
  BY DEF Init, WriteInv, CursorInv, NoTxn
<1> QED
  BY <1>1, <1>2, <1>3 DEF IInv

\* The forms a transaction has.
LEMMA TxnForms ==
  ASSUME TypeOK
  PROVE  /\ txn.kind \in {"none", "set", "erase", "due"}
         /\ txn = NoTxn <=> txn.kind = "none"
         /\ txn.kind = "set" => txn \in SetTxn
         /\ txn.kind = "erase" => txn \in EraseTxn
         /\ txn.kind = "due" => txn \in DueTxn
         /\ txn.kind \in {"set", "erase"} => txn.word \in WordId
BY DEF TypeOK, NoTxn, SetTxn, EraseTxn, DueTxn

\* A call that is between transactions leaves the invariant alone.
LEMMA QuietIInv ==
  ASSUME IInv, UNCHANGED <<stores, txn, wdb, windex, dst>>, isOpen' \in BOOLEAN
  PROVE  IInv'
<1>1. TypeOK' /\ IndexMatches'
  BY DEF IInv, TypeOK, IndexMatches, stores
<1>2. WriteInv' /\ CursorInv'
  BY DEF IInv, WriteInv, CursorInv, KeyOf, stores
<1> QED
  BY <1>1, <1>2 DEF IInv

\* So does the end of a call that committed nothing, and a crash.
LEMMA EndIInv ==
  ASSUME IInv, UNCHANGED stores, isOpen' \in BOOLEAN,
         txn' = NoTxn, wdb' = db', windex' = index', dst' = <<>>
  PROVE  IInv'
<1>1. TypeOK' /\ IndexMatches'
  BY DEF IInv, TypeOK, IndexMatches, stores
<1>2. WriteInv' /\ CursorInv'
  BY DEF WriteInv, CursorInv, NoTxn
<1> QED
  BY <1>1, <1>2 DEF IInv

\* And so does the start of a write transaction.
LEMMA BeginIInv ==
  ASSUME IInv, NEW t \in SetTxn \cup EraseTxn, t.at = "readOld", BeginWrite(t)
  PROVE  IInv'
<1>1. t.kind \in {"set", "erase"}
  BY DEF SetTxn, EraseTxn
<1>2. TypeOK'
  BY DEF IInv, TypeOK, BeginWrite, stores
<1>3. IndexMatches'
  BY DEF IInv, IndexMatches, BeginWrite, stores
<1>4. WriteInv'
  BY DEF IInv, IndexMatches, WriteInv, BeginWrite, stores
<1>5. CursorInv'
  BY <1>1 DEF CursorInv, BeginWrite
<1> QED
  BY <1>2, <1>3, <1>4, <1>5 DEF IInv

\* The steps of a write transaction.
LEMMA ReadIInv ==
  ASSUME IInv, ReadOldFound \/ SetOfNewWord
  PROVE  IInv'
<1>t. TypeOK /\ txn.kind \in {"set", "erase"} /\ txn.word \in WordId
  BY TxnForms DEF IInv, ReadOldFound, SetOfNewWord, At
<1>u. UNCHANGED <<isOpen, stores, wdb, windex, dst>>
  BY DEF ReadOldFound, SetOfNewWord
<1>1. txn'.kind = txn.kind /\ txn' \in SetTxn \cup EraseTxn
  BY <1>t, TxnForms DEF ReadOldFound, SetOfNewWord, Goto, At, SetTxn, EraseTxn
<1>2. TypeOK' /\ IndexMatches'
  BY <1>1, <1>u DEF IInv, TypeOK, IndexMatches, stores
<1>3. CursorInv'
  BY <1>1, <1>t DEF CursorInv
<1>4. WriteInv'
  <2>1. CASE ReadOldFound
    <3>1. txn' = [txn EXCEPT !.at = "delDue"] /\ txn.at = "readOld" /\ wdb[txn.word] # NoState
      BY <2>1 DEF ReadOldFound, Goto
    <3>2. txn'.at = "delDue" /\ txn'.word = txn.word
      BY <3>1, <1>t, TxnForms DEF SetTxn, EraseTxn
    <3> QED
      BY <3>1, <3>2, <1>1, <1>u, <1>t DEF IInv, WriteInv, stores
  <2>2. CASE SetOfNewWord
    <3>1. /\ txn' = [txn EXCEPT !.at = "putState"] /\ txn.kind = "set"
          /\ txn.at = "readOld" /\ wdb[txn.word] = NoState
      BY <2>2 DEF SetOfNewWord, Goto, At
    <3>2. txn'.at = "putState" /\ txn'.word = txn.word
      BY <3>1, <1>t, TxnForms DEF SetTxn
    <3>3. wdb = db /\ windex = IndexOf(db) /\ db \in Stores
      BY <3>1, <1>t DEF IInv, WriteInv, TypeOK, Stores
    <3>4. windex = Without(db, txn.word)
      BY <3>1, <3>3, <1>t, IndexOfAbsent
    <3> QED
      BY <3>1, <3>2, <3>3, <3>4, <1>1, <1>u DEF WriteInv, stores
  <2> QED
    BY <2>1, <2>2
<1> QED
  BY <1>2, <1>3, <1>4 DEF IInv

LEMMA DelOldDueIInv ==
  ASSUME IInv, DelOldDue
  PROVE  IInv'
<1>t. /\ TypeOK /\ txn.kind \in {"set", "erase"} /\ txn.word \in WordId
      /\ txn.at = "delDue"
  BY TxnForms DEF IInv, DelOldDue
<1>1. /\ txn' = [txn EXCEPT !.at = IF txn.kind = "set" THEN "putState" ELSE "delState"]
      /\ UNCHANGED <<isOpen, stores, wdb, dst>>
  BY DEF DelOldDue, Goto
<1>2. /\ txn'.kind = txn.kind /\ txn'.word = txn.word
      /\ txn.kind = "set" => txn'.at = "putState" /\ txn' \in SetTxn
      /\ txn.kind = "erase" => txn'.at = "delState" /\ txn' \in EraseTxn
  BY <1>1, <1>t, TxnForms DEF SetTxn, EraseTxn
<1>3. wdb = db /\ windex = IndexOf(db) /\ db \in Stores /\ db[txn.word] # NoState
  BY <1>t DEF IInv, WriteInv, TypeOK, Stores
<1>4. windex' = Without(db, txn.word)
  BY <1>3, <1>t, IndexDelete DEF DelOldDue, OldKeyGone
<1>5. TypeOK' /\ IndexMatches'
  BY <1>1, <1>2, <1>t DEF IInv, TypeOK, IndexMatches, stores, DelOldDue, OldKeyGone
<1>6. WriteInv'
  BY <1>1, <1>2, <1>3, <1>4, <1>t DEF WriteInv, stores
<1>7. CursorInv'
  BY <1>2, <1>t DEF CursorInv
<1> QED
  BY <1>5, <1>6, <1>7 DEF IInv

LEMMA PutIInv ==
  ASSUME IInv, PutState \/ PutDue
  PROVE  IInv'
<1>t. /\ TypeOK /\ txn.kind = "set" /\ txn.word \in WordId
      /\ txn \in SetTxn /\ txn.state \in State
      /\ db \in Stores /\ wdb \in Stores
  BY TxnForms DEF IInv, PutState, PutDue, At, SetTxn, TypeOK, Stores
<1>u. UNCHANGED <<isOpen, stores, dst>>
  BY DEF PutState, PutDue
<1>1. CASE PutState
  <2>1. /\ txn.at = "putState" /\ txn' = [txn EXCEPT !.at = "putDue"]
        /\ wdb' = [wdb EXCEPT ![txn.word] = txn.state] /\ windex' = windex
    BY <1>1 DEF PutState, At, Goto
  <2>2. /\ txn'.kind = "set" /\ txn'.word = txn.word /\ txn'.at = "putDue"
        /\ txn'.state = txn.state /\ txn' \in SetTxn
    BY <2>1, <1>t DEF SetTxn
  <2>3. wdb' \in Stores
    BY <2>1, <1>t DEF Stores
  <2>4. TypeOK' /\ IndexMatches'
    BY <2>1, <2>2, <2>3, <1>t, <1>u DEF IInv, TypeOK, IndexMatches, stores, Stores
  <2>5. WriteInv'
    BY <2>1, <2>2, <1>t, <1>u DEF IInv, WriteInv, stores
  <2>6. CursorInv'
    BY <2>2 DEF CursorInv
  <2> QED
    BY <2>4, <2>5, <2>6 DEF IInv
<1>2. CASE PutDue
  <2>1. /\ txn.at = "putDue" /\ txn' = [txn EXCEPT !.at = "commit"]
        /\ windex' = windex \cup {DueKey(txn.word, txn.state)} /\ wdb' = wdb
    BY <1>2 DEF PutDue, At, Goto
  <2>2. /\ txn'.kind = "set" /\ txn'.word = txn.word /\ txn'.at = "commit"
        /\ txn'.state = txn.state /\ txn' \in SetTxn
    BY <2>1, <1>t DEF SetTxn
  <2>3. /\ wdb = [db EXCEPT ![txn.word] = txn.state]
        /\ windex = Without(db, txn.word)
    BY <2>1, <1>t DEF IInv, WriteInv
  <2>4. windex' = IndexOf(wdb)
    BY <2>1, <2>3, <1>t, IndexPut
  <2>5. windex' \subseteq Nat \X WordId
    BY <2>4, <1>t, IndexFacts
  <2>6. TypeOK' /\ IndexMatches'
    BY <2>1, <2>2, <2>5, <1>t, <1>u DEF IInv, TypeOK, IndexMatches, stores
  <2>7. WriteInv'
    BY <2>1, <2>2, <2>3, <2>4, <1>t, <1>u DEF WriteInv, stores
  <2>8. CursorInv'
    BY <2>2 DEF CursorInv
  <2> QED
    BY <2>6, <2>7, <2>8 DEF IInv
<1> QED
  BY <1>1, <1>2

LEMMA DelStateIInv ==
  ASSUME IInv, DelState
  PROVE  IInv'
<1>t. /\ TypeOK /\ txn.kind = "erase" /\ txn.word \in WordId
      /\ txn \in EraseTxn /\ db \in Stores /\ wdb \in Stores
  BY TxnForms DEF IInv, DelState, At, EraseTxn, TypeOK, Stores
<1>1. /\ txn.at = "delState" /\ txn' = [txn EXCEPT !.at = "commit"]
      /\ wdb' = [wdb EXCEPT ![txn.word] = NoState]
      /\ UNCHANGED <<isOpen, stores, windex, dst>>
  BY DEF DelState, At, Goto
<1>2. /\ txn'.kind = "erase" /\ txn'.word = txn.word /\ txn'.at = "commit"
      /\ txn' \in EraseTxn
  BY <1>1, <1>t DEF EraseTxn
<1>3. wdb = db /\ windex = Without(db, txn.word)
  BY <1>1, <1>t DEF IInv, WriteInv
<1>4. windex' = IndexOf(wdb')
  BY <1>1, <1>3 DEF Without
<1>5. wdb' \in Stores
  BY <1>1, <1>t DEF Stores
<1>6. TypeOK' /\ IndexMatches'
  BY <1>1, <1>2, <1>5, <1>t DEF IInv, TypeOK, IndexMatches, stores, Stores
<1>7. WriteInv'
  BY <1>1, <1>2, <1>3, <1>4 DEF WriteInv, stores
<1>8. CursorInv'
  BY <1>2 DEF CursorInv
<1> QED
  BY <1>6, <1>7, <1>8 DEF IInv

LEMMA CommitIInv ==
  ASSUME IInv, Commit
  PROVE  /\ IInv'
         /\ txn.kind = "set" => db' = [db EXCEPT ![txn.word] = txn.state]
         /\ txn.kind = "erase" => db' = [db EXCEPT ![txn.word] = NoState]
<1>t. TypeOK /\ txn.kind \in {"set", "erase"} /\ txn.at = "commit"
  BY DEF IInv, Commit
<1>1. /\ db' = wdb /\ index' = windex /\ txn' = NoTxn /\ dst' = <<>>
      /\ wdb' = db' /\ windex' = index' /\ isOpen' = isOpen
  BY DEF Commit, Return
<1>2. /\ windex = IndexOf(wdb)
      /\ txn.kind = "set" => wdb = [db EXCEPT ![txn.word] = txn.state]
      /\ txn.kind = "erase" => wdb = [db EXCEPT ![txn.word] = NoState]
  BY <1>t DEF IInv, WriteInv
<1>3. TypeOK'
  BY <1>1, <1>t DEF TypeOK
<1>4. IndexMatches'
  BY <1>1, <1>2 DEF IndexMatches
<1>5. WriteInv' /\ CursorInv'
  BY <1>1 DEF WriteInv, CursorInv, NoTxn
<1> QED
  BY <1>1, <1>2, <1>3, <1>4, <1>5 DEF IInv

\* The steps of collect_due.
LEMMA CollectIInv ==
  ASSUME IInv, NEW now \in Now, NEW limit \in Limit, CollectDue(now, limit)
  PROVE  IInv'
<1>1. /\ txn' = [kind |-> "due", now |-> now, limit |-> limit, seen |-> {}]
      /\ dst' = <<>> /\ UNCHANGED <<isOpen, stores, wdb, windex>>
  BY DEF CollectDue
<1>2. txn' \in DueTxn
  BY <1>1 DEF DueTxn
<1>3. TypeOK' /\ IndexMatches'
  BY <1>1, <1>2 DEF IInv, TypeOK, IndexMatches, stores
<1>4. WriteInv'
  BY <1>1 DEF WriteInv
<1>5. CursorInv'
  <2>1. limit \in Nat
    BY StatesAssumption
  <2> QED
    BY <1>1, <2>1 DEF CursorInv
<1> QED
  BY <1>3, <1>4, <1>5 DEF IInv

LEMMA PushDueIInv ==
  ASSUME IInv, NEW k \in index, PushDue(k)
  PROVE  IInv'
<1>t. /\ TypeOK /\ txn.kind = "due" /\ txn \in DueTxn /\ dst \in Seq(WordId)
      /\ txn.limit \in Nat /\ db \in Stores /\ txn.seen \subseteq index
      /\ k \in Nat \X WordId /\ k[2] \in WordId
  BY TxnForms, StatesAssumption DEF IInv, PushDue, DueTxn, TypeOK, CursorInv, Stores
<1>1. /\ k \in index \ txn.seen
      /\ \A l \in index \ txn.seen : k = l \/ Before(k, l)
      /\ ~LimitReached /\ k[1] <= txn.now
      /\ dst' = Append(dst, k[2])
      /\ txn' = [txn EXCEPT !.seen = @ \cup {k}]
      /\ UNCHANGED <<isOpen, stores, wdb, windex>>
  BY DEF PushDue, UnderCursor
<1>2. /\ txn'.kind = "due" /\ txn'.now = txn.now /\ txn'.limit = txn.limit
      /\ txn'.seen = txn.seen \cup {k}
  BY <1>1, <1>t DEF DueTxn
<1>3. txn' \in DueTxn
  BY <1>1, <1>t DEF DueTxn, TypeOK
<1>4. /\ Len(dst) \in Nat /\ dst' \in Seq(WordId) /\ Len(dst') = Len(dst) + 1
      /\ DOMAIN dst = 1 .. Len(dst) /\ DOMAIN dst' = 1 .. Len(dst) + 1
      /\ \A i \in 1 .. Len(dst) : dst'[i] = dst[i]
      /\ dst'[Len(dst) + 1] = k[2]
  BY <1>1, <1>t
<1>5. TypeOK' /\ IndexMatches'
  BY <1>1, <1>3, <1>4 DEF IInv, TypeOK, IndexMatches, stores
<1>6. WriteInv'
  BY <1>2 DEF WriteInv
<1>7. CursorInv'
  <2>k. db[k[2]] # NoState /\ KeyOf(k[2]) = k
    BY <1>t, IndexFacts DEF IInv, IndexMatches, KeyOf
  <2>u. db' = db /\ index' = index /\ \A w : KeyOf(w)' = KeyOf(w)
    BY <1>1 DEF stores, KeyOf
  <2>c. /\ \A i \in 1 .. Len(dst) : db[dst[i]] # NoState /\ KeyOf(dst[i]) \in txn.seen
        /\ \A l \in txn.seen : l[1] <= txn.now /\ \E i \in 1 .. Len(dst) : dst[i] = l[2]
        /\ \A i, j \in 1 .. Len(dst) : i < j => Before(KeyOf(dst[i]), KeyOf(dst[j]))
        /\ \A l \in txn.seen, m \in index \ txn.seen : Before(l, m)
        /\ txn.limit > 0 => Len(dst) <= txn.limit
    BY <1>t, <1>4 DEF IInv, CursorInv
  <2>1. txn'.seen \subseteq index'
    BY <1>2, <2>u, <1>t
  <2>2. \A i \in DOMAIN dst' : db'[dst'[i]] # NoState /\ KeyOf(dst'[i]) \in txn'.seen
    BY <1>2, <1>4, <2>k, <2>u, <2>c
  <2>3. \A l \in txn'.seen : l[1] <= txn'.now /\ \E i \in DOMAIN dst' : dst'[i] = l[2]
    <3> TAKE l \in txn'.seen
    <3>1. CASE l = k
      BY <3>1, <1>1, <1>2, <1>4
    <3>2. CASE l \in txn.seen
      <4>1. PICK i \in 1 .. Len(dst) : dst[i] = l[2]
        BY <3>2, <2>c
      <4>2. i \in DOMAIN dst' /\ dst'[i] = l[2]
        BY <4>1, <1>4
      <4> QED
        BY <3>2, <2>c, <1>2, <4>2
    <3> QED
      BY <3>1, <3>2, <1>2
  <2>4. \A i, j \in DOMAIN dst' : i < j => Before(KeyOf(dst'[i]), KeyOf(dst'[j]))
    <3> TAKE i \in DOMAIN dst', j \in DOMAIN dst'
    <3> HAVE i < j
    <3>1. i \in 1 .. Len(dst) /\ dst'[i] = dst[i]
      BY <1>4
    <3>2. CASE j = Len(dst) + 1
      BY <3>1, <3>2, <2>k, <2>c, <1>1, <1>4
    <3>3. CASE j \in 1 .. Len(dst)
      BY <3>1, <3>3, <2>c, <1>4
    <3> QED
      BY <3>2, <3>3, <1>4
  <2>5. \A l \in txn'.seen, m \in index' \ txn'.seen : Before(l, m)
    BY <1>1, <1>2, <2>c, <2>u
  <2>6. txn'.limit > 0 => Len(dst') <= txn'.limit
    BY <1>1, <1>2, <1>4, <1>t DEF LimitReached
  <2> QED
    BY <2>1, <2>2, <2>3, <2>4, <2>5, <2>6, <2>u DEF CursorInv
<1> QED
  BY <1>5, <1>6, <1>7 DEF IInv

LEMMA NextIInv == IInv /\ [Next]_vars => IInv'
<1> SUFFICES ASSUME IInv, [Next]_vars PROVE IInv'
  OBVIOUS
<1>t. isOpen \in BOOLEAN
  BY DEF IInv, TypeOK
<1>1. CASE Open \/ Close \/ GetFails \/ \E w \in WordId : Get(w)
  <2>1. UNCHANGED <<stores, txn, wdb, windex, dst>> /\ isOpen' \in BOOLEAN
    BY <1>1, <1>t DEF Open, Close, GetFails, Get
  <2> QED
    BY <2>1, QuietIInv
<1>2. CASE EraseOfNothing \/ TxnFails \/ CollectDone \/ Crash
  <2>1. /\ UNCHANGED stores /\ isOpen' \in BOOLEAN
        /\ txn' = NoTxn /\ wdb' = db' /\ windex' = index' /\ dst' = <<>>
    BY <1>2, <1>t DEF EraseOfNothing, TxnFails, CollectDone, Crash, Return, stores
  <2> QED
    BY <2>1, EndIInv
<1>3. ASSUME NEW w \in WordId, NEW s \in State, Set(w, s)
      PROVE  IInv'
  <2> DEFINE t == [kind |-> "set", at |-> "readOld", word |-> w, state |-> s]
  <2>1. t \in SetTxn /\ t.at = "readOld"
    BY DEF SetTxn
  <2>2. BeginWrite(t)
    BY <1>3 DEF Set
  <2> HIDE DEF t
  <2> QED
    BY <2>1, <2>2, BeginIInv
<1>4. ASSUME NEW w \in WordId, Erase(w)
      PROVE  IInv'
  <2> DEFINE t == [kind |-> "erase", at |-> "readOld", word |-> w]
  <2>1. t \in EraseTxn /\ t.at = "readOld"
    BY DEF EraseTxn
  <2>2. BeginWrite(t)
    BY <1>4 DEF Erase
  <2> HIDE DEF t
  <2> QED
    BY <2>1, <2>2, BeginIInv
<1>5. CASE ReadOldFound \/ SetOfNewWord
  BY <1>5, ReadIInv
<1>6. CASE DelOldDue
  BY <1>6, DelOldDueIInv
<1>7. CASE PutState \/ PutDue
  BY <1>7, PutIInv
<1>8. CASE DelState
  BY <1>8, DelStateIInv
<1>9. CASE Commit
  BY <1>9, CommitIInv
<1>10. ASSUME NEW now \in Now, NEW limit \in Limit, CollectDue(now, limit)
       PROVE  IInv'
  BY <1>10, CollectIInv
<1>11. ASSUME NEW k \in index, PushDue(k)
       PROVE  IInv'
  BY <1>11, PushDueIInv
<1>12. CASE UNCHANGED vars
  <2>1. UNCHANGED <<stores, txn, wdb, windex, dst>> /\ isOpen' \in BOOLEAN
    BY <1>12, <1>t DEF vars, stores
  <2> QED
    BY <2>1, QuietIInv
<1> QED
  BY <1>1, <1>2, <1>3, <1>4, <1>5, <1>6, <1>7, <1>8, <1>9, <1>10, <1>11, <1>12
  DEF Next

\* The strengthened invariant holds in every state of the store.
THEOREM InductiveInvariant == Spec => []IInv
BY InitIInv, NextIInv, PTL DEF Spec

\* The due database holds exactly the keys of the stored states, whatever step
\* of a transaction failed and wherever the process was killed.
THEOREM IndexAlwaysMatches == Spec => []IndexMatches
<1>1. IInv => IndexMatches
  BY DEF IInv
<1> QED
  BY <1>1, InductiveInvariant, PTL

\* The variables of the store have their types.
THEOREM TypeCorrect == Spec => []TypeOK
<1>1. IInv => TypeOK
  BY DEF IInv
<1> QED
  BY <1>1, InductiveInvariant, PTL

-----------------------------------------------------------------------------
(* The store implements the abstract map.                                    *)

\* The order of two keys is the order of their words' turns.
LEMMA KeyOrder ==
  ASSUME NEW v \in WordId, NEW w \in WordId, db \in Stores,
         db[v] # NoState, db[w] # NoState
  PROVE  Before(KeyOf(v), KeyOf(w)) <=> Map!Earlier(db, v, w)
<1>1. db[v] \in State /\ db[w] \in State
  BY DEF Stores
<1>2. /\ KeyOf(v)[1] = Map!DueOf(db[v]) /\ KeyOf(v)[2] = v
      /\ KeyOf(w)[1] = Map!DueOf(db[w]) /\ KeyOf(w)[2] = w
  BY <1>1, KeyFacts DEF KeyOf
<1> QED
  BY <1>2 DEF Before, Map!Earlier

\* What collect_due returns is the list of due words that the map promises.
LEMMA CollectsDueList ==
  ASSUME IInv, CollectDone
  PROVE  Map!IsDueList(dst, db, txn.now, txn.limit)
<1>t. /\ txn.kind = "due" /\ txn.limit \in Nat /\ txn.now \in Nat
      /\ dst \in Seq(WordId) /\ db \in Stores
      /\ DOMAIN dst = 1 .. Len(dst) /\ Len(dst) \in Nat
  <2>1. TypeOK /\ txn.kind = "due"
    BY DEF IInv, CollectDone
  <2>2. txn.limit \in Nat /\ txn.now \in Nat
    BY <2>1, TxnForms, StatesAssumption DEF DueTxn
  <2>3. dst \in Seq(WordId) /\ db \in Stores
    BY <2>1 DEF TypeOK, Stores
  <2> QED
    BY <2>1, <2>2, <2>3
<1>w. \A i \in DOMAIN dst : dst[i] \in WordId
  BY <1>t
<1>c. /\ txn.seen \subseteq index
      /\ \A i \in DOMAIN dst : db[dst[i]] # NoState /\ KeyOf(dst[i]) \in txn.seen
      /\ \A l \in txn.seen : l[1] <= txn.now /\ \E i \in DOMAIN dst : dst[i] = l[2]
      /\ \A i, j \in DOMAIN dst : i < j => Before(KeyOf(dst[i]), KeyOf(dst[j]))
      /\ \A l \in txn.seen, m \in index \ txn.seen : Before(l, m)
      /\ txn.limit > 0 => Len(dst) <= txn.limit
  BY <1>t DEF IInv, CursorInv
<1>k. \A w \in WordId : db[w] # NoState =>
        KeyOf(w) \in index /\ KeyOf(w)[1] = Map!DueOf(db[w]) /\ KeyOf(w)[2] = w
  <2>1. \A w \in WordId : db[w] # NoState => db[w] \in State
    BY <1>t DEF Stores
  <2> QED
    BY <2>1, <1>t, IndexFacts, KeyFacts DEF IInv, IndexMatches, KeyOf
<1>1. \A i \in DOMAIN dst : Map!IsDue(db, dst[i], txn.now)
  BY <1>w, <1>c, <1>k DEF Map!IsDue
<1>2. \A i, j \in DOMAIN dst : i < j => Map!Earlier(db, dst[i], dst[j])
  BY <1>w, <1>c, <1>t, KeyOrder
<1>3. ASSUME NEW w \in WordId, Map!IsDue(db, w, txn.now)
      PROVE  \/ \E i \in DOMAIN dst : dst[i] = w
             \/ /\ txn.limit > 0 /\ Len(dst) = txn.limit
                /\ \A i \in DOMAIN dst : Map!Earlier(db, dst[i], w)
  <2>1. db[w] # NoState /\ Map!DueOf(db[w]) <= txn.now
    BY <1>3 DEF Map!IsDue
  <2>2. KeyOf(w) \in index /\ KeyOf(w)[1] <= txn.now /\ KeyOf(w)[2] = w
    BY <2>1, <1>k
  <2>3. CASE KeyOf(w) \in txn.seen
    BY <2>3, <2>2, <1>c
  <2>4. CASE KeyOf(w) \notin txn.seen
    <3>1. PICK k \in index \ txn.seen : \A l \in index \ txn.seen : k = l \/ Before(k, l)
      <4> DEFINE K == index \ txn.seen
      <4>1. K \subseteq Nat \X WordId /\ K # {}
        BY <2>2, <2>4 DEF IInv, TypeOK
      <4> HIDE DEF K
      <4>2. \E k \in K : \A l \in K : k = l \/ Before(k, l)
        BY <4>1, LeastKey
      <4> QED
        BY <4>2 DEF K
    <3>2. UnderCursor(k)
      BY <3>1 DEF UnderCursor
    <3>3. k = KeyOf(w) \/ Before(k, KeyOf(w))
      BY <3>1, <2>2, <2>4
    <3>4. k[1] \in Nat /\ KeyOf(w)[1] \in Nat
      <4>1. k \in Nat \X WordId /\ KeyOf(w) \in Nat \X WordId
        BY <3>1, <2>2 DEF IInv, TypeOK
      <4> QED
        BY <4>1
    <3>5. k[1] <= txn.now
      BY <3>3, <3>4, <2>2, <1>t DEF Before
    <3>6. LimitReached
      <4>1. \A l \in index : UnderCursor(l) => LimitReached \/ l[1] > txn.now
        BY DEF CollectDone
      <4> QED
        BY <4>1, <3>1, <3>2, <3>4, <3>5, <1>t
    <3>7. txn.limit > 0 /\ Len(dst) = txn.limit
      BY <3>6, <1>c, <1>t DEF LimitReached
    <3>8. \A i \in DOMAIN dst : Map!Earlier(db, dst[i], w)
      BY <1>c, <1>w, <1>t, <2>1, <2>2, <2>4, KeyOrder
    <3> QED
      BY <3>7, <3>8
  <2> QED
    BY <2>3, <2>4
<1> QED
  BY <1>1, <1>2, <1>3 DEF Map!IsDueList

LEMMA InitMaps == Init => Map!Init
BY DEF Init, Map!Init, Idle, Map!Idle

\* Each step of the store is a step of the map, or none.
LEMMA NextMaps == IInv /\ [Next]_vars => [Map!Next]_<<db, ret>>
<1> SUFFICES ASSUME IInv, [Next]_vars PROVE [Map!Next]_<<db, ret>>
  OBVIOUS
<1>1. CASE UNCHANGED <<db, ret>>
  BY <1>1
<1>2. ASSUME NEW w \in WordId, Get(w)
      PROVE  Map!Next
  <2>1. Map!Get(w)
    BY <1>2 DEF Get, Map!Get, stores
  <2> QED
    BY <2>1 DEF Map!Next
<1>3. CASE EraseOfNothing
  <2>1. /\ txn.kind = "erase" /\ txn.word \in WordId /\ db \in Stores
        /\ db[txn.word] = NoState
    BY <1>3, TxnForms DEF EraseOfNothing, At, IInv, WriteInv, TypeOK, Stores
  <2>2. [db EXCEPT ![txn.word] = NoState] = db
    BY <2>1 DEF Stores
  <2>3. Map!Erase(txn.word)
    BY <1>3, <2>2 DEF EraseOfNothing, Return, Map!Erase, stores
  <2> QED
    BY <2>1, <2>3 DEF Map!Next
<1>4. CASE Commit
  <2>1. /\ txn.word \in WordId /\ txn.kind \in {"set", "erase"}
        /\ txn.kind = "set" => txn.state \in State
        /\ ret' = [op |-> txn.kind, word |-> txn.word, ok |-> TRUE]
    BY <1>4, TxnForms DEF Commit, Return, IInv, SetTxn
  <2>2. CASE txn.kind = "set"
    <3>1. Map!Set(txn.word, txn.state)
      BY <1>4, <2>1, <2>2, CommitIInv DEF Map!Set
    <3> QED
      BY <2>1, <2>2, <3>1 DEF Map!Next
  <2>3. CASE txn.kind = "erase"
    <3>1. Map!Erase(txn.word)
      BY <1>4, <2>1, <2>3, CommitIInv DEF Map!Erase
    <3> QED
      BY <2>1, <3>1 DEF Map!Next
  <2> QED
    BY <2>1, <2>2, <2>3
<1>5. CASE TxnFails \/ GetFails
  <2>1. Map!Fail
    BY <1>5 DEF TxnFails, GetFails, Return, Map!Fail, stores
  <2> QED
    BY <2>1 DEF Map!Next
<1>6. CASE CollectDone
  <2>1. txn.now \in Now /\ txn.limit \in Limit
    BY <1>6, TxnForms DEF CollectDone, IInv, DueTxn
  <2>2. ret' = [op |-> "due", ok |-> TRUE, words |-> dst] /\ db' = db
    BY <1>6 DEF CollectDone, Return, stores
  <2>3. Map!CollectDue(txn.now, txn.limit)
    BY <1>6, <2>2, CollectsDueList DEF Map!CollectDue
  <2> QED
    BY <2>1, <2>3 DEF Map!Next
<1>7. CASE Crash
  <2>1. Map!Restart
    BY <1>7 DEF Crash, Map!Restart, Idle, Map!Idle, stores
  <2> QED
    BY <2>1 DEF Map!Next
<1>8. CASE \/ Open \/ Close \/ ReadOldFound \/ SetOfNewWord \/ DelOldDue
           \/ PutState \/ PutDue \/ DelState \/ UNCHANGED vars
  BY <1>1, <1>8 DEF Open, Close, ReadOldFound, SetOfNewWord, DelOldDue, PutState,
     PutDue, DelState, vars, stores
<1>9. ASSUME \/ \E w \in WordId : Erase(w) \/ \E s \in State : Set(w, s)
             \/ \E now \in Now, limit \in Limit : CollectDue(now, limit)
             \/ \E k \in index : PushDue(k)
      PROVE  UNCHANGED <<db, ret>>
  BY <1>9 DEF Erase, Set, BeginWrite, CollectDue, PushDue, stores
<1> QED
  BY <1>1, <1>2, <1>3, <1>4, <1>5, <1>6, <1>7, <1>8, <1>9 DEF Next

\* The LMDB store implements the abstract map: set and erase are atomic, a
\* failed call changes nothing, a crash loses nothing, and collect_due returns
\* the due words in the order in which they fell due.
THEOREM ImplementsMap == Spec => MapSpec
<1>1. Spec => [][Map!Next]_<<db, ret>>
  BY InductiveInvariant, NextMaps, PTL DEF Spec
<1>2. Spec => Map!Init
  BY InitMaps DEF Spec
<1> QED
  BY <1>1, <1>2, PTL DEF MapSpec, Map!Spec
=============================================================================
