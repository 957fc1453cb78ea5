-------------------------- MODULE AuditTrailProofs ---------------------------
(***************************************************************************)
(* Proofs about AuditTrail for any number of writers, rows and any length  *)
(* of a page.  The chain of log alone is not inductive: a transaction      *)
(* writes on top of what it wrote before, so what is kept is the chain of  *)
(* log and of the rows of whoever holds the lock, and that those rows are  *)
(* newer than every committed row and than the place of a verification.    *)
(***************************************************************************)
EXTENDS AuditTrail, FiniteSetTheorems, WellFoundedInduction, TLAPS

\* What the code assumes of its constants: "free" is no writer.
Bounds == MaxRows \in Nat /\ PageSize \in Nat /\ "free" \notin Writers

RowSet == [id : 1..MaxRows, prev : 0..MaxRows]
TxSet == [pc : {"idle", "tail", "insert", "more"}, rows : SUBSET RowSet, prev : 0..MaxRows]
WalkSet == [pc : {"idle", "page"}, cursor : 0..MaxRows, expected : 0..MaxRows]

Below(S, i) == {s \in S : s.id < i}
Chain(S) == \A r \in S : r.prev = ChainTail(Below(S, r.id))
Written(w) == log \cup tx[w].rows

Types ==
  /\ next \in 1..(MaxRows + 1) /\ lock \in Writers \cup {"free"}
  /\ log \in SUBSET RowSet /\ IsFiniteSet(log)
  /\ tx \in [Writers -> TxSet] /\ walk \in WalkSet

\* A transaction that has begun holds the lock, and its rows are the newest.
HoldsChain(w) ==
  /\ tx[w].pc = "idle" => tx[w].rows = {}
  /\ tx[w].pc # "idle" => lock = w
  /\ IsFiniteSet(tx[w].rows)
  /\ \A r \in tx[w].rows : r.id < next /\ walk.cursor < r.id /\ \A s \in log : s.id < r.id
  /\ tx[w].pc = "insert" => tx[w].prev = ChainTail(Written(w))
  /\ Chain(Written(w))

\* A verification expects the last row up to where it is.
WalkInv ==
  /\ walk.cursor < next
  /\ walk.pc = "page" => walk.expected = ChainTail({s \in log : s.id <= walk.cursor})

IInv ==
  /\ Types
  /\ \A w \in Writers : HoldsChain(w)
  /\ \A r \in log : r.id < next
  /\ Chain(log)
  /\ WalkInv

-----------------------------------------------------------------------------
\* A finite set of numbers has a greatest one: take x so that the set of those
\* above it is least.
LEMMA MaxExists ==
  ASSUME NEW S \in SUBSET Int, IsFiniteSet(S), S # {}
  PROVE  \E x \in S : \A y \in S : x >= y
<1> DEFINE Above(x) == {y \in S : y > x}
           T == {Above(x) : x \in S}
<1>1. T \subseteq FiniteSubsetsOf(S) /\ T # {}
  <2>1. ASSUME NEW x \in S PROVE Above(x) \in FiniteSubsetsOf(S)
    <3>1. Above(x) \in SUBSET S
      OBVIOUS
    <3> HIDE DEF Above
    <3>. QED BY <3>1, FS_Subset DEF FiniteSubsetsOf
  <2>2. T # {}
    OBVIOUS
  <2> HIDE DEF Above
  <2>. QED BY <2>1, <2>2
<1>2. PICK t \in T : \A u \in T : ~(<<u, t>> \in StrictSubsetOrdering(S))
  <2> HIDE DEF T
  <2> QED BY <1>1, FS_StrictSubsetOrderingWellFounded, WFMin
<1>3. PICK x \in S : t = Above(x)
  BY <1>2
<1>4. ASSUME NEW y \in S, y > x PROVE FALSE
  <2>1. y \in t /\ y \notin Above(y)
    <3>1. y \in Above(x)
      BY <1>4
    <3>2. y \in Int /\ ~(y > y)
      OBVIOUS
    <3>3. y \notin Above(y)
      BY <3>2
    <3> HIDE DEF Above
    <3>. QED BY <3>1, <3>3, <1>3
  <2>3. \A z \in S : z > y => z > x
    BY <1>4
  <2>4. Above(y) \subseteq t
    BY <1>3, <2>3
  <2>2. <<Above(y), t>> \in StrictSubsetOrdering(S)
    BY <2>1, <2>4, <1>3 DEF StrictSubsetOrdering
  <2>. QED BY <2>2, <1>2
<1>. QED BY <1>4

\* What the tail of a set of rows is.
IsTail(S, t) == t \in Ids(S) \cup {Genesis} /\ \A r \in S : r.id <= t

LEMMA TailUnique ==
  ASSUME Bounds, NEW S \in SUBSET RowSet, NEW t, IsTail(S, t)
  PROVE  ChainTail(S) = t
<1>1. Ids(S) \cup {Genesis} \subseteq Nat /\ t \in Ids(S) \cup {Genesis}
  BY DEF Bounds, RowSet, Ids, Genesis, IsTail
<1>2. \A y \in Ids(S) \cup {Genesis} : t >= y
  BY <1>1 DEF IsTail, Ids, Genesis
<1>3. \A x \in Ids(S) \cup {Genesis} :
        (\A y \in Ids(S) \cup {Genesis} : x >= y) => x = t
  BY <1>1, <1>2
<1>. QED BY <1>1, <1>2, <1>3 DEF ChainTail, Max

LEMMA TailExists ==
  ASSUME Bounds, NEW S \in SUBSET RowSet
  PROVE  /\ IsTail(S, ChainTail(S)) /\ ChainTail(S) \in 0..MaxRows
         /\ S # {} => ChainTail(S) \in Ids(S)
<1> DEFINE D == Ids(S) \cup {Genesis}
<1>1. D \subseteq 0..MaxRows /\ D # {}
  BY DEF Bounds, RowSet, Ids, Genesis
<1>2. IsFiniteSet(D)
  <2>1. IsFiniteSet(0..MaxRows)
    BY FS_Interval DEF Bounds
  <2> HIDE DEF D
  <2>. QED BY <1>1, <2>1, FS_Subset
<1>3. \E x \in D : \A y \in D : x >= y
  <2> HIDE DEF D
  <2> QED BY <1>1, <1>2, MaxExists DEF Bounds
<1>4. ChainTail(S) \in D /\ \A y \in D : ChainTail(S) >= y
  BY <1>3 DEF ChainTail, Max
<1>5. \A r \in S : r.id \in D /\ r.id \in 1..MaxRows /\ r.id <= ChainTail(S)
  BY <1>1, <1>4 DEF RowSet, Ids, Bounds
<1>6. IsTail(S, ChainTail(S)) /\ ChainTail(S) \in 0..MaxRows
  BY <1>1, <1>4, <1>5 DEF IsTail
<1>7. S # {} => ChainTail(S) # 0
  BY <1>5, <1>6 DEF Bounds
<1>. QED BY <1>4, <1>6, <1>7 DEF Genesis

\* A row with a new id, on top of the tail, continues a chain.
LEMMA ChainGrows ==
  ASSUME Bounds, NEW S \in SUBSET RowSet, Chain(S), NEW n \in RowSet,
         \A r \in S : r.id < n.id, n.prev = ChainTail(S)
  PROVE  Chain(S \cup {n})
<1>1. ASSUME NEW r \in S PROVE Below(S \cup {n}, r.id) = Below(S, r.id)
  BY <1>1 DEF Below, RowSet, Bounds
<1>2. Below(S \cup {n}, n.id) = S
  BY DEF Below, RowSet, Bounds
<1>. QED BY <1>1, <1>2 DEF Chain

-----------------------------------------------------------------------------
LEMMA InitEstablishes == Bounds /\ Init => IInv
<1> SUFFICES ASSUME Bounds, Init PROVE IInv
  OBVIOUS
<1>1. Types
  BY FS_EmptySet DEF Bounds, Init, Types, TxSet, WalkSet, NoTx, NoWalk, Genesis
<1>2. \A w \in Writers : HoldsChain(w)
  BY FS_EmptySet DEF Init, HoldsChain, NoTx, Written, Chain
<1>3. WalkInv
  BY DEF Init, WalkInv, NoWalk
<1>. QED BY <1>1, <1>2, <1>3 DEF IInv, Init, Chain

\* Next to a transaction that has begun every other is idle.
LEMMA Alone ==
  ASSUME Bounds, IInv, NEW w \in Writers, lock = w
  PROVE  \A v \in Writers \ {w} : tx[v].pc = "idle" /\ tx[v].rows = {} /\ Written(v) = log
BY DEF Bounds, IInv, HoldsChain, Written

LEMMA TakeLockKeeps ==
  ASSUME Bounds, IInv, NEW w \in Writers, TakeLock(w)
  PROVE  IInv'
<1>1. /\ lock \in {"free", w} /\ lock' = w
      /\ tx[w].pc \in {"idle", "more"} /\ tx' = [tx EXCEPT ![w].pc = "tail"]
      /\ UNCHANGED <<log, next, walk>>
  BY DEF TakeLock, Locked
<1>2. \A v \in Writers \ {w} : tx[v].pc = "idle"
  BY <1>1 DEF IInv, HoldsChain, Bounds
<1>3. Types'
  BY <1>1 DEF IInv, Types, TxSet
<1>4. /\ tx'[w].pc = "tail" /\ tx'[w].rows = tx[w].rows
      /\ \A v \in Writers \ {w} : tx'[v] = tx[v]
  BY <1>1 DEF IInv, Types, TxSet
<1>5. ASSUME NEW v \in Writers PROVE HoldsChain(v)'
  <2>1. Written(v)' = Written(v) /\ HoldsChain(v)
    BY <1>1, <1>4, <1>5 DEF Written, IInv
  <2>2. CASE v = w
    BY <1>1, <1>4, <2>1, <2>2 DEF HoldsChain
  <2>3. CASE v # w
    BY <1>1, <1>2, <1>4, <2>1, <2>3 DEF HoldsChain
  <2>. QED BY <2>2, <2>3
<1>6. Chain(log)' /\ WalkInv' /\ (\A r \in log : r.id < next)'
  BY <1>1 DEF IInv, WalkInv, Chain
<1>. QED BY <1>3, <1>5, <1>6 DEF IInv

LEMMA ReadTailKeeps ==
  ASSUME Bounds, IInv, NEW w \in Writers, ReadTail(w)
  PROVE  IInv'
<1>1. /\ tx[w].pc = "tail" /\ UNCHANGED <<log, next, lock, walk>>
      /\ tx' = [tx EXCEPT ![w].pc = "insert", ![w].prev = ChainTail(log \cup tx[w].rows)]
  BY DEF ReadTail
<1>2. Written(w) \in SUBSET RowSet
  BY DEF IInv, Types, TxSet, Written
<1>3. ChainTail(Written(w)) \in 0..MaxRows
  BY <1>2, TailExists
<1>4. Types'
  BY <1>1, <1>3 DEF IInv, Types, TxSet, Written
<1>5. /\ tx'[w].pc = "insert" /\ tx'[w].rows = tx[w].rows /\ tx'[w].prev = ChainTail(Written(w))
      /\ \A v \in Writers \ {w} : tx'[v] = tx[v]
  BY <1>1 DEF IInv, Types, TxSet, Written
<1>6. ASSUME NEW v \in Writers PROVE HoldsChain(v)'
  <2>1. Written(v)' = Written(v) /\ HoldsChain(v)
    BY <1>1, <1>5, <1>6 DEF Written, IInv
  <2>2. CASE v = w
    BY <1>1, <1>5, <2>1, <2>2 DEF HoldsChain
  <2>3. CASE v # w
    BY <1>1, <1>5, <2>1, <2>3 DEF HoldsChain
  <2>. QED BY <2>2, <2>3
<1>7. Chain(log)' /\ WalkInv' /\ (\A r \in log : r.id < next)'
  BY <1>1 DEF IInv, WalkInv, Chain
<1>. QED BY <1>4, <1>6, <1>7 DEF IInv

LEMMA InsertKeeps ==
  ASSUME Bounds, IInv, NEW w \in Writers, Insert(w)
  PROVE  IInv'
<1> DEFINE n == [id |-> next, prev |-> tx[w].prev]
<1>1. /\ tx[w].pc = "insert" /\ next <= MaxRows /\ next' = next + 1
      /\ tx' = [tx EXCEPT ![w].pc = "more", ![w].rows = @ \cup {n}]
      /\ UNCHANGED <<log, lock, walk>>
  BY DEF Insert
<1>2. n \in RowSet
  BY <1>1 DEF IInv, Types, TxSet, RowSet, Bounds
<1>3. /\ tx[w].rows \in SUBSET RowSet /\ IsFiniteSet(tx[w].rows) /\ lock = w
      /\ log \in SUBSET RowSet /\ next \in Nat
  <2>1. HoldsChain(w) /\ Types
    BY DEF IInv
  <2>2. tx[w] \in TxSet /\ next \in Nat /\ log \in SUBSET RowSet
    BY <2>1 DEF Types, Bounds
  <2>3. tx[w].rows \in SUBSET RowSet
    BY <2>2 DEF TxSet
  <2>4. IsFiniteSet(tx[w].rows) /\ lock = w
    BY <2>1, <1>1 DEF HoldsChain
  <2>. QED BY <2>2, <2>3, <2>4
<1>4. IsFiniteSet(tx[w].rows \cup {n})
  <2> DEFINE R == tx[w].rows
  <2>1. IsFiniteSet(R)
    BY <1>3
  <2> HIDE DEF R, n
  <2>2. IsFiniteSet(R \cup {n})
    BY <2>1, FS_AddElement
  <2>. QED BY <2>2 DEF R
<1>5. /\ tx'[w].pc = "more" /\ tx'[w].rows = tx[w].rows \cup {n}
      /\ \A v \in Writers \ {w} : tx'[v] = tx[v]
  BY <1>1 DEF IInv, Types, TxSet
<1>6. Types'
  <2>1. tx[w].rows \cup {n} \in SUBSET RowSet
    BY <1>2, <1>3
  <2>2. tx' \in [Writers -> TxSet]
    <3> HIDE DEF n
    <3>. QED BY <1>1, <2>1 DEF IInv, Types, TxSet
  <2>3. next' \in 1..(MaxRows + 1)
    BY <1>1 DEF IInv, Types, Bounds
  <2>. QED BY <1>1, <2>2, <2>3 DEF IInv, Types
<1>7. \A r \in Written(w) : r.id < next /\ r.id \in Nat
  <2>1. \A r \in log : r.id < next
    BY DEF IInv
  <2>2. \A r \in tx[w].rows : r.id < next
    BY DEF IInv, HoldsChain
  <2>3. \A r \in RowSet : r.id \in Nat
    BY DEF RowSet, Bounds
  <2>. QED BY <1>3, <2>1, <2>2, <2>3 DEF Written
<1>8. Chain(Written(w) \cup {n})
  <2>1. Written(w) \in SUBSET RowSet /\ Chain(Written(w)) /\ n.prev = ChainTail(Written(w))
    BY <1>1, <1>3 DEF IInv, HoldsChain, Written
  <2>2. n.id = next
    OBVIOUS
  <2> HIDE DEF n
  <2>. QED BY <1>2, <1>7, <2>1, <2>2, ChainGrows
<1>9. HoldsChain(w)'
  <2>1. Written(w)' = Written(w) \cup {n}
    BY <1>1, <1>5 DEF Written
  <2>2. Chain(Written(w))'
    BY <1>8, <2>1 DEF Chain, Below
  <2>3. ASSUME NEW r \in tx'[w].rows
        PROVE  r.id < next' /\ walk'.cursor < r.id /\ \A s \in log' : s.id < r.id
    <3>1. CASE r \in tx[w].rows
      <4>1. r.id < next /\ r.id \in Nat
        BY <1>7, <3>1 DEF Written
      <4>2. walk.cursor < r.id /\ \A s \in log : s.id < r.id
        BY <3>1 DEF IInv, HoldsChain
      <4>. QED BY <1>1, <1>3, <4>1, <4>2
    <3>2. CASE r = n
      <4>1. r.id = next
        BY <3>2
      <4>2. walk.cursor < next /\ \A s \in log : s.id < next
        BY DEF IInv, WalkInv
      <4>. QED BY <1>1, <1>3, <4>1, <4>2
    <3>. QED BY <1>5, <2>3, <3>1, <3>2
  <2> HIDE DEF n
  <2>. QED BY <1>1, <1>3, <1>4, <1>5, <2>2, <2>3 DEF HoldsChain
<1>10. ASSUME NEW v \in Writers, v # w PROVE HoldsChain(v)'
  <2>1. tx'[v].pc = "idle" /\ tx'[v].rows = {} /\ Chain(log)'
    <3>1. tx[v].pc = "idle" /\ tx[v].rows = {}
      BY <1>3, <1>10, Alone
    <3>2. tx'[v] = tx[v]
      BY <1>5, <1>10
    <3>3. Chain(log)'
      BY <1>1 DEF IInv, Chain
    <3>. QED BY <3>1, <3>2, <3>3
  <2>2. Written(v)' = log'
    BY <2>1 DEF Written
  <2>. QED BY <2>1, <2>2, FS_EmptySet DEF HoldsChain
<1>11. WalkInv' /\ Chain(log)' /\ (\A r \in log : r.id < next)'
  <2>1. walk.cursor \in Nat /\ \A r \in log : r.id \in Nat
    BY <1>3 DEF IInv, Types, WalkSet, RowSet, Bounds
  <2>. QED BY <1>1, <1>3, <2>1 DEF IInv, WalkInv, Chain
<1>. QED BY <1>6, <1>9, <1>10, <1>11 DEF IInv

LEMMA CommitKeeps ==
  ASSUME Bounds, IInv, NEW w \in Writers, Commit(w)
  PROVE  IInv'
<1>1. /\ tx[w].pc = "more" /\ log' = Written(w) /\ tx' = [tx EXCEPT ![w] = NoTx]
      /\ lock' = IF lock = w THEN "free" ELSE lock
      /\ UNCHANGED <<next, walk>>
  BY DEF Commit, End, Written
<1>2. HoldsChain(w) /\ Types
  BY DEF IInv
<1>3. /\ lock = w /\ tx[w] \in TxSet /\ IsFiniteSet(tx[w].rows)
      /\ log \in SUBSET RowSet /\ IsFiniteSet(log)
  BY <1>1, <1>2 DEF HoldsChain, Types
<1>4. tx[w].rows \in SUBSET RowSet
  BY <1>3 DEF TxSet
<1>5. log' \in SUBSET RowSet /\ IsFiniteSet(log')
  BY <1>1, <1>3, <1>4, FS_Union DEF Written
<1>6. NoTx \in TxSet /\ NoTx.pc = "idle" /\ NoTx.rows = {}
  BY DEF NoTx, TxSet, Genesis, Bounds
<1>7. Types'
  BY <1>1, <1>2, <1>5, <1>6 DEF Types
<1>8. \A v \in Writers : tx'[v].pc = "idle" /\ tx'[v].rows = {}
  BY <1>1, <1>2, <1>3, <1>6, Alone DEF Types
<1>9. Chain(log)'
  BY <1>1, <1>2 DEF HoldsChain
<1>10. ASSUME NEW v \in Writers PROVE HoldsChain(v)'
  <2>1. Written(v)' = log'
    BY <1>8 DEF Written
  <2>. QED BY <1>8, <1>9, <2>1, FS_EmptySet DEF HoldsChain
<1>11. \A r \in tx[w].rows : r.id < next /\ walk.cursor < r.id /\ r.id \in Nat
  <2>1. \A r \in RowSet : r.id \in Nat
    BY DEF RowSet, Bounds
  <2>. QED BY <1>2, <1>4, <2>1 DEF HoldsChain
<1>12. (\A r \in log : r.id < next)'
  BY <1>1, <1>11 DEF IInv, Written
<1>13. {s \in log' : s.id <= walk.cursor} = {s \in log : s.id <= walk.cursor}
  <2>1. walk.cursor \in Nat
    BY <1>2 DEF Types, WalkSet, Bounds
  <2>. QED BY <1>1, <1>11, <2>1 DEF Written
<1>14. WalkInv'
  BY <1>1, <1>13 DEF IInv, WalkInv
<1>. QED BY <1>7, <1>9, <1>10, <1>12, <1>14 DEF IInv

LEMMA RollBackKeeps ==
  ASSUME Bounds, IInv, NEW w \in Writers, RollBack(w)
  PROVE  IInv'
<1>1. /\ tx[w].pc # "idle" /\ tx' = [tx EXCEPT ![w] = NoTx]
      /\ lock' = IF lock = w THEN "free" ELSE lock
      /\ UNCHANGED <<log, next, walk>>
  BY DEF RollBack, End
<1>2. HoldsChain(w) /\ Types
  BY DEF IInv
<1>3. lock = w
  BY <1>1, <1>2 DEF HoldsChain
<1>4. NoTx \in TxSet /\ NoTx.pc = "idle" /\ NoTx.rows = {}
  BY DEF NoTx, TxSet, Genesis, Bounds
<1>5. Types'
  BY <1>1, <1>2, <1>4 DEF Types
<1>6. \A v \in Writers : tx'[v].pc = "idle" /\ tx'[v].rows = {}
  BY <1>1, <1>2, <1>3, <1>4, Alone DEF Types
<1>7. Chain(log)' /\ WalkInv' /\ (\A r \in log : r.id < next)'
  BY <1>1 DEF IInv, WalkInv
<1>8. ASSUME NEW v \in Writers PROVE HoldsChain(v)'
  <2>1. Written(v)' = log'
    BY <1>6 DEF Written
  <2>. QED BY <1>6, <1>7, <2>1, FS_EmptySet DEF HoldsChain
<1>. QED BY <1>5, <1>7, <1>8 DEF IInv

-----------------------------------------------------------------------------
\* A verification that begins at genesis, or after a row that it takes as its
\* anchor, expects the last row up to there.
LEMMA BeginWalkKeeps ==
  ASSUME Bounds, IInv, BeginWalk
  PROVE  IInv'
<1>1. /\ walk.pc = "idle" /\ UNCHANGED <<log, next, lock, tx>>
      /\ \/ walk' = [NoWalk EXCEPT !.pc = "page"]
         \/ \E r \in log : walk' = [pc |-> "page", cursor |-> r.id - 1, expected |-> r.prev]
  BY DEF BeginWalk
<1>2. log \in SUBSET RowSet /\ Chain(log) /\ Types
  BY DEF IInv, Types
<1>3. \A r \in log : r.id \in 1..MaxRows /\ r.prev \in 0..MaxRows /\ r.id < next
  BY <1>2 DEF RowSet, IInv
<1>4. /\ walk' \in WalkSet
      /\ walk'.cursor = 0 \/ \E s \in log : walk'.cursor < s.id
      /\ walk'.expected = ChainTail({s \in log : s.id <= walk'.cursor})
  <2>1. CASE walk' = [NoWalk EXCEPT !.pc = "page"]
    <3>1. walk' = [pc |-> "page", cursor |-> 0, expected |-> 0]
      BY <2>1 DEF NoWalk, Genesis
    <3>2. {s \in log : s.id <= 0} = {}
      BY <1>3 DEF Bounds
    <3>3. ChainTail({}) = 0
      BY TailUnique DEF IsTail, Genesis
    <3>. QED BY <3>1, <3>2, <3>3 DEF WalkSet, Bounds
  <2>2. ASSUME NEW r \in log,
               walk' = [pc |-> "page", cursor |-> r.id - 1, expected |-> r.prev]
        PROVE  /\ walk' \in WalkSet
               /\ walk'.cursor = 0 \/ \E s \in log : walk'.cursor < s.id
               /\ walk'.expected = ChainTail({s \in log : s.id <= walk'.cursor})
    <3>1. {s \in log : s.id <= r.id - 1} = Below(log, r.id)
      BY <1>3 DEF Below, Bounds
    <3>2. r.prev = ChainTail(Below(log, r.id))
      BY <1>2 DEF Chain
    <3>3. walk'.cursor = r.id - 1 /\ walk'.expected = r.prev /\ walk'.cursor < r.id
      BY <2>2, <1>3 DEF Bounds
    <3>4. walk' \in WalkSet
      BY <2>2, <1>3 DEF WalkSet, Bounds
    <3>. QED BY <3>1, <3>2, <3>3, <3>4
  <2>. QED BY <1>1, <2>1, <2>2
<1>5. Types'
  BY <1>1, <1>2, <1>4 DEF Types
<1>6. WalkInv'
  <2>1. walk'.cursor \in Nat /\ next \in Nat /\ 0 < next
    BY <1>2, <1>4 DEF Types, WalkSet, Bounds
  <2>2. walk'.cursor < next
    BY <1>3, <1>4, <2>1 DEF Bounds
  <2>. QED BY <1>1, <1>4, <2>2 DEF WalkInv
<1>7. ASSUME NEW w \in Writers PROVE HoldsChain(w)'
  <2>1. HoldsChain(w) /\ Written(w)' = Written(w)
    BY <1>1 DEF IInv, Written
  <2>2. ASSUME NEW r \in tx[w].rows PROVE walk'.cursor < r.id
    <3>1. r \in RowSet
      BY <1>2 DEF Types, TxSet
    <3>2. r.id \in Nat /\ 0 < r.id
      BY <3>1 DEF RowSet, Bounds
    <3>3. \A s \in log : s.id < r.id
      BY <2>1, <2>2 DEF HoldsChain
    <3>4. walk'.cursor \in Nat
      BY <1>4 DEF WalkSet, Bounds
    <3>. QED BY <1>3, <1>4, <3>2, <3>3, <3>4 DEF Bounds
  <2>. QED BY <1>1, <2>1, <2>2 DEF HoldsChain
<1>8. Chain(log)' /\ (\A r \in log : r.id < next)'
  BY <1>1, <1>2, <1>3 DEF Chain
<1>. QED BY <1>5, <1>6, <1>7, <1>8 DEF IInv

\* A page is a first part of the rows after the cursor, and each of its rows
\* follows the one before it.
LEMMA PageIsAPrefix ==
  ASSUME Bounds, IInv
  PROVE  /\ Page \subseteq log /\ \A r \in Page : walk.cursor < r.id
         /\ \A r \in Page, s \in log : walk.cursor < s.id /\ s.id < r.id => s \in Page
<1> DEFINE After == {r \in log : r.id > walk.cursor}
           UpTo(r) == {s \in After : s.id <= r.id}
<1>1. Page = {r \in After : Cardinality(UpTo(r)) <= PageSize}
  BY DEF Page
<1>2. log \in SUBSET RowSet /\ IsFiniteSet(log) /\ walk.cursor \in Nat
  BY DEF IInv, Types, WalkSet, Bounds
<1>3. \A r \in log : r.id \in Nat
  BY <1>2 DEF RowSet, Bounds
<1>4. ASSUME NEW r \in Page, NEW s \in log, walk.cursor < s.id, s.id < r.id
      PROVE  s \in Page
  <2>1. r \in After /\ s \in After /\ Cardinality(UpTo(r)) <= PageSize
    BY <1>1, <1>2, <1>3, <1>4
  <2>2. UpTo(s) \subseteq UpTo(r) /\ UpTo(r) \subseteq log
    BY <1>3, <1>4, <2>1
  <2>3. /\ Cardinality(UpTo(s)) <= Cardinality(UpTo(r))
        /\ Cardinality(UpTo(s)) \in Nat /\ Cardinality(UpTo(r)) \in Nat
    <3> HIDE DEF UpTo, After
    <3>1. IsFiniteSet(UpTo(r))
      BY <1>2, <2>2, FS_Subset
    <3>2. IsFiniteSet(UpTo(s))
      BY <3>1, <2>2, FS_Subset
    <3>. QED BY <2>2, <3>1, <3>2, FS_Subset, FS_CardinalityType
  <2>4. Cardinality(UpTo(s)) <= PageSize
    <3> HIDE DEF UpTo, After
    <3>. QED BY <2>1, <2>3 DEF Bounds
  <2>. QED BY <1>1, <2>1, <2>4
<1>5. Page \subseteq log /\ \A r \in Page : walk.cursor < r.id
  BY <1>1, <1>2, <1>3
<1>. QED BY <1>4, <1>5

LEMMA PageIsLinked ==
  ASSUME Bounds, IInv, walk.pc = "page", NEW r \in Page
  PROVE  Linked(r)
<1>1. log \in SUBSET RowSet /\ walk.cursor \in Nat /\ Chain(log)
  BY DEF IInv, Types, WalkSet, Bounds
<1>2. r \in log /\ walk.cursor < r.id /\ r.prev = ChainTail(Below(log, r.id))
  BY <1>1, PageIsAPrefix DEF Chain
<1>3. \A s \in log : s.id \in Nat
  BY <1>1 DEF RowSet, Bounds
<1>4. CASE Before(r) = {}
  <2>1. ASSUME NEW s \in log, s.id < r.id PROVE s.id <= walk.cursor
    BY <1>1, <1>3, <1>4, <2>1, PageIsAPrefix DEF Before
  <2>2. Below(log, r.id) = {s \in log : s.id <= walk.cursor}
    BY <1>1, <1>2, <1>3, <2>1 DEF Below
  <2>. QED BY <1>2, <1>4, <2>2 DEF Linked, IInv, WalkInv
<1>5. CASE Before(r) # {}
  <2>1. Before(r) \subseteq Below(log, r.id) /\ Below(log, r.id) \in SUBSET RowSet
    BY <1>1, PageIsAPrefix DEF Before, Below
  <2>2. PICK t : t = ChainTail(Before(r))
    OBVIOUS
  <2>3. IsTail(Before(r), t) /\ t \in Ids(Before(r))
    BY <1>5, <2>1, <2>2, TailExists
  <2>4. PICK m \in Before(r) : m.id = t
    BY <2>3 DEF Ids
  <2>5. m \in log /\ walk.cursor < m.id
    BY <2>1, <2>4, PageIsAPrefix DEF Before, Below
  <2>6. ASSUME NEW s \in Below(log, r.id) PROVE s.id <= t
    <3>1. s \in log /\ s.id < r.id
      BY DEF Below
    <3>2. CASE walk.cursor < s.id
      BY <2>3, <3>1, <3>2, PageIsAPrefix DEF Before, IsTail
    <3>3. CASE ~(walk.cursor < s.id)
      BY <1>1, <1>3, <2>4, <2>5, <3>1, <3>3
    <3>. QED BY <3>2, <3>3
  <2>7. IsTail(Below(log, r.id), t)
    BY <2>1, <2>3, <2>6 DEF IsTail, Ids
  <2>8. ChainTail(Below(log, r.id)) = t
    BY <2>1, <2>7, TailUnique
  <2>. QED BY <1>2, <1>5, <2>2, <2>8 DEF Linked
<1>. QED BY <1>4, <1>5

LEMMA ReadPageKeeps ==
  ASSUME Bounds, IInv, ReadPage
  PROVE  IInv'
<1>1. /\ walk.pc = "page" /\ UNCHANGED <<log, next, lock, tx>>
      /\ walk' = IF Page = {} THEN NoWalk
                 ELSE [walk EXCEPT !.cursor = ChainTail(Page), !.expected = ChainTail(Page)]
  BY PageIsLinked DEF ReadPage
<1>2. log \in SUBSET RowSet /\ Chain(log) /\ Types
  BY DEF IInv, Types
<1>3. \A s \in log : s.id \in 1..MaxRows /\ s.id < next
  BY <1>2 DEF RowSet, IInv
<1>4. /\ walk' \in WalkSet
      /\ walk'.cursor = 0 \/ \E s \in log : walk'.cursor = s.id
      /\ walk'.pc = "page" => walk'.expected = ChainTail({s \in log : s.id <= walk'.cursor})
  <2>1. CASE Page = {}
    BY <1>1, <2>1 DEF NoWalk, WalkSet, Genesis, Bounds
  <2>2. CASE Page # {}
    <3>1. Page \in SUBSET RowSet /\ Page \subseteq log
      BY <1>2, PageIsAPrefix
    <3>2. PICK t : t = ChainTail(Page)
      OBVIOUS
    <3>3. IsTail(Page, t) /\ t \in Ids(Page) /\ t \in 0..MaxRows
      BY <2>2, <3>1, <3>2, TailExists
    <3>4. PICK m \in Page : m.id = t
      BY <3>3 DEF Ids
    <3>5. IsTail({s \in log : s.id <= t}, t)
      BY <1>3, <3>1, <3>3, <3>4 DEF IsTail, Ids, Bounds
    <3>6. ChainTail({s \in log : s.id <= t}) = t
      BY <1>2, <3>5, TailUnique
    <3>7. walk' \in WalkSet /\ walk'.cursor = t /\ walk'.expected = t
      BY <1>1, <1>2, <2>2, <3>2, <3>3 DEF Types, WalkSet
    <3>. QED BY <3>1, <3>4, <3>6, <3>7
  <2>. QED BY <2>1, <2>2
<1>5. Types'
  BY <1>1, <1>2, <1>4 DEF Types
<1>6. WalkInv'
  <2>1. next \in Nat /\ 0 < next
    BY <1>2 DEF Types, Bounds
  <2>2. walk'.cursor < next
    BY <1>3, <1>4, <2>1
  <2>. QED BY <1>1, <1>4, <2>2 DEF WalkInv
<1>7. ASSUME NEW w \in Writers PROVE HoldsChain(w)'
  <2>1. HoldsChain(w) /\ Written(w)' = Written(w)
    BY <1>1 DEF IInv, Written
  <2>2. ASSUME NEW r \in tx[w].rows PROVE walk'.cursor < r.id
    <3>1. r \in RowSet
      BY <1>2 DEF Types, TxSet
    <3>2. 0 < r.id
      BY <3>1 DEF RowSet, Bounds
    <3>3. \A s \in log : s.id < r.id
      BY <2>1, <2>2 DEF HoldsChain
    <3>. QED BY <1>4, <3>2, <3>3
  <2>. QED BY <1>1, <2>1, <2>2 DEF HoldsChain
<1>8. Chain(log)' /\ (\A r \in log : r.id < next)'
  BY <1>1, <1>2, <1>3 DEF Chain
<1>. QED BY <1>5, <1>6, <1>7, <1>8 DEF IInv

-----------------------------------------------------------------------------
\* For any number of concurrent writers: what the lock holder writes stays the
\* newest and is chained, whoever commits, rolls back or verifies meanwhile
\* (recordTx and verifyChain).
THEOREM ChainInvariant == Bounds => (Spec => []IInv)
<1> SUFFICES ASSUME Bounds PROVE Spec => []IInv
  OBVIOUS
<1>1. Init => IInv
  BY InitEstablishes
<1>2. IInv /\ [Next]_vars => IInv'
  <2> SUFFICES ASSUME IInv, [Next]_vars PROVE IInv'
    OBVIOUS
  <2>1. ASSUME NEW w \in Writers, TakeLock(w) PROVE IInv'
    BY <2>1, TakeLockKeeps
  <2>2. ASSUME NEW w \in Writers, ReadTail(w) PROVE IInv'
    BY <2>2, ReadTailKeeps
  <2>3. ASSUME NEW w \in Writers, Insert(w) PROVE IInv'
    BY <2>3, InsertKeeps
  <2>4. ASSUME NEW w \in Writers, Commit(w) PROVE IInv'
    BY <2>4, CommitKeeps
  <2>5. ASSUME NEW w \in Writers, RollBack(w) PROVE IInv'
    BY <2>5, RollBackKeeps
  <2>6. CASE BeginWalk
    BY <2>6, BeginWalkKeeps
  <2>7. CASE ReadPage
    BY <2>7, ReadPageKeeps
  <2>8. CASE UNCHANGED vars
    BY <2>8 DEF vars, IInv, Types, HoldsChain, Written, Chain, Below, WalkInv
  <2>. QED BY <2>1, <2>2, <2>3, <2>4, <2>5, <2>6, <2>7, <2>8 DEF Next
<1>. QED BY <1>1, <1>2, PTL DEF Spec

\* The trail of an untampered table always verifies, from genesis or from any
\* anchor, whatever is committed between two pages (verifyChain).
THEOREM TrailAlwaysVerifies == Bounds => (Spec => []ChainVerifies)
<1> SUFFICES ASSUME Bounds PROVE Spec => []ChainVerifies
  OBVIOUS
<1>1. IInv => ChainVerifies
  BY DEF IInv, Types, WalkSet, Chain, Below, ChainVerifies
<1>. QED BY <1>1, ChainInvariant, PTL

\* The variables keep their types, and the lock is a writer's or free.
THEOREM TrailTypes == Bounds => (Spec => []TypeOK)
<1> SUFFICES ASSUME Bounds PROVE Spec => []TypeOK
  OBVIOUS
<1>1. IInv => TypeOK
  BY DEF IInv, Types, RowSet, TxSet, WalkSet, TypeOK
<1>. QED BY <1>1, ChainInvariant, PTL
=============================================================================
