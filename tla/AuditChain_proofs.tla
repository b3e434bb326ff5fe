-------------------------- MODULE AuditChain_proofs --------------------------
(***************************************************************************)
(* For any writers, activations and numbers of rows: the types, the record *)
(* of every deletion, that the committed rows are an append-only log, and  *)
(* what the verifier reports.                                              *)
(***************************************************************************)
EXTENDS AuditChain, FiniteSetTheorems, WellFoundedInduction, TLAPS

\* A writer's transaction under way, and the id its row was given.
Pending(w) == at[w] \in {"inserted", "chained"}

\* Ids of rows under way are given out, not committed, and of one writer each.
IdsFresh ==
    /\ \A w \in Writers : Pending(w) => id[w] \in (Legacy + 1..last) \ DOMAIN rows
    /\ \A v, w \in Writers : Pending(v) /\ Pending(w) /\ id[v] = id[w] => v = w
\* Between copying the newest hash and committing a writer has the lock, so that
\* what it copied is still the newest.
ChainedHolds ==
    \A w \in Writers : at[w] = "chained" => lock = w /\ prev[w] = Newest(DOMAIN rows)
AuditedRecorded ==
    \A w \in Writers : at[w] = "audited" => \E i \in DOMAIN rows : rows[i].about = about[w]
\* The history names every committed row.
OrderComplete == \A i \in DOMAIN rows : \E k \in DOMAIN order : order[k] = i

Linked == \A i \in DOMAIN rows : rows[i].prev = Newest({j \in DOMAIN rows : j < i})
InOrder == \A i, j \in DOMAIN order : i < j => order[i] < order[j]
LinkedIfInOrder == InOrder => Linked

Inv == /\ TypeOK /\ IdsFresh /\ ChainedHolds /\ AuditedRecorded /\ OrderComplete
       /\ LinkedIfInOrder /\ DeletionIsRecorded

-----------------------------------------------------------------------------
(* Naturals: the least and the greatest of a set.                          *)

LEMMA LeastExists ==
    ASSUME NEW S \in SUBSET Nat, S # {}
    PROVE  \E m \in S : \A k \in S : m <= k
  <1> DEFINE R == OpToRel(<, Nat)
  <1>1. IsWellFoundedOn(R, Nat) BY NatLessThanWellFounded
  <1>2. R = {p \in Nat \X Nat : p[1] < p[2]} BY DEF OpToRel
  <1>3. PICK m \in S : \A k \in S : ~(<<k, m>> \in R)
    <2> HIDE DEF R
    <2>q. QED BY <1>1, WFMin
  <1>4. \A k \in S : ~(k < m) BY <1>3, <1>2
  <1>q. QED BY <1>4

LEMMA GreatestExists ==
    ASSUME NEW n \in Nat, NEW S \in SUBSET (0..n), S # {}
    PROVE  \E m \in S : \A k \in S : k <= m
  <1> DEFINE T == {n - k : k \in S}
  <1>0. \A k \in S : n - k \in Nat OBVIOUS
  <1>1. T \in SUBSET Nat /\ T # {} BY <1>0
  <1>2. PICK t \in T : \A k \in T : t <= k BY <1>1, LeastExists
  <1>3. PICK m \in S : t = n - m BY <1>2
  <1>4. \A k \in S : k <= m
    <2> SUFFICES ASSUME NEW k \in S PROVE k <= m OBVIOUS
    <2>1. n - m <= n - k BY <1>2, <1>3
    <2>q. QED BY <2>1
  <1>q. QED BY <1>4

\* Newest is the greatest id of a bounded set, or 0.
LEMMA NewestIsGreatest ==
    ASSUME NEW n \in Nat, NEW S \in SUBSET (0..n)
    PROVE  /\ S = {} => Newest(S) = 0
           /\ S # {} => Newest(S) \in S /\ \A j \in S : j <= Newest(S)
           /\ Newest(S) \in Nat
  <1>1. CASE S = {} BY <1>1 DEF Newest
  <1>2. CASE S # {}
    <2>1. \E m \in S : \A j \in S : j <= m BY <1>2, GreatestExists
    <2>2. Newest(S) = CHOOSE m \in S : \A j \in S : j <= m BY <1>2 DEF Newest
    <2>3. Newest(S) \in S /\ \A j \in S : j <= Newest(S) BY <2>1, <2>2
    <2>4. Newest(S) \in 0..n BY <2>3
    <2>5. Newest(S) \in Nat BY <2>4
    <2>q. QED BY <1>2, <2>3, <2>5
  <1>q. QED BY <1>1, <1>2

LEMMA NewestIs ==
    ASSUME NEW n \in Nat, NEW S \in SUBSET (0..n), NEW m \in S, \A j \in S : j <= m
    PROVE  Newest(S) = m
  <1>1. Newest(S) \in S /\ \A j \in S : j <= Newest(S) BY NewestIsGreatest
  <1>2. Newest(S) <= m /\ m <= Newest(S) BY <1>1
  <1>3. Newest(S) \in 0..n /\ m \in 0..n BY <1>1
  <1>q. QED BY <1>2, <1>3

-----------------------------------------------------------------------------
(* The writers.                                                            *)

LEMMA RowIds ==
    ASSUME TypeOK
    PROVE  /\ last \in Nat /\ DOMAIN rows \subseteq 0..last
           /\ DOMAIN rows \subseteq 1..MaxId
  BY LegacyAssumption DEF TypeOK

LEMMA InitInv == Init => Inv
  <1> SUFFICES ASSUME Init PROVE Inv OBVIOUS
  <1>1. DOMAIN rows = {} /\ order = <<>> BY DEF Init
  <1>2. TypeOK BY <1>1, LegacyAssumption DEF Init, TypeOK
  <1>q. QED
    BY <1>1, <1>2 DEF Init, Inv, IdsFresh, Pending, ChainedHolds, AuditedRecorded, OrderComplete,
                      LinkedIfInOrder, Linked, DeletionIsRecorded

\* Steps that leave rows and history alone.
LEMMA QuietOrder ==
    ASSUME Inv, UNCHANGED <<rows, order>>
    PROVE  OrderComplete' /\ LinkedIfInOrder'
  BY DEF Inv, OrderComplete, LinkedIfInOrder, Linked, InOrder, Newest

LEMMA InsertInv == ASSUME Inv, NEW w \in Writers, NEW a \in stored \cup {None}, Insert(w, a) PROVE Inv'
  <1> USE DEF Inv
  <1>1. TypeOK' BY LegacyAssumption DEF Insert, TypeOK
  <1>2. IdsFresh' BY LegacyAssumption DEF Insert, TypeOK, IdsFresh, Pending
  <1>3. ChainedHolds' BY DEF Insert, TypeOK, ChainedHolds, Newest
  <1>4. AuditedRecorded' BY DEF Insert, TypeOK, AuditedRecorded
  <1>5. DeletionIsRecorded' BY DEF Insert, DeletionIsRecorded
  <1>q. QED BY <1>1, <1>2, <1>3, <1>4, <1>5, QuietOrder DEF Insert

LEMMA ChainInv == ASSUME Inv, NEW w \in Writers, Chain(w) PROVE Inv'
  <1> USE DEF Inv
  <1>1. Newest(DOMAIN rows) \in Nat BY RowIds, NewestIsGreatest
  <1>2. TypeOK' BY <1>1 DEF Chain, TypeOK, Visible
  <1>3. IdsFresh' BY DEF Chain, TypeOK, IdsFresh, Pending
  <1>4. ChainedHolds'
    BY NoneAssumption DEF Chain, LockFree, Visible, TypeOK, ChainedHolds, Newest
  <1>5. AuditedRecorded' BY DEF Chain, TypeOK, AuditedRecorded
  <1>6. DeletionIsRecorded' BY DEF Chain, DeletionIsRecorded
  <1>q. QED BY <1>2, <1>3, <1>4, <1>5, <1>6, QuietOrder DEF Chain

LEMMA FailInv == ASSUME Inv, NEW w \in Writers, Fail(w) PROVE Inv'
  <1> USE DEF Inv
  <1>1. TypeOK' BY DEF Fail, TypeOK
  <1>2. IdsFresh' BY DEF Fail, TypeOK, IdsFresh, Pending
  <1>3. ChainedHolds' BY DEF Fail, TypeOK, ChainedHolds, Newest
  <1>4. AuditedRecorded' BY DEF Fail, TypeOK, AuditedRecorded
  <1>5. DeletionIsRecorded' BY DEF Fail, DeletionIsRecorded
  <1>q. QED BY <1>1, <1>2, <1>3, <1>4, <1>5, QuietOrder DEF Fail

\* The row of what is deleted was committed before.
LEMMA PurgeInv == ASSUME Inv, NEW w \in Writers, Purge(w) PROVE Inv'
  <1> USE DEF Inv
  <1>1. TypeOK' BY DEF Purge, TypeOK
  <1>2. IdsFresh' BY DEF Purge, TypeOK, IdsFresh, Pending
  <1>3. ChainedHolds' BY DEF Purge, TypeOK, ChainedHolds, Newest
  <1>4. AuditedRecorded' BY DEF Purge, TypeOK, AuditedRecorded
  <1>5. DeletionIsRecorded' BY DEF Purge, DeletionIsRecorded, AuditedRecorded
  <1>q. QED BY <1>1, <1>2, <1>3, <1>4, <1>5, QuietOrder DEF Purge

\* A commit adds one row with the writer's id, and nothing else to the rows.
LEMMA CommitAdds ==
    ASSUME Inv, NEW w \in Writers, Commit(w)
    PROVE  /\ id[w] \in (Legacy + 1..last) \ DOMAIN rows
           /\ DOMAIN rows' = DOMAIN rows \cup {id[w]}
           /\ rows'[id[w]] = [prev |-> prev[w], about |-> about[w]]
           /\ \A i \in DOMAIN rows : rows'[i] = rows[i]
           /\ prev[w] = Newest(DOMAIN rows) /\ lock = w
  BY DEF Inv, Commit, IdsFresh, Pending, ChainedHolds

LEMMA CommitTypes == ASSUME Inv, NEW w \in Writers, Commit(w) PROVE TypeOK'
  <1>a. /\ id[w] \in Legacy + 1..last /\ DOMAIN rows' = DOMAIN rows \cup {id[w]}
        /\ rows'[id[w]] = [prev |-> prev[w], about |-> about[w]]
        /\ \A i \in DOMAIN rows : rows'[i] = rows[i]
    BY CommitAdds
  <1>t. TypeOK BY DEF Inv
  <1>1. \A i \in DOMAIN rows' : rows'[i] \in Row BY <1>a, <1>t DEF TypeOK, Row
  <1>2. DOMAIN rows' \subseteq Legacy + 1..last BY <1>a, <1>t DEF TypeOK
  <1>3. order' \in Seq(DOMAIN rows')
    <2>1. order \in Seq(DOMAIN rows) /\ DOMAIN rows \subseteq DOMAIN rows' BY <1>a, <1>t DEF TypeOK
    <2>2. order \in Seq(DOMAIN rows') BY <2>1
    <2>q. QED BY <2>2, <1>a DEF Commit
  <1>q. QED BY <1>1, <1>2, <1>3, <1>t DEF TypeOK, Commit

\* Rows committed in the order of their ids follow each other.
LEMMA CommitLinks == ASSUME Inv, NEW w \in Writers, Commit(w) PROVE OrderComplete' /\ LinkedIfInOrder'
  <1>a. /\ id[w] \in Legacy + 1..last /\ DOMAIN rows' = DOMAIN rows \cup {id[w]}
        /\ rows'[id[w]] = [prev |-> prev[w], about |-> about[w]]
        /\ \A i \in DOMAIN rows : rows'[i] = rows[i]
        /\ prev[w] = Newest(DOMAIN rows)
    BY CommitAdds
  <1>t. TypeOK BY DEF Inv
  <1>n. id[w] \in Nat /\ DOMAIN rows \subseteq Nat
    BY <1>a, <1>t, RowIds, LegacyAssumption DEF TypeOK
  <1>1. /\ Len(order') = Len(order) + 1 /\ Len(order) \in Nat
        /\ DOMAIN order' = 1..Len(order) + 1 /\ DOMAIN order = 1..Len(order)
        /\ order'[Len(order) + 1] = id[w]
        /\ \A k \in DOMAIN order : order'[k] = order[k]
    BY <1>t DEF TypeOK, Commit
  <1>2. OrderComplete'
    <2>1. OrderComplete BY DEF Inv
    <2>2. ASSUME NEW i \in DOMAIN rows PROVE \E k \in DOMAIN order' : order'[k] = i
      <3>1. PICK k \in DOMAIN order : order[k] = i BY <2>1 DEF OrderComplete
      <3>q. QED BY <3>1, <1>1
    <2>3. \E k \in DOMAIN order' : order'[k] = id[w] BY <1>1
    <2>q. QED BY <2>2, <2>3, <1>a DEF OrderComplete
  <1>3. ASSUME InOrder' PROVE Linked'
    <2>1. InOrder BY <1>1, <1>3 DEF InOrder
    <2>2. \A i \in DOMAIN rows : i < id[w]
      <3> SUFFICES ASSUME NEW i \in DOMAIN rows PROVE i < id[w] OBVIOUS
      <3>1. PICK k \in DOMAIN order : order[k] = i BY DEF Inv, OrderComplete
      <3>2. k < Len(order) + 1 /\ Len(order) + 1 \in DOMAIN order' /\ k \in DOMAIN order'
        BY <1>1
      <3>3. order'[k] < order'[Len(order) + 1] BY <3>2, <1>3 DEF InOrder
      <3>q. QED BY <3>1, <3>3, <1>1
    <2>4. {j \in DOMAIN rows' : j < id[w]} = DOMAIN rows BY <2>2, <1>n, <1>a
    <2>6. ASSUME NEW i \in DOMAIN rows
          PROVE  {j \in DOMAIN rows' : j < i} = {j \in DOMAIN rows : j < i}
      <3>1. i < id[w] /\ i \in Nat BY <2>2, <1>n
      <3>2. ~(id[w] < i) BY <3>1, <1>n
      <3>q. QED BY <3>2, <1>a
    <2>7. Linked BY <2>1 DEF Inv, LinkedIfInOrder
    <2>8. ASSUME NEW i \in DOMAIN rows'
          PROVE  rows'[i].prev = Newest({j \in DOMAIN rows' : j < i})
      <3>1. CASE i = id[w] BY <3>1, <2>4, <1>a
      <3>2. CASE i \in DOMAIN rows
        <4>1. rows[i].prev = Newest({j \in DOMAIN rows : j < i}) BY <3>2, <2>7 DEF Linked
        <4>q. QED BY <3>2, <4>1, <2>6, <1>a
      <3>q. QED BY <3>1, <3>2, <1>a
    <2>q. QED BY <2>8 DEF Linked, Newest
  <1>q. QED BY <1>2, <1>3 DEF LinkedIfInOrder

LEMMA CommitInv == ASSUME Inv, NEW w \in Writers, Commit(w) PROVE Inv'
  <1>a. /\ id[w] \in Legacy + 1..last /\ DOMAIN rows' = DOMAIN rows \cup {id[w]}
        /\ rows'[id[w]] = [prev |-> prev[w], about |-> about[w]]
        /\ \A i \in DOMAIN rows : rows'[i] = rows[i]
        /\ lock = w
    BY CommitAdds
  <1> USE DEF Inv
  <1>1. IdsFresh'
    <2>1. \A v \in Writers \ {w} : at'[v] = at[v] /\ id'[v] = id[v] BY DEF Commit, TypeOK
    <2>2. ~Pending(w)' /\ last' = last BY DEF Commit, TypeOK, Pending
    <2>3. Pending(w) BY DEF Commit, Pending
    <2>4. \A v \in Writers : Pending(v)' => v # w /\ Pending(v) BY <2>1, <2>2 DEF Pending
    <2>6. ASSUME NEW v \in Writers, Pending(v)'
          PROVE  id'[v] \in (Legacy + 1..last) \ DOMAIN rows'
      BY <2>1, <2>3, <2>4, <2>6, <1>a DEF IdsFresh
    <2>7. ASSUME NEW u \in Writers, NEW v \in Writers, Pending(u)', Pending(v)', id'[u] = id'[v]
          PROVE  u = v
      BY <2>1, <2>4, <2>7 DEF IdsFresh
    <2>q. QED BY <2>2, <2>6, <2>7 DEF IdsFresh
  <1>2. ChainedHolds' BY <1>a DEF Commit, TypeOK, ChainedHolds
  <1>3. AuditedRecorded'
    <2> SUFFICES ASSUME NEW v \in Writers, at'[v] = "audited"
                 PROVE  \E i \in DOMAIN rows' : rows'[i].about = about[v]
      BY DEF AuditedRecorded, Commit
    <2>1. CASE v = w BY <2>1, <1>a
    <2>2. CASE v # w
      <3>1. at[v] = "audited" BY <2>2 DEF Commit, TypeOK
      <3>2. PICK i \in DOMAIN rows : rows[i].about = about[v] BY <3>1 DEF AuditedRecorded
      <3>q. QED BY <3>2, <1>a
    <2>q. QED BY <2>1, <2>2
  <1>4. DeletionIsRecorded'
    <2> SUFFICES ASSUME NEW a \in Activations \ stored
                 PROVE  \E i \in DOMAIN rows' : rows'[i].about = a
      BY DEF DeletionIsRecorded, Commit
    <2>1. PICK i \in DOMAIN rows : rows[i].about = a BY DEF DeletionIsRecorded
    <2>q. QED BY <2>1, <1>a
  <1>q. QED BY <1>1, <1>2, <1>3, <1>4, CommitTypes, CommitLinks

LEMMA NextInv == Inv /\ [Next]_vars => Inv'
  <1> SUFFICES ASSUME Inv, [Next]_vars PROVE Inv' OBVIOUS
  <1>1. ASSUME NEW w \in Writers, Log(w) PROVE Inv'
    BY <1>1, InsertInv, ChainInv, CommitInv, FailInv, PurgeInv DEF Log
  <1>2. CASE UNCHANGED vars
    <2>1. TypeOK' /\ IdsFresh' /\ ChainedHolds' /\ AuditedRecorded' /\ DeletionIsRecorded'
      BY <1>2 DEF Inv, vars, writerVars, TypeOK, IdsFresh, Pending, ChainedHolds, Newest,
                  AuditedRecorded, DeletionIsRecorded
    <2>q. QED BY <1>2, <2>1, QuietOrder DEF Inv, vars
  <1>q. QED BY <1>1, <1>2 DEF Next

LEMMA Invariance == Spec => []Inv
  BY InitInv, NextInv, PTL DEF Spec

\* Rows, lock and writers keep their types: ids stay within those given out, and
\* the history holds committed rows only.
THEOREM TypeCorrect == Spec => []TypeOK
  <1>1. Inv => TypeOK BY DEF Inv
  <1>q. QED BY <1>1, Invariance, PTL

\* No activation is gone without a committed row that announced it
\* (purge_manual_eas_events), whatever fails or is rolled back.
THEOREM DeletionsRecorded == Spec => []DeletionIsRecorded
  <1>1. Inv => DeletionIsRecorded BY DEF Inv
  <1>q. QED BY <1>1, Invariance, PTL

-----------------------------------------------------------------------------
(* The rows are an append-only log.                                        *)

log == [i \in DOMAIN rows |-> rows[i].prev]

LEMMA StepLinks == Inv /\ [Next]_vars => [Links!Next]_log
  <1> SUFFICES ASSUME Inv, [Next]_vars PROVE Links!Next \/ log' = log BY DEF log
  <1>1. ASSUME NEW w \in Writers, Commit(w) PROVE Links!Next
    <2>a. /\ id[w] \in (Legacy + 1..last) \ DOMAIN rows
          /\ DOMAIN rows' = DOMAIN rows \cup {id[w]}
          /\ rows'[id[w]] = [prev |-> prev[w], about |-> about[w]]
          /\ \A i \in DOMAIN rows : rows'[i] = rows[i]
          /\ prev[w] = Newest(DOMAIN rows)
      BY <1>1, CommitAdds
    <2>1. id[w] \in 1..MaxId BY <2>a, LegacyAssumption DEF Inv, TypeOK
    <2>2. prev[w] \in DOMAIN rows \cup {0} BY <2>a, RowIds, NewestIsGreatest DEF Inv
    <2>3. log' = [j \in DOMAIN rows \cup {id[w]} |-> IF j = id[w] THEN prev[w] ELSE log[j]]
      <3>1. log' = [j \in DOMAIN rows \cup {id[w]} |-> rows'[j].prev] BY <2>a DEF log
      <3>2. ASSUME NEW j \in DOMAIN rows \cup {id[w]}
            PROVE  rows'[j].prev = IF j = id[w] THEN prev[w] ELSE log[j]
        BY <2>a DEF log
      <3>q. QED BY <3>1, <3>2
    <2>4. DOMAIN log = DOMAIN rows BY DEF log
    <2>5. \E i \in 1..MaxId : \E named \in DOMAIN log \cup {0} :
             /\ i \notin DOMAIN log
             /\ log' = [j \in DOMAIN log \cup {i} |-> IF j = i THEN named ELSE log[j]]
      BY <2>a, <2>1, <2>2, <2>3, <2>4
    <2>q. QED BY <2>5 DEF Links!Next, Links!Add, log
  <1>2. ASSUME NEW w \in Writers, NEW a \in stored \cup {None}, Insert(w, a) PROVE log' = log
    BY <1>2 DEF Insert, log
  <1>3. ASSUME NEW w \in Writers, Chain(w) \/ Fail(w) \/ Purge(w) PROVE log' = log
    BY <1>3 DEF Chain, Fail, Purge, log
  <1>4. CASE UNCHANGED vars BY <1>4 DEF vars, log
  <1>q. QED BY <1>1, <1>2, <1>3, <1>4 DEF Next, Log

\* Concurrent writers, rolled back at any point, implement the append-only log:
\* no committed row changes, and each names one committed before it.
THEOREM LogImplemented == Spec => ImplementsLog
  <1>1. Init => Links!Init BY DEF Init, Links!Init
  <1>2. Inv /\ [Next]_vars => [Links!Next]_[i \in DOMAIN rows |-> rows[i].prev]
    BY StepLinks DEF log
  <1>q. QED BY <1>1, <1>2, Invariance, PTL DEF Spec, ImplementsLog, Links!Spec

-----------------------------------------------------------------------------
(* The verifier.                                                           *)

\* What is defined step by step over the naturals exists.
Recursion(g, V, init, step) ==
    /\ g \in [Nat -> V]
    /\ g[0] = init /\ \A i \in Nat \ {0} : g[i] = step[<<i, g[i - 1]>>]

LEMMA RecursionExists ==
    ASSUME NEW V, NEW init \in V, NEW step \in [Nat \X V -> V]
    PROVE  \E g : Recursion(g, V, init, step)
  <1> DEFINE A(n) == {g \in [0..n -> V] :
                        g[0] = init /\ \A i \in 1..n : g[i] = step[<<i, g[i - 1]>>]}
  <1>1. ASSUME NEW n \in Nat, A(n) = {} PROVE FALSE
    <2> DEFINE S == {k \in Nat : A(k) = {}}
    <2>1. PICK m \in S : \A k \in S : m <= k BY <1>1, LeastExists
    <2>2. m # 0
      <3>1. [i \in 0..0 |-> init] \in A(0) OBVIOUS
      <3>q. QED BY <3>1, <2>1
    <2>3. m - 1 \in Nat /\ m - 1 \notin S
      <3>1. m - 1 \in Nat /\ ~(m <= m - 1) BY <2>2
      <3>q. QED BY <3>1, <2>1
    <2>4. PICK g : g \in A(m - 1) BY <2>3
    <2> DEFINE h == [i \in 0..m |-> IF i = m THEN step[<<m, g[m - 1]>>] ELSE g[i]]
    <2>5. g \in [0..m - 1 -> V] /\ g[m - 1] \in V BY <2>3, <2>4
    <2>6. step[<<m, g[m - 1]>>] \in V BY <2>5, <2>1
    <2>7. h \in [0..m -> V] BY <2>5, <2>6, <2>3
    <2>8. h[0] = init BY <2>4, <2>2, <2>3
    <2>9. ASSUME NEW i \in 1..m PROVE h[i] = step[<<i, h[i - 1]>>]
      <3>1. h[i - 1] = g[i - 1] BY <2>3
      <3>2. CASE i = m BY <3>1, <3>2
      <3>3. CASE i # m
        <4>1. i \in 1..m - 1 BY <3>3, <2>3
        <4>q. QED BY <4>1, <3>1, <3>3, <2>4, <2>3
      <3>q. QED BY <3>2, <3>3
    <2>10. h \in A(m) BY <2>7, <2>8, <2>9
    <2>q. QED BY <2>10, <2>1
  <1>2. ASSUME NEW m \in Nat, NEW n \in Nat, m <= n, NEW g \in A(m), NEW h \in A(n)
        PROVE  g[m] = h[m]
    <2> DEFINE S == {i \in 0..m : g[i] # h[i]}
    <2>1. SUFFICES ASSUME S # {} PROVE FALSE OBVIOUS
    <2>2. PICK i \in S : \A k \in S : i <= k
      <3>1. S \in SUBSET Nat OBVIOUS
      <3>q. QED BY <3>1, <2>1, LeastExists
    <2>3. i # 0 OBVIOUS
    <2>4. i - 1 \in 0..m /\ i \in 1..m /\ i \in 1..n BY <2>3, <1>2
    <2>5. i - 1 \notin S BY <2>2, <2>4
    <2>q. QED BY <2>4, <2>5
  <1> DEFINE pick(n) == CHOOSE g : g \in A(n)
             f == [n \in Nat |-> pick(n)[n]]
  <1>3. \A n \in Nat : pick(n) \in A(n) BY <1>1
  <1>4. f \in [Nat -> V]
    <2>1. ASSUME NEW n \in Nat PROVE pick(n)[n] \in V
      <3>1. pick(n) \in [0..n -> V] BY <1>3
      <3>q. QED BY <3>1
    <2>q. QED BY <2>1
  <1>5. f[0] = init
    <2>1. pick(0) \in A(0) BY <1>3
    <2>q. QED BY <2>1
  <1>6. ASSUME NEW i \in Nat \ {0} PROVE f[i] = step[<<i, f[i - 1]>>]
    <2>1. i - 1 \in Nat /\ i \in 1..i OBVIOUS
    <2>2. pick(i) \in A(i) /\ pick(i - 1) \in A(i - 1) BY <2>1, <1>3
    <2>3. pick(i)[i] = step[<<i, pick(i)[i - 1]>>] BY <2>1, <2>2
    <2>4. pick(i - 1)[i - 1] = pick(i)[i - 1]
      <3> HIDE DEF A, pick
      <3>q. QED BY <2>1, <2>2, <1>2
    <2>q. QED BY <2>1, <2>3, <2>4
  <1>q. QED BY <1>4, <1>5, <1>6 DEF Recursion

\* One row of the walk, and the walk as a function with that step.
Walked == [expected : Nat, bad : Nat]
WalkStep(limit, i, v) ==
    IF v.bad # 0 \/ i \notin Scanned(limit) \cap DOMAIN rows THEN v
    ELSE IF rows[i].prev # v.expected THEN [v EXCEPT !.bad = i]
    ELSE [v EXCEPT !.expected = i]
IsWalk(limit, g) ==
    /\ g \in [Nat -> Walked]
    /\ g[0] = [expected |-> Seed(limit), bad |-> 0]
    /\ \A i \in Nat \ {0} : g[i] = WalkStep(limit, i, g[i - 1])

LEMMA VerifyWalks ==
    ASSUME TypeOK, NEW limit \in Nat
    PROVE  \E g : IsWalk(limit, g) /\ Verify(limit) = g[last].bad
  <1> DEFINE init == [expected |-> Seed(limit), bad |-> 0]
             step == [p \in Nat \X Walked |-> WalkStep(limit, p[1], p[2])]
             body(g) == [i \in Nat |->
                IF i = 0 THEN [expected |-> Seed(limit), bad |-> 0]
                ELSE LET v == g[i - 1] IN
                     IF v.bad # 0 \/ i \notin Scanned(limit) \cap DOMAIN rows THEN v
                     ELSE IF rows[i].prev # v.expected THEN [v EXCEPT !.bad = i]
                     ELSE [v EXCEPT !.expected = i]]
             walk == CHOOSE g : g = body(g)
  <1>1. init \in Walked
    <2>1. Seed(limit) \in Nat
      <3>1. {i \in DOMAIN rows : \A j \in Scanned(limit) : i < j} \in SUBSET (0..last) BY RowIds
      <3>q. QED BY <3>1, RowIds, NewestIsGreatest DEF Seed
    <2>q. QED BY <2>1 DEF Walked
  <1>2. ASSUME NEW i \in Nat, NEW v \in Walked PROVE WalkStep(limit, i, v) \in Walked
    BY DEF WalkStep, Walked
  <1>3. step \in [Nat \X Walked -> Walked] BY <1>2
  <1>4. PICK h : Recursion(h, Walked, init, step)
    <2> HIDE DEF init, step
    <2>q. QED BY <1>1, <1>3, RecursionExists, Zenon
  <1>w. /\ h \in [Nat -> Walked] /\ h[0] = init
        /\ \A i \in Nat \ {0} : h[i] = WalkStep(limit, i, h[i - 1])
    <2>1. /\ h \in [Nat -> Walked] /\ h[0] = init
          /\ \A i \in Nat \ {0} : h[i] = step[<<i, h[i - 1]>>]
      BY <1>4 DEF Recursion
    <2>2. ASSUME NEW i \in Nat \ {0} PROVE step[<<i, h[i - 1]>>] = WalkStep(limit, i, h[i - 1])
      <3>1. i - 1 \in Nat /\ h[i - 1] \in Walked BY <2>1
      <3>q. QED BY <3>1
    <2>q. QED BY <2>1, <2>2
  <1>5. h = body(h)
    <2>1. h = [i \in Nat |-> h[i]] BY <1>w
    <2>2. ASSUME NEW i \in Nat
          PROVE  h[i] = IF i = 0 THEN init ELSE WalkStep(limit, i, h[i - 1])
      <3>1. CASE i # 0
        <4>1. i - 1 \in Nat /\ h[i - 1] \in Walked BY <3>1, <1>w
        <4>q. QED BY <3>1, <4>1, <1>w
      <3>q. QED BY <3>1, <1>w
    <2>q. QED BY <2>1, <2>2 DEF WalkStep
  <1>6. walk = body(walk) BY <1>5
  <1>7. Verify(limit) = walk[last].bad BY DEF Verify
  <1>8. walk = h
    <2> DEFINE S == {i \in Nat : walk[i] # h[i]}
    <2>1. walk = [i \in Nat |-> walk[i]] /\ h = [i \in Nat |-> h[i]] BY <1>6, <1>w
    <2>2. S = {}
      <3> SUFFICES ASSUME S # {} PROVE FALSE OBVIOUS
      <3>1. PICK i \in S : \A k \in S : i <= k BY LeastExists
      <3>2. walk[0] = init BY <1>6
      <3>3. i # 0 BY <3>1, <3>2, <1>w
      <3>4. i - 1 \in Nat /\ ~(i <= i - 1) BY <3>3
      <3>5. walk[i - 1] = h[i - 1] BY <3>1, <3>4
      <3>6. walk[i] = WalkStep(limit, i, walk[i - 1])
        <4>1. body(walk)[i] = WalkStep(limit, i, walk[i - 1]) BY <3>3 DEF WalkStep
        <4>q. QED BY <4>1, <1>6
      <3>q. QED BY <3>1, <3>3, <3>5, <3>6, <1>w
    <2>3. \A i \in Nat : walk[i] = h[i] BY <2>2
    <2>q. QED BY <2>1, <2>3
  <1>q. QED BY <1>7, <1>8, <1>w DEF IsWalk

\* A row that is not scanned lies below all that are; the seed is the newest of these.
LEMMA ScanIsUpper ==
    ASSUME TypeOK, NEW limit \in Nat
    PROVE  /\ \A i \in DOMAIN rows, j \in Scanned(limit) : i \notin Scanned(limit) => i < j
           /\ Seed(limit) = Newest({j \in DOMAIN rows : j \notin Scanned(limit)})
  <1> DEFINE above(i) == {j \in Present : j > i}
  <1>p. Present \subseteq 0..last /\ last \in Nat /\ IsFiniteSet(Present)
    <2>1. Present \subseteq 0..last /\ last \in Nat BY RowIds, LegacyAssumption DEF Present, TypeOK
    <2>2. IsFiniteSet(0..last) BY <2>1, FS_Interval
    <2>q. QED BY <2>1, <2>2, FS_Subset
  <1>1. CASE limit = 0
    <2>1. DOMAIN rows \subseteq Scanned(limit) BY <1>1 DEF Scanned, Present
    <2>2. {j \in DOMAIN rows : j \notin Scanned(limit)} = {} BY <2>1
    <2>3. Newest({j \in DOMAIN rows : j \notin Scanned(limit)}) = 0 BY <2>2 DEF Newest
    <2>q. QED BY <1>1, <2>1, <2>3 DEF Seed
  <1>2. CASE limit # 0
    <2>1. ASSUME NEW i \in Present, NEW j \in Present, i < j, i \in Scanned(limit)
          PROVE  j \in Scanned(limit)
      <3>1. above(j) \subseteq above(i)
        <4>1. ASSUME NEW k \in Present, k > j PROVE k > i BY <2>1, <4>1, <1>p
        <4>q. QED BY <4>1
      <3>2. IsFiniteSet(above(i)) BY <1>p, FS_Subset
      <3>3. /\ Cardinality(above(j)) <= Cardinality(above(i))
            /\ Cardinality(above(j)) \in Nat /\ Cardinality(above(i)) \in Nat
        BY <3>1, <3>2, FS_Subset, FS_CardinalityType
      <3>4. Cardinality(above(i)) < limit BY <1>2, <2>1 DEF Scanned
      <3>5. Cardinality(above(j)) < limit BY <3>3, <3>4
      <3>q. QED BY <1>2, <3>5 DEF Scanned
    <2>2. ASSUME NEW i \in DOMAIN rows, NEW j \in Scanned(limit), i \notin Scanned(limit)
          PROVE  i < j
      <3>1. i \in Present /\ j \in Present BY <1>2 DEF Scanned, Present
      <3>2. i # j /\ ~(j < i) BY <3>1, <2>1, <2>2
      <3>q. QED BY <3>1, <3>2, <1>p
    <2>3. {i \in DOMAIN rows : \A j \in Scanned(limit) : i < j}
              = {j \in DOMAIN rows : j \notin Scanned(limit)}
      <3>1. ASSUME NEW i \in DOMAIN rows, i \in Scanned(limit) PROVE ~(i < i)
        BY RowIds
      <3>q. QED BY <2>2, <3>1
    <2>q. QED BY <1>2, <2>2, <2>3 DEF Seed
  <1>q. QED BY <1>1, <1>2

Broken(limit) ==
    {i \in Scanned(limit) \cap DOMAIN rows : rows[i].prev # Newest({j \in DOMAIN rows : j < i})}
\* What the walk has taken as the predecessor after it looked at the ids up to i.
Behind(limit, i) == {j \in DOMAIN rows : j \notin Scanned(limit) \/ j <= i}
\* After those ids it stands at the first broken row, or expects the newest hash behind it.
WalkedTo(limit, g, i) ==
    IF \E b \in Broken(limit) : b <= i
    THEN g[i].bad \in Broken(limit) /\ \A b \in Broken(limit) : g[i].bad <= b
    ELSE g[i] = [expected |-> Newest(Behind(limit, i)), bad |-> 0]

LEMMA WalkProgress ==
    ASSUME TypeOK, NEW limit \in Nat, NEW g, IsWalk(limit, g), NEW i \in Nat \ {0},
           WalkedTo(limit, g, i - 1)
    PROVE  WalkedTo(limit, g, i)
  <1>n. i - 1 \in Nat /\ last \in Nat /\ DOMAIN rows \subseteq 1..last
    BY LegacyAssumption DEF TypeOK
  <1>b. Broken(limit) \subseteq 1..last BY <1>n DEF Broken
  <1>g. g[i] = WalkStep(limit, i, g[i - 1]) BY DEF IsWalk
  <1>1. CASE \E b \in Broken(limit) : b <= i - 1
    <2>1. g[i - 1].bad \in Broken(limit) /\ \A b \in Broken(limit) : g[i - 1].bad <= b
      BY <1>1 DEF WalkedTo
    <2>2. g[i - 1].bad # 0 BY <2>1, <1>b
    <2>3. g[i] = g[i - 1] BY <2>2, <1>g DEF WalkStep
    <2>4. \E b \in Broken(limit) : b <= i BY <1>1, <1>b, <1>n
    <2>q. QED BY <2>1, <2>3, <2>4 DEF WalkedTo
  <1>2. CASE ~\E b \in Broken(limit) : b <= i - 1
    <2>1. g[i - 1] = [expected |-> Newest(Behind(limit, i - 1)), bad |-> 0] BY <1>2 DEF WalkedTo
    <2>2. CASE i \notin Scanned(limit) \cap DOMAIN rows
      <3>1. g[i] = g[i - 1] BY <2>2, <1>g DEF WalkStep
      <3>2. Behind(limit, i) = Behind(limit, i - 1) BY <2>2, <1>n DEF Behind
      <3>3. i \notin Broken(limit) BY <2>2 DEF Broken
      <3>4. ~\E b \in Broken(limit) : b <= i BY <1>2, <3>3, <1>b
      <3>q. QED BY <2>1, <3>1, <3>2, <3>4 DEF WalkedTo
    <2>3. CASE i \in Scanned(limit) \cap DOMAIN rows
      <3>1. Behind(limit, i - 1) = {j \in DOMAIN rows : j < i}
        <4>1. \A j \in DOMAIN rows : j \notin Scanned(limit) => j < i BY <2>3, ScanIsUpper
        <4>2. \A j \in DOMAIN rows : j <= i - 1 <=> j < i BY <1>n
        <4>q. QED BY <4>1, <4>2 DEF Behind
      <3>2. CASE i \in Broken(limit)
        <4>1. rows[i].prev # g[i - 1].expected BY <3>1, <3>2, <2>1 DEF Broken
        <4>2. g[i].bad = i BY <4>1, <2>1, <2>3, <1>g DEF WalkStep
        <4>3. \A b \in Broken(limit) : i <= b BY <1>2, <1>b
        <4>4. \E b \in Broken(limit) : b <= i BY <3>2
        <4>q. QED BY <3>2, <4>2, <4>3, <4>4 DEF WalkedTo
      <3>3. CASE i \notin Broken(limit)
        <4>1. rows[i].prev = g[i - 1].expected BY <3>1, <3>3, <2>1, <2>3 DEF Broken
        <4>2. g[i] = [expected |-> i, bad |-> 0] BY <4>1, <2>1, <2>3, <1>g DEF WalkStep
        <4>3. Newest(Behind(limit, i)) = i
          <5>1. Behind(limit, i) \in SUBSET (0..last) BY <1>n DEF Behind
          <5>2. i \in Behind(limit, i) BY <2>3 DEF Behind
          <5>3. \A j \in Behind(limit, i) : j <= i
            <6>1. \A j \in DOMAIN rows : j \notin Scanned(limit) => j < i BY <2>3, ScanIsUpper
            <6>q. QED BY <6>1, <1>n DEF Behind
          <5>q. QED BY <5>1, <5>2, <5>3, <1>n, NewestIs
        <4>4. ~\E b \in Broken(limit) : b <= i BY <1>2, <3>3, <1>b
        <4>q. QED BY <4>2, <4>3, <4>4 DEF WalkedTo
      <3>q. QED BY <3>2, <3>3
    <2>q. QED BY <2>2, <2>3
  <1>q. QED BY <1>1, <1>2

\* The verifier reports the first scanned row that does not name the hashed row
\* below it, and nothing when there is none.
LEMMA VerifyFindsFirst ==
    ASSUME TypeOK, NEW limit \in Nat
    PROVE  IF Broken(limit) = {} THEN Verify(limit) = 0
           ELSE Verify(limit) \in Broken(limit) /\ \A b \in Broken(limit) : Verify(limit) <= b
  <1>1. PICK g : IsWalk(limit, g) /\ Verify(limit) = g[last].bad BY VerifyWalks
  <1>n. last \in Nat /\ DOMAIN rows \subseteq 1..last BY LegacyAssumption DEF TypeOK
  <1>b. Broken(limit) \subseteq 1..last BY <1>n DEF Broken
  <1>2. WalkedTo(limit, g, 0)
    <2>1. ~\E b \in Broken(limit) : b <= 0 BY <1>b
    <2>2. Behind(limit, 0) = {j \in DOMAIN rows : j \notin Scanned(limit)} BY <1>n DEF Behind
    <2>3. g[0] = [expected |-> Newest(Behind(limit, 0)), bad |-> 0]
      BY <1>1, <2>2, ScanIsUpper DEF IsWalk
    <2>q. QED BY <2>1, <2>3 DEF WalkedTo
  <1> DEFINE S == {i \in Nat : ~WalkedTo(limit, g, i)}
  <1>3. S = {}
    <2> SUFFICES ASSUME S # {} PROVE FALSE OBVIOUS
    <2>1. PICK i \in S : \A k \in S : i <= k BY LeastExists
    <2>2. i # 0 BY <1>2, <2>1
    <2>3. i \in Nat \ {0} /\ i - 1 \in Nat /\ ~(i <= i - 1) BY <2>2, <2>1
    <2>4. WalkedTo(limit, g, i - 1) BY <2>1, <2>3
    <2>q. QED BY <2>1, <2>3, <2>4, <1>1, WalkProgress
  <1>4. WalkedTo(limit, g, last) BY <1>3, <1>n
  <1>5. \A b \in Broken(limit) : b <= last BY <1>b
  <1>6. CASE Broken(limit) = {} BY <1>1, <1>4, <1>6 DEF WalkedTo
  <1>7. CASE Broken(limit) # {} BY <1>1, <1>4, <1>5, <1>7 DEF WalkedTo
  <1>q. QED BY <1>6, <1>7

\* A log whose rows were committed in the order of their ids is reported intact
\* (_chain_and_sign, verify_chain): the lock makes each name the row before it.
THEOREM InOrderVerifies == Spec => []InOrderIsIntact
  <1>1. Inv => InOrderIsIntact
    <2> SUFFICES ASSUME Inv, InOrder PROVE Verify(0) = 0 BY DEF InOrderIsIntact, InOrder
    <2>1. Linked BY DEF Inv, LinkedIfInOrder
    <2>2. Broken(0) = {} BY <2>1 DEF Broken, Linked
    <2>q. QED BY <2>2, VerifyFindsFirst DEF Inv
  <1>q. QED BY <1>1, Invariance, PTL

\* A scan of the newest rows reports of them what a full walk would
\* (verify_chain with a limit), wherever in the log it begins.
THEOREM ScopesAgree == Spec => []ScopeAgrees
  <1>1. Inv => ScopeAgrees
    <2> SUFFICES ASSUME Inv, NEW limit \in 1..MaxId
                 PROVE  IF Broken(limit) = {} THEN Verify(limit) = 0
                        ELSE Verify(limit) \in Broken(limit)
                             /\ \A i \in Broken(limit) : Verify(limit) <= i
      BY DEF ScopeAgrees, Broken
    <2>1. limit \in Nat BY LegacyAssumption
    <2>q. QED BY <2>1, VerifyFindsFirst DEF Inv
  <1>q. QED BY <1>1, Invariance, PTL
=============================================================================
