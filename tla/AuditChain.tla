------------------------------ MODULE AuditChain ------------------------------
(***************************************************************************)
(* The tamper-evident audit log: every row carries the hash of the row     *)
(* before it.  A writer inserts its row, which gives it an id, then takes  *)
(* PostgreSQL's advisory lock, reads the newest hash, and commits; several *)
(* processes write at once.  The verifier walks the rows by id.  Purging   *)
(* stored activations writes its row first and deletes only after that.    *)
(*                                                                         *)
(* A row's hash covers its id and contents, so the id stands for the hash: *)
(* prev is the id of the row whose hash was copied, 0 at the beginning.    *)
(* Signatures are left out: the key is taken to be provisioned and stay.   *)
(***************************************************************************)
EXTENDS Naturals, Sequences, FiniteSets

CONSTANTS
    Writers,      \* requests and background threads that write a row
    Activations,  \* stored activations a purge can delete
    Legacy,       \* rows from before the migration, without a hash
    MaxId,        \* bound: ids the sequence hands out
    None

ASSUME LegacyAssumption == Legacy \in Nat /\ MaxId \in Nat /\ Legacy <= MaxId
ASSUME NoneAssumption == None \notin Writers /\ None \notin Activations

VARIABLES
    rows,     \* committed rows with a hash, by id
    last,     \* the sequence: the last id handed out
    lock,     \* holder of the advisory lock
    at,       \* where each writer is
    about,    \* the activation its row announces the deletion of
    id,       \* the id its row was given
    prev,     \* the hash it copied
    stored,   \* activations not deleted
    order     \* history: ids in the order their rows were committed

writerVars == <<at, about, id, prev>>
vars == <<rows, last, lock, writerVars, stored, order>>

Row == [prev : Nat, about : Activations \cup {None}]

TypeOK ==
    /\ DOMAIN rows \subseteq Legacy + 1..last
    /\ \A i \in DOMAIN rows : rows[i] \in Row
    /\ last \in Legacy..MaxId
    /\ lock \in Writers \cup {None}
    /\ at \in [Writers -> {"idle", "inserted", "chained", "audited"}]
    /\ about \in [Writers -> Activations \cup {None}]
    /\ id \in [Writers -> Nat] /\ prev \in [Writers -> Nat]
    /\ stored \subseteq Activations
    /\ order \in Seq(DOMAIN rows)

Init ==
    /\ rows = [i \in {} |-> [prev |-> 0, about |-> None]]
    /\ last = Legacy /\ lock = None
    /\ at = [w \in Writers |-> "idle"]
    /\ about = [w \in Writers |-> None]
    /\ id = [w \in Writers |-> 0] /\ prev = [w \in Writers |-> 0]
    /\ stored = Activations /\ order = <<>>

-----------------------------------------------------------------------------
(* AuditLogger.log: one transaction.                                       *)

\* Add and flush: the sequence gives an id away for good.
Insert(w, a) ==
    /\ at[w] = "idle" /\ last < MaxId
    /\ last' = last + 1
    /\ id' = [id EXCEPT ![w] = last + 1]
    /\ about' = [about EXCEPT ![w] = a]
    /\ at' = [at EXCEPT ![w] = "inserted"]
    /\ UNCHANGED <<rows, lock, prev, stored, order>>

Newest(S) == IF S = {} THEN 0 ELSE CHOOSE i \in S : \A j \in S : j <= i

LockFreeAlways(w) == TRUE                                  \* mutant
LockFree(w) == lock = None

\* Rows visible to a writer that holds the lock: the committed ones.
VisibleUncommitted(w) ==                                   \* mutant
    DOMAIN rows \cup {id[v] : v \in {v \in Writers \ {w} : at[v] = "inserted"}}
Visible(w) == DOMAIN rows

\* _chain_and_sign: lock, then copy the hash of the row with the highest id.
Chain(w) ==
    /\ at[w] = "inserted" /\ LockFree(w)
    /\ lock' = w
    /\ prev' = [prev EXCEPT ![w] = Newest(Visible(w))]
    /\ at' = [at EXCEPT ![w] = "chained"]
    /\ UNCHANGED <<rows, last, about, id, stored, order>>

\* The end of the transaction releases the lock.
CommitNewestId(w) ==                                        \* mutant
    /\ at[w] = "chained"
    /\ rows' = [i \in DOMAIN rows \cup {last + 1} |->
                    IF i = last + 1 THEN [prev |-> prev[w], about |-> about[w]] ELSE rows[i]]
    /\ order' = Append(order, last + 1)
    /\ lock' = None
    /\ at' = [at EXCEPT ![w] = IF about[w] = None THEN "idle" ELSE "audited"]
    /\ UNCHANGED <<last, about, id, prev, stored>>
Commit(w) ==
    /\ at[w] = "chained"
    /\ rows' = [i \in DOMAIN rows \cup {id[w]} |->
                    IF i = id[w] THEN [prev |-> prev[w], about |-> about[w]] ELSE rows[i]]
    /\ order' = Append(order, id[w])
    /\ lock' = None
    /\ at' = [at EXCEPT ![w] = IF about[w] = None THEN "idle" ELSE "audited"]
    /\ UNCHANGED <<last, about, id, prev, stored>>

\* An error, or the end of the process, rolls the row back; log() returns all the
\* same, or raises when its caller asked for that, and the purge is given up.
FailRegardless(w) ==                                       \* mutant
    /\ at[w] \in {"inserted", "chained"}
    /\ lock' = IF lock = w THEN None ELSE lock
    /\ at' = [at EXCEPT ![w] = IF about[w] = None THEN "idle" ELSE "audited"]
    /\ UNCHANGED <<rows, last, about, id, prev, stored, order>>
Fail(w) ==
    /\ at[w] \in {"inserted", "chained"}
    /\ lock' = IF lock = w THEN None ELSE lock
    /\ at' = [at EXCEPT ![w] = "idle"]
    /\ UNCHANGED <<rows, last, about, id, prev, stored, order>>

\* purge_manual_eas_events goes on with its row committed: the deletion, or its failure.
Purge(w) ==
    /\ at[w] = "audited"
    /\ stored' \in {stored, stored \ {about[w]}}
    /\ at' = [at EXCEPT ![w] = "idle"]
    /\ UNCHANGED <<rows, last, lock, about, id, prev, order>>

Log(w) ==
    \/ \E a \in stored \cup {None} : Insert(w, a)
    \/ Chain(w) \/ Commit(w) \/ Fail(w) \/ Purge(w)
Next == \E w \in Writers : Log(w)

Spec == Init /\ [][Next]_vars

-----------------------------------------------------------------------------
(* verify_chain.                                                           *)

Present == 1..Legacy \cup DOMAIN rows

\* The rows looked at: all, or the newest limit.
Scanned(limit) ==
    IF limit = 0 THEN Present
    ELSE {i \in Present : Cardinality({j \in Present : j > i}) < limit}

\* What the first scanned row must name: with a limit, the newest hash below it.
SeedGenesis(limit) == 0                                    \* mutant
Seed(limit) ==
    IF limit = 0 THEN 0
    ELSE Newest({i \in DOMAIN rows : \A j \in Scanned(limit) : i < j})

\* The walk by id, over rows without a hash and up to the first that does not name
\* the hashed row before it; 0 if there is none.
Verify(limit) ==
    LET walk[i \in Nat] ==
            IF i = 0 THEN [expected |-> Seed(limit), bad |-> 0]
            ELSE LET v == walk[i - 1] IN
                 IF v.bad # 0 \/ i \notin Scanned(limit) \cap DOMAIN rows THEN v
                 ELSE IF rows[i].prev # v.expected THEN [v EXCEPT !.bad = i]
                 ELSE [v EXCEPT !.expected = i]
    IN walk[last].bad

-----------------------------------------------------------------------------
\* The lock serves its purpose for rows that are committed in the order of their
\* ids: then no row is reported, however the writers' steps, failures and gaps in
\* the ids fall.  (Ids are given out before the lock is taken: see NoFork.)
InOrderIsIntact ==
    (\A i, j \in DOMAIN order : i < j => order[i] < order[j]) => Verify(0) = 0

\* A scan of the newest rows says of them what a full scan of a good log would:
\* it reports the first row in its range that does not follow the one below it.
ScopeAgrees ==
    \A limit \in 1..MaxId :
        LET broken == {i \in Scanned(limit) \cap DOMAIN rows :
                          rows[i].prev # Newest({j \in DOMAIN rows : j < i})}
        IN IF broken = {} THEN Verify(limit) = 0
           ELSE Verify(limit) \in broken /\ \A i \in broken : Verify(limit) <= i

\* "a missing audit row must never accompany a real deletion" (purge_manual_eas_events).
DeletionIsRecorded ==
    \A a \in Activations \ stored : \E i \in DOMAIN rows : rows[i].about = a

Links == INSTANCE AppendOnlyLog WITH
             Ids <- 1..MaxId, Genesis <- 0, log <- [i \in DOMAIN rows |-> rows[i].prev]
\* Whatever fails or overtakes, no row changes and none names a row that was not
\* committed before it.
ImplementsLog == Links!Spec

-----------------------------------------------------------------------------
\* "two gunicorn workers can never read the same latest hash and fork the chain"
\* (docs/security/AUDIT_LOG_INTEGRITY.md).
NoFork == \A i, j \in DOMAIN rows : i # j => rows[i].prev # rows[j].prev
=============================================================================
