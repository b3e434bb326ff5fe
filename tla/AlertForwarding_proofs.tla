----------------------- MODULE AlertForwarding_proofs -----------------------
(***************************************************************************)
(* Proofs about AlertForwarding, for any sets of alerts, threads and       *)
(* counties and any bounds: the type invariant, the guarantee of the       *)
(* deduplication lock, the finality of a cancel that came in time, the one *)
(* airing of an issuance, the original of a duplicate, and the hold-off.   *)
(***************************************************************************)
EXTENDS AlertForwarding, TLAPS

\* A thread that is not idle has an alert to work on.
Employed == \A w \in Workers : ~Idle(w) => job[w] \in Alerts
TypeInv  == TypeOK /\ Employed

\* The lock excludes; only a thread past its lock, whose alert has a key, holds
\* it, and such a thread holds it until its record is committed.
LockExcludes == \A v, w \in holds : LockKey(job[v]) = LockKey(job[w]) => v = w
Holding(w) ==
    /\ pc[w] \in {"dedup", "record", "stamp"} \/ (pc[w] = "gate" /\ job[w] \in Relays)
    /\ Fips[job[w]] # {}
HoldersBusy == \A w \in holds : Holding(w)
Guarded(w) ==
    /\ pc[w] \in {"dedup", "record"} \/ (pc[w] = "gate" /\ job[w] \in Relays)
    /\ job[w] \notin Upgrade /\ Fips[job[w]] # {}
PastLockHolds == \A w \in Workers : Guarded(w) => w \in holds
LockInv == LockExcludes /\ HoldersBusy /\ PastLockHolds /\ LockedCheckStaysTrue

\* An alert with a gate row is not of the kind that bypasses the gate; an
\* operator's request works on a row that exists; a cancel that came in time
\* left its row cancelled and nobody bound to air it.
HeldNotBypassing == \A a \in Alerts : gate[a] # "none" => a \notin Bypass
RequestHasRow == \A w \in Workers : pc[w] \in {"approve", "cancel", "release"} => gate[job[w]] # "none"
ListedHasRow == \A s \in Sweepers : \A a \in todo[s] : gate[a] # "none"
VetoHolds == \A a \in Alerts : veto[a] = "inTime" =>
                gate[a] = "cancelled" /\ \A w \in Workers : ~Committed(w, a)
CancelInv == HeldNotBypassing /\ RequestHasRow /\ ListedHasRow /\ VetoHolds

-----------------------------------------------------------------------------
USE DEF Alerts, Sweepers, Workers, Replayers, Batchers

\* A thread that is not idle has an alert to work on.
Busy == ThreadTypes /\ Employed

LEMMA TypeInit == Init => TypeInv
  <1> SUFFICES ASSUME Init PROVE TypeInv OBVIOUS
  <1>1. RowTypes BY DEF Init, RowTypes, Reasons
  <1>2. GateTypes BY DEF Init, GateTypes, GateStatus
  <1>3. AirTypes BY DEF Init, AirTypes
  <1>4. ThreadTypes BY DEF Init, ThreadTypes, GateStatus, Reasons, Labels
  <1>5. ListTypes BY DEF Init, ListTypes
  <1>6. BoundTypes BY BoundsAssumption DEF Init, BoundTypes
  <1>7. Employed BY DEF Init, Employed, Idle
  <1>q. QED BY <1>1, <1>2, <1>3, <1>4, <1>5, <1>6, <1>7 DEF TypeInv, TypeOK

LEMMA StartTypes ==
    ASSUME Busy, NEW w \in Workers, NEW l \in Labels, NEW a \in Alerts, Start(w, l, a)
    PROVE  Busy'
  BY DEF Busy, ThreadTypes, Start, GoTo, Employed, Idle

LEMMA GoToTypes ==
    ASSUME Busy, NEW w \in Workers, NEW l \in Labels, ~Idle(w), GoTo(w, l),
           job' = job, seen' \in [Workers -> GateStatus],
           verdict' \in [Workers -> Reasons], holds' \subseteq Workers
    PROVE  Busy'
  BY DEF Busy, ThreadTypes, GoTo, Employed, Idle

LEMMA ReturnTypes ==
    ASSUME Busy, NEW w \in Workers, Return(w)
    PROVE  Busy'
  BY DEF Busy, ThreadTypes, Return, GoTo, Employed, Idle, Labels, GateStatus, Reasons

LEMMA ConcludeTypes ==
    ASSUME Busy, NEW w \in Workers, ~Idle(w), NEW r \in Reasons, Conclude(w, r)
    PROVE  Busy'
  <1>1. CASE job[w] \in Caps
    BY <1>1, GoToTypes DEF Busy, ThreadTypes, Conclude, Labels
  <1>2. CASE job[w] \notin Caps
    BY <1>2, ReturnTypes DEF Conclude
  <1>q. QED BY <1>1, <1>2
LEMMA Frames ==
    ASSUME TypeInv
    PROVE  /\ UNCHANGED <<feedVars, reason, expired, aged, bygone>> => RowTypes'
           /\ UNCHANGED <<gate, due, gating, veto>> => GateTypes'
           /\ UNCHANGED airVars => AirTypes'
           /\ UNCHANGED jobVars => Busy'
           /\ UNCHANGED listVars => ListTypes'
           /\ UNCHANGED <<heard, crashes>> => BoundTypes'
  <1>1. UNCHANGED <<feedVars, reason, expired, aged, bygone>> => RowTypes'
    BY DEF TypeInv, TypeOK, RowTypes, feedVars
  <1>2. UNCHANGED <<gate, due, gating, veto>> => GateTypes'
    BY DEF TypeInv, TypeOK, GateTypes
  <1>3. UNCHANGED airVars => AirTypes'
    BY DEF TypeInv, TypeOK, AirTypes, airVars
  <1>4. UNCHANGED jobVars => Busy'
    BY DEF TypeInv, TypeOK, ThreadTypes, Busy, Employed, Idle, jobVars
  <1>5. UNCHANGED listVars => ListTypes'
    BY DEF TypeInv, TypeOK, ListTypes, listVars
  <1>6. UNCHANGED <<heard, crashes>> => BoundTypes'
    BY DEF TypeInv, TypeOK, BoundTypes
  <1>q. QED BY <1>1, <1>2, <1>3, <1>4, <1>5, <1>6

LEMMA Reassemble ==
    /\ RowTypes /\ GateTypes /\ AirTypes /\ Busy /\ ListTypes /\ BoundTypes <=> TypeInv
    /\ (RowTypes /\ GateTypes /\ AirTypes /\ Busy /\ ListTypes /\ BoundTypes)' <=> TypeInv'
  BY DEF TypeInv, TypeOK, Busy

\* The poll thread.
LEMMA IngestTypes == TypeInv /\ (Ingest \/ Link \/ CatchUp) => TypeInv'
  <1> SUFFICES ASSUME TypeInv, Ingest \/ Link \/ CatchUp PROVE TypeInv' OBVIOUS
  <1> USE DEF feedVars, timeVars, airVars, listVars
  <1>b. Busy /\ RowTypes /\ ListTypes BY Reassemble
  <1>1. ASSUME NEW a \in Caps, Insert(a) PROVE TypeInv'
    <2>1. RowTypes' BY <1>1, <1>b DEF Insert, RowTypes
    <2>2. Busy' BY <1>1, <1>b, StartTypes DEF Insert, Labels
    <2>q. QED BY <1>1, <2>1, <2>2, Frames, Reassemble DEF Insert
  <1>2. ASSUME Link PROVE TypeInv'
    <2>1. RowTypes'
      BY <1>2, <1>b DEF Link, RowTypes, Stored
    <2>2. Busy'
      BY <1>2, <1>b, ReturnTypes, GoToTypes DEF Link, Busy, ThreadTypes, At, Idle, Labels
    <2>q. QED BY <1>2, <2>1, <2>2, Frames, Reassemble DEF Link
  <1>3. ASSUME NEW a \in Caps, Repoll(a) \/ CancelByReference(a) PROVE TypeInv'
    <2>1. RowTypes' BY <1>3, <1>b DEF Repoll, CancelByReference, RowTypes
    <2>q. QED BY <1>3, <2>1, Frames, Reassemble DEF Repoll, CancelByReference
  <1>4. ASSUME StampMissed PROVE TypeInv'
    <2>1. RowTypes' BY <1>4, <1>b DEF StampMissed, RowTypes, Reasons
    <2>q. QED BY <1>4, <2>1, Frames, Reassemble DEF StampMissed
  <1>5. ASSUME RetryQuery PROVE TypeInv'
    <2>1. ListTypes' BY <1>5, <1>b DEF RetryQuery, ListTypes, Retriable, Undecided, Stored
    <2>q. QED BY <1>5, <2>1, Frames, Reassemble DEF RetryQuery
  <1>6. ASSUME NEW a \in Caps, Retry(a) PROVE TypeInv'
    <2>1. ListTypes' BY <1>6, <1>b DEF Retry, ListTypes
    <2>2. Busy' BY <1>6, <1>b, StartTypes DEF Retry, Labels
    <2>q. QED BY <1>6, <2>1, <2>2, Frames, Reassemble DEF Retry
  <1>q. QED BY <1>1, <1>2, <1>3, <1>4, <1>5, <1>6 DEF Ingest, CatchUp

\* The pipeline, for any thread.
LEMMA PipelineTypes == \A w \in Workers : TypeInv /\ (Pipeline(w) \/ Load(w)) => TypeInv'
  <1> SUFFICES ASSUME NEW w \in Workers, TypeInv, Pipeline(w) \/ Load(w) PROVE TypeInv' OBVIOUS
  <1> USE DEF pipeUnchanged, feedVars, timeVars, airVars, listVars
  <1>b. Busy /\ RowTypes /\ GateTypes /\ AirTypes BY Reassemble
  <1>c. ~Idle(w) /\ job[w] \in Alerts
    BY <1>b DEF Pipeline, Check, Gate, Lock, Dedup, Record, Refuse, Play, Stamp, Load, At, Idle,
                Busy, Employed
  <1>d. GateRow(w) \in GateStatus
    BY <1>b, <1>c DEF GateRow, GateTypes, Busy, ThreadTypes
  <1>1. ASSUME Check(w) PROVE TypeInv'
    <2>1. Busy'
      BY <1>1, <1>b, <1>c, ConcludeTypes, GoToTypes DEF Check, Busy, ThreadTypes, Labels, Reasons
    <2>q. QED BY <1>1, <2>1, Frames, Reassemble DEF Check
  <1>2. ASSUME Gate(w) PROVE TypeInv'
    <2>1. GateTypes' BY <1>2, <1>b DEF Gate, PassGate, GateTypes, GateStatus
    <2>2. Busy'
      <3>1. CASE PassGate(w)
        BY <3>1, <1>b, <1>c, GoToTypes DEF PassGate, Busy, ThreadTypes, Labels
      <3>2. CASE \E r \in {"pending", "cancelled"} : Conclude(w, r)
        BY <3>2, <1>b, <1>c, ConcludeTypes DEF Reasons
      <3>q. QED BY <1>2, <3>1, <3>2 DEF Gate
    <2>q. QED BY <1>2, <2>1, <2>2, Frames, Reassemble DEF Gate
  <1>3. ASSUME Lock(w) PROVE TypeInv'
    <2>1. Busy' BY <1>3, <1>b, <1>c, GoToTypes DEF Lock, Busy, ThreadTypes, Labels
    <2>q. QED BY <1>3, <2>1, Frames, Reassemble DEF Lock
  <1>4. ASSUME Dedup(w) \/ Refuse(w) PROVE TypeInv'
    <2>1. Busy'
      BY <1>4, <1>b, <1>c, ConcludeTypes, GoToTypes
      DEF Dedup, Refuse, Busy, ThreadTypes, Labels, Reasons
    <2>q. QED BY <1>4, <2>1, Frames, Reassemble DEF Dedup, Refuse
  <1>5. ASSUME Record(w) PROVE TypeInv'
    <2>1. AirTypes' BY <1>5, <1>b, <1>c DEF Record, AirTypes
    <2>2. Busy' BY <1>5, <1>b, <1>c, GoToTypes DEF Record, Busy, ThreadTypes, Labels
    <2>q. QED BY <1>5, <2>1, <2>2, Frames, Reassemble DEF Record
  <1>6. ASSUME Play(w) PROVE TypeInv'
    <2>1. AirTypes' BY <1>6, <1>b, <1>c DEF Play, AirTypes
    <2>2. Busy' BY <1>6, <1>b, <1>c, ConcludeTypes DEF Play, Reasons
    <2>q. QED BY <1>6, <2>1, <2>2, Frames, Reassemble DEF Play
  <1>7. ASSUME Stamp(w) PROVE TypeInv'
    <2>1. RowTypes' BY <1>7, <1>b DEF Stamp, RowTypes, Busy, ThreadTypes
    <2>2. Busy' BY <1>7, <1>b, ReturnTypes DEF Stamp
    <2>q. QED BY <1>7, <2>1, <2>2, Frames, Reassemble DEF Stamp
  <1>8. ASSUME Load(w) PROVE TypeInv'
    <2>1. seen' \in [Workers -> GateStatus]
      BY <1>8, <1>b, <1>c DEF Load, GateTypes, Busy, ThreadTypes
    <2>2. Busy' BY <1>8, <2>1, <1>b, <1>c, GoToTypes DEF Load, Busy, ThreadTypes, Labels
    <2>q. QED BY <1>8, <2>2, Frames, Reassemble DEF Load
  <1>q. QED BY <1>1, <1>2, <1>3, <1>4, <1>5, <1>6, <1>7, <1>8 DEF Pipeline

\* Sweepers, decoders and operators.
LEMMA QueueTypes ==
    TypeInv /\ (\/ \E s \in Sweepers : Sweep(s)
                \/ \E o \in Operators : Operate(o)
                \/ \E m \in Monitors, a \in Relays : Decode(m, a)
                \/ \E o \in Operators, l \in {"approve", "cancel"}, a \in Alerts : Open(o, l, a))
    => TypeInv'
  <1> SUFFICES ASSUME TypeInv,
                      \/ \E s \in Sweepers : Sweep(s)
                      \/ \E o \in Operators : Operate(o)
                      \/ \E m \in Monitors, a \in Relays : Decode(m, a)
                      \/ \E o \in Operators, l \in {"approve", "cancel"}, a \in Alerts : Open(o, l, a)
               PROVE  TypeInv'
    OBVIOUS
  <1> USE DEF pipeUnchanged, feedVars, timeVars, airVars, listVars
  <1>b. Busy /\ RowTypes /\ GateTypes /\ ListTypes /\ BoundTypes BY Reassemble
  <1>1. ASSUME NEW s \in Sweepers, SweepQuery(s) PROVE TypeInv'
    <2>1. ListTypes' BY <1>1, <1>b DEF SweepQuery, ListTypes, Own
    <2>q. QED BY <1>1, <2>1, Frames, Reassemble DEF SweepQuery
  <1>2. ASSUME NEW s \in Sweepers, NEW a \in Alerts, SweepTake(s, a) PROVE TypeInv'
    <2>1. ListTypes' BY <1>2, <1>b DEF SweepTake, ListTypes
    <2>2. Busy' BY <1>2, <1>b, StartTypes, Frames DEF SweepTake, Labels
    <2>q. QED BY <1>2, <2>1, <2>2, Frames, Reassemble DEF SweepTake
  <1>3. ASSUME NEW s \in Sweepers, Release(s) PROVE TypeInv'
    <2>1. GateTypes' BY <1>3, <1>b DEF Release, GateTypes, GateStatus
    <2>2. ListTypes' BY <1>3, <1>b DEF Release, ListTypes
    <2>3. Busy' BY <1>3, <1>b, GoToTypes DEF Release, At, Idle, Busy, ThreadTypes, Labels
    <2>q. QED BY <1>3, <2>1, <2>2, <2>3, Frames, Reassemble DEF Release
  <1>4. ASSUME NEW o \in Operators, Approve(o) PROVE TypeInv'
    <2>1. GateTypes' BY <1>4, <1>b DEF Approve, GateTypes, GateStatus
    <2>2. Busy' BY <1>4, <1>b, GoToTypes DEF Approve, At, Idle, Busy, ThreadTypes, Labels
    <2>q. QED BY <1>4, <2>1, <2>2, Frames, Reassemble DEF Approve
  <1>5. ASSUME NEW o \in Operators, Cancel(o) PROVE TypeInv'
    <2>1. GateTypes' BY <1>5, <1>b DEF Cancel, GateTypes, GateStatus
    <2>2. RowTypes' BY <1>5, <1>b DEF Cancel, RowTypes, Reasons
    <2>3. Busy' BY <1>5, <1>b, ReturnTypes DEF Cancel
    <2>q. QED BY <1>5, <2>1, <2>2, <2>3, Frames, Reassemble DEF Cancel
  <1>6. ASSUME NEW m \in Monitors, NEW a \in Relays, Decode(m, a) PROVE TypeInv'
    <2>1. BoundTypes' BY <1>6, <1>b, BoundsAssumption DEF Decode, BoundTypes
    <2>2. Busy' BY <1>6, <1>b, StartTypes DEF Decode, Labels
    <2>q. QED BY <1>6, <2>1, <2>2, Frames, Reassemble DEF Decode
  <1>7. ASSUME NEW o \in Operators, NEW l \in {"approve", "cancel"}, NEW a \in Alerts, Open(o, l, a)
        PROVE  TypeInv'
    <2>1. Busy' BY <1>7, <1>b, StartTypes DEF Open, Labels
    <2>q. QED BY <1>7, <2>1, Frames, Reassemble DEF Open
  <1>q. QED BY <1>1, <1>2, <1>3, <1>4, <1>5, <1>6, <1>7 DEF Sweep, Operate

\* Time, the operators' switch and crashes.
LEMMA WorldTypes ==
    TypeInv /\ (Time \/ ToggleGating \/ \E p \in Processes : Crash(p)) => TypeInv'
  <1> SUFFICES ASSUME TypeInv, Time \/ ToggleGating \/ \E p \in Processes : Crash(p)
               PROVE  TypeInv'
    OBVIOUS
  <1> USE DEF feedVars, timeVars, airVars, listVars
  <1>b. Busy /\ RowTypes /\ GateTypes /\ AirTypes /\ ListTypes /\ BoundTypes BY Reassemble
  <1>1. ASSUME NEW a \in Alerts, HoldElapses(a) PROVE TypeInv'
    <2>1. GateTypes' BY <1>1, <1>b DEF HoldElapses, GateTypes
    <2>q. QED BY <1>1, <2>1, Frames, Reassemble DEF HoldElapses
  <1>2. ASSUME NEW a \in Alerts, WindowLapses(a) PROVE TypeInv'
    <2>1. AirTypes' BY <1>2, <1>b DEF WindowLapses, AirTypes
    <2>q. QED BY <1>2, <2>1, Frames, Reassemble DEF WindowLapses
  <1>3. ASSUME NEW a \in Caps, Expire(a) PROVE TypeInv'
    <2>1. RowTypes' BY <1>3, <1>b DEF Expire, RowTypes
    <2>q. QED BY <1>3, <2>1, Frames, Reassemble DEF Expire
  <1>6. ASSUME NEW a \in Caps, HourPasses(a) \/ DayPasses(a) PROVE TypeInv'
    <2>1. RowTypes' BY <1>6, <1>b DEF HourPasses, DayPasses, RowTypes
    <2>q. QED BY <1>6, <2>1, Frames, Reassemble DEF HourPasses, DayPasses
  <1>4. ASSUME ToggleGating PROVE TypeInv'
    <2>1. GateTypes' BY <1>4, <1>b DEF ToggleGating, GateTypes
    <2>q. QED BY <1>4, <2>1, Frames, Reassemble DEF ToggleGating
  <1>5. ASSUME NEW p \in Processes, Crash(p) PROVE TypeInv'
    <2>1. ListTypes' BY <1>5, <1>b DEF Crash, ListTypes
    <2>2. BoundTypes' BY <1>5, <1>b, BoundsAssumption DEF Crash, BoundTypes
    <2>3. Busy'
      BY <1>5, <1>b DEF Crash, Busy, ThreadTypes, Employed, Idle, Labels, GateStatus, Reasons
    <2>q. QED BY <1>5, <2>1, <2>2, <2>3, Frames, Reassemble DEF Crash
  <1>q. QED BY <1>1, <1>2, <1>3, <1>4, <1>5, <1>6 DEF Time

LEMMA TypeNext == TypeInv /\ [Next]_vars => TypeInv'
  <1> SUFFICES ASSUME TypeInv, [Next]_vars PROVE TypeInv' OBVIOUS
  <1>1. CASE UNCHANGED vars
    BY <1>1, Frames, Reassemble DEF vars, timeVars
  <1>2. CASE Next
    BY <1>2, IngestTypes, PipelineTypes, QueueTypes, WorldTypes DEF Next
  <1>q. QED BY <1>1, <1>2

LEMMA TypeInvariant == Spec => []TypeInv
  BY TypeInit, TypeNext, PTL DEF Spec

\* Every variable keeps its type, whatever the sets of alerts and threads.
THEOREM TypeCorrect == Spec => []TypeOK
  <1>1. TypeInv => TypeOK BY DEF TypeInv
  <1>q. QED BY <1>1, TypeInvariant, PTL

-----------------------------------------------------------------------------
(* The deduplication lock.                                                 *)

\* No record of the same key as w's alert would make it a duplicate.
NoTwin(w) == ~\E m \in Alerts \ Upgrade : LockKey(m) = LockKey(job[w]) /\ SameAlert(job[w], m)

LEMMA LockInit == Init => LockInv
  BY DEF Init, LockInv, LockExcludes, HoldersBusy, PastLockHolds, Guarded, LockedCheckStaysTrue

\* The parts of LockInv, one thread at a time.
LEMMA LockParts ==
    ASSUME TypeInv, LockInv, NEW v \in Workers
    PROVE  /\ v \in holds => Holding(v)
           /\ Guarded(v) => v \in holds
           /\ v \in holds /\ pc[v] \in {"gate", "record"} => NoTwin(v)
  BY DEF LockInv, HoldersBusy, PastLockHolds, LockedCheckStaysTrue, NoTwin

\* Twins need a record: as long as none is added and v's alert is the same,
\* what v found stays true.
LEMMA NoTwinStays ==
    ASSUME NEW v, NoTwin(v), job'[v] = job[v], recorded' = recorded, fresh' \subseteq fresh
    PROVE  NoTwin(v)'
  BY DEF NoTwin, SameAlert, LockKey

\* One thread w moves; it may drop the lock but not take it.
LEMMA MoveLock ==
    ASSUME TypeInv, LockInv, NEW w \in Workers,
           \A v \in Workers \ {w} : pc'[v] = pc[v] /\ job'[v] = job[v] /\ (v \in holds' <=> v \in holds),
           w \in holds' => w \in holds /\ job'[w] = job[w],
           holds' \subseteq Workers,
           w \in holds' => Holding(w)',
           Guarded(w)' => w \in holds',
           w \in holds' /\ pc'[w] \in {"gate", "record"} => NoTwin(w),
           recorded' = recorded, fresh' \subseteq fresh
    PROVE  LockInv'
  <1>1. LockExcludes'
    <2> SUFFICES ASSUME NEW u \in holds', NEW v \in holds', LockKey(job'[u]) = LockKey(job'[v])
                 PROVE  u = v
      BY DEF LockExcludes, LockKey
    <2>1. u \in holds /\ v \in holds /\ job'[u] = job[u] /\ job'[v] = job[v] OBVIOUS
    <2>q. QED BY <2>1 DEF LockInv, LockExcludes
  <1>2. HoldersBusy'
    <2> SUFFICES ASSUME NEW v \in holds' PROVE Holding(v)'
      BY DEF HoldersBusy
    <2>1. CASE v = w BY <2>1
    <2>2. CASE v # w BY <2>2, LockParts DEF Holding
    <2>q. QED BY <2>1, <2>2
  <1>3. PastLockHolds'
    <2> SUFFICES ASSUME NEW v \in Workers, Guarded(v)' PROVE v \in holds'
      BY DEF PastLockHolds
    <2>1. CASE v = w BY <2>1
    <2>2. CASE v # w BY <2>2, LockParts DEF Guarded
    <2>q. QED BY <2>1, <2>2
  <1>4. LockedCheckStaysTrue'
    <2> SUFFICES ASSUME NEW v \in holds', pc'[v] \in {"gate", "record"} PROVE NoTwin(v)'
      BY DEF LockedCheckStaysTrue, NoTwin
    <2>1. NoTwin(v) /\ job'[v] = job[v]
      BY LockParts
    <2>q. QED BY <2>1, NoTwinStays
  <1>q. QED BY <1>1, <1>2, <1>3, <1>4 DEF LockInv

LEMMA StillLock ==
    ASSUME TypeInv, LockInv, UNCHANGED jobVars, recorded' = recorded, fresh' \subseteq fresh
    PROVE  LockInv'
  <1>1. LockExcludes' /\ HoldersBusy' /\ PastLockHolds'
    BY DEF LockInv, LockExcludes, HoldersBusy, Holding, PastLockHolds, Guarded, jobVars, LockKey
  <1>2. LockedCheckStaysTrue'
    <2> SUFFICES ASSUME NEW v \in holds', pc'[v] \in {"gate", "record"} PROVE NoTwin(v)'
      BY DEF LockedCheckStaysTrue, NoTwin
    <2>1. NoTwin(v) BY LockParts DEF jobVars, TypeInv, TypeOK, ThreadTypes
    <2>q. QED BY <2>1, NoTwinStays DEF jobVars
  <1>q. QED BY <1>1, <1>2 DEF LockInv

Elsewhere == {"check", "lock", "link", "release", "load", "approve", "cancel"}

LEMMA StartLock ==
    ASSUME TypeInv, LockInv, NEW w \in Workers, NEW l \in Elsewhere, NEW a, Idle(w), Start(w, l, a),
           recorded' = recorded, fresh' = fresh
    PROVE  LockInv'
  <1>1. w \notin holds BY LockParts DEF Idle, Holding
  <1>q. QED
    BY <1>1, MoveLock DEF Start, GoTo, Guarded, Elsewhere, TypeInv, TypeOK, ThreadTypes

LEMMA ReturnLock ==
    ASSUME TypeInv, LockInv, NEW w \in Workers, Return(w), recorded' = recorded, fresh' = fresh
    PROVE  LockInv'
  BY MoveLock DEF Return, GoTo, Guarded, TypeInv, TypeOK, ThreadTypes

LEMMA ConcludeLock ==
    ASSUME TypeInv, LockInv, NEW w \in Workers, NEW r, Conclude(w, r),
           recorded' = recorded, fresh' = fresh
    PROVE  LockInv'
  <1>1. CASE job[w] \in Caps
    <2>1. GoTo(w, "stamp") /\ job' = job /\ holds' = holds BY <1>1 DEF Conclude
    <2>2. pc' = [pc EXCEPT ![w] = "stamp"] /\ pc'[w] = "stamp"
      BY <2>1 DEF GoTo, TypeInv, TypeOK, ThreadTypes
    <2>3. w \in holds => Holding(w)'
      BY <2>1, <2>2, LockParts DEF Holding
    <2>4. \A v \in Workers \ {w} : pc'[v] = pc[v] /\ job'[v] = job[v]
      BY <2>1, <2>2 DEF TypeInv, TypeOK, ThreadTypes
    <2>5. ~Guarded(w)' BY <2>2 DEF Guarded
    <2>6. holds' \subseteq Workers BY <2>1 DEF TypeInv, TypeOK, ThreadTypes
    <2>q. QED BY <2>1, <2>2, <2>3, <2>4, <2>5, <2>6, MoveLock
  <1>2. CASE job[w] \notin Caps
    BY <1>2, ReturnLock DEF Conclude
  <1>q. QED BY <1>1, <1>2

LEMMA GoToLock ==
    ASSUME TypeInv, LockInv, NEW w \in Workers, NEW l, GoTo(w, l), UNCHANGED <<job, holds>>,
           w \in holds => Holding(w)',
           Guarded(w)' => w \in holds,
           w \in holds /\ l \in {"gate", "record"} => NoTwin(w),
           recorded' = recorded, fresh' = fresh
    PROVE  LockInv'
  BY MoveLock DEF GoTo, TypeInv, TypeOK, ThreadTypes

\* A thread that does not hold the lock moves to a place before it.
LEMMA GoToElsewhere ==
    ASSUME TypeInv, LockInv, NEW w \in Workers, NEW l \in Elsewhere, GoTo(w, l),
           UNCHANGED <<job, holds>>, w \notin holds, recorded' = recorded, fresh' = fresh
    PROVE  LockInv'
  BY GoToLock DEF GoTo, Guarded, Elsewhere, TypeInv, TypeOK, ThreadTypes

\* The pipeline: only Lock takes the lock and only Record adds a record, at
\* which moment every other holder has another key.
LEMMA PipelineLock == \A w \in Workers : TypeInv /\ LockInv /\ (Pipeline(w) \/ Load(w)) => LockInv'
  <1> SUFFICES ASSUME NEW w \in Workers, TypeInv, LockInv, Pipeline(w) \/ Load(w) PROVE LockInv'
    OBVIOUS
  <1> USE DEF pipeUnchanged, airVars
  <1>t. ThreadTypes BY DEF TypeInv, TypeOK
  <1>j. pc[w] # "idle" => job[w] \in Alerts BY DEF TypeInv, Employed, Idle
  <1>1. ASSUME Check(w) PROVE LockInv'
    <2>1. w \notin holds BY <1>1, LockParts DEF Check, At, Holding
    <2>2. CASE \E r \in {"unfit", "expired"} : Conclude(w, r)
      BY <2>2, <1>1, ConcludeLock DEF Check
    <2>3. CASE GoTo(w, "lock") /\ UNCHANGED <<job, holds>>
      BY <2>3, <2>1, <1>1, GoToElsewhere DEF Check, Elsewhere
    <2>4. CASE GoTo(w, "gate") /\ job[w] \in Caps /\ UNCHANGED <<job, holds>>
      BY <2>4, <2>1, <1>1, <1>t, GoToLock, AlertsAssumption DEF Check, Guarded, GoTo, ThreadTypes
    <2>q. QED BY <1>1, <2>2, <2>3, <2>4 DEF Check
  <1>2. ASSUME Gate(w) PROVE LockInv'
    <2>0. pc[w] = "gate" /\ job[w] \in Alerts BY <1>2, <1>j DEF Gate, At
    <2>1. CASE \E r \in {"pending", "cancelled"} : Conclude(w, r)
      BY <2>1, <1>2, ConcludeLock DEF Gate
    <2>2. CASE PassGate(w) /\ job[w] \in Caps /\ Dedupes(job[w])
      <3>1. w \notin holds BY <2>0, <2>2, LockParts, AlertsAssumption DEF Holding
      <3>q. QED BY <2>2, <3>1, <1>2, GoToElsewhere DEF Gate, PassGate, Elsewhere
    <2>3. CASE PassGate(w) /\ ~(job[w] \in Caps /\ Dedupes(job[w]))
      <3>1. GoTo(w, "record") /\ UNCHANGED <<job, holds>> BY <2>3 DEF PassGate
      <3>2. Guarded(w)' => Guarded(w)
        BY <2>0, <2>3, <3>1 DEF Guarded, Dedupes
      <3>3. w \in holds => Holding(w)'
        BY <2>0, <3>1, <1>t, LockParts DEF Holding, GoTo, ThreadTypes
      <3>q. QED BY <2>0, <3>1, <3>2, <3>3, <1>2, GoToLock, LockParts DEF Gate
    <2>q. QED BY <1>2, <2>1, <2>2, <2>3 DEF Gate
  <1>3. ASSUME Lock(w) PROVE LockInv'
    <2>0. pc[w] = "lock" /\ w \notin holds BY <1>3, LockParts DEF Lock, At, Holding
    <2>1. LockExcludes'
      BY <1>3 DEF Lock, LockFree, LockExcludes, LockInv, LockKey
    <2>2. HoldersBusy'
      <3> SUFFICES ASSUME NEW v \in holds' PROVE Holding(v)' BY DEF HoldersBusy
      <3>1. CASE v = w BY <3>1, <2>0, <1>3, <1>t DEF Lock, GoTo, Holding, ThreadTypes
      <3>2. CASE v # w BY <3>2, <1>3, <1>t, LockParts DEF Lock, GoTo, Holding, ThreadTypes
      <3>q. QED BY <3>1, <3>2
    <2>3. PastLockHolds'
      <3> SUFFICES ASSUME NEW v \in Workers, Guarded(v)' PROVE v \in holds' BY DEF PastLockHolds
      <3>1. CASE v = w BY <3>1, <1>3 DEF Lock, Guarded
      <3>2. CASE v # w BY <3>2, <1>3, <1>t, LockParts DEF Lock, GoTo, Guarded, ThreadTypes
      <3>q. QED BY <3>1, <3>2
    <2>4. LockedCheckStaysTrue'
      <3> SUFFICES ASSUME NEW v \in holds', pc'[v] \in {"gate", "record"} PROVE NoTwin(v)'
        BY DEF LockedCheckStaysTrue, NoTwin
      <3>1. v # w BY <1>3, <1>t DEF Lock, GoTo, ThreadTypes
      <3>2. NoTwin(v) BY <3>1, <1>3, <1>t, LockParts DEF Lock, GoTo, ThreadTypes
      <3>q. QED BY <3>2, <1>3, NoTwinStays DEF Lock
    <2>q. QED BY <2>1, <2>2, <2>3, <2>4 DEF LockInv
  <1>4. ASSUME Dedup(w) PROVE LockInv'
    <2>0. pc[w] = "dedup" /\ job[w] \in Alerts BY <1>4, <1>j DEF Dedup, At
    <2>1. CASE Duplicate(job[w])
      BY <2>1, <1>4, ConcludeLock DEF Dedup
    <2>2. CASE ~Duplicate(job[w])
      <3>1. PICK l \in {"record", "gate"} :
              GoTo(w, l) /\ (l = "gate" => job[w] \in Relays) /\ UNCHANGED <<job, holds>>
        BY <2>0, <2>2, <1>4 DEF Dedup
      <3>2. NoTwin(w) BY <2>2 DEF NoTwin, Duplicate
      <3>3. Guarded(w)' => Guarded(w) BY <2>0, <3>1 DEF Guarded
      <3>4. w \in holds => Holding(w)'
        BY <3>1, <1>t, LockParts DEF Holding, GoTo, ThreadTypes
      <3>q. QED BY <3>1, <3>2, <3>3, <3>4, <1>4, GoToLock, LockParts DEF Dedup
    <2>q. QED BY <2>1, <2>2
  <1>5. ASSUME Record(w) PROVE LockInv'
    <2>0. pc[w] = "record" /\ job' = job /\ holds' = holds \ {w}
      BY <1>5 DEF Record, At
    <2>1. LockExcludes' BY <2>0 DEF LockInv, LockExcludes, LockKey
    <2>2. HoldersBusy'
      BY <2>0, <1>5, <1>t, LockParts DEF HoldersBusy, Record, GoTo, Holding, ThreadTypes
    <2>3. PastLockHolds'
      BY <2>0, <1>5, <1>t, LockParts DEF PastLockHolds, Record, GoTo, Guarded, ThreadTypes
    <2>4. LockedCheckStaysTrue'
      <3> SUFFICES ASSUME NEW v \in holds', pc'[v] \in {"gate", "record"},
                          NEW m \in Alerts \ Upgrade,
                          LockKey(m) = LockKey(job[v]), SameAlert(job[v], m)'
                   PROVE  FALSE
        BY <2>0 DEF LockedCheckStaysTrue, LockKey
      <3>1. v \in holds /\ v # w /\ pc[v] \in {"gate", "record"}
        BY <2>0, <1>5, <1>t DEF Record, GoTo, ThreadTypes
      <3>2. ~SameAlert(job[v], m) /\ Fips[job[v]] # {}
        BY <3>1, <1>t, LockParts DEF NoTwin, Holding, ThreadTypes
      <3>3. m = job[w]
        BY <3>2, <2>0, <1>5 DEF SameAlert, Record
      <3>4. Guarded(w)
        BY <3>2, <3>3, <2>0 DEF Guarded, LockKey
      <3>5. w \in holds BY <3>4, LockParts
      <3>q. QED BY <3>1, <3>3, <3>5 DEF LockInv, LockExcludes
    <2>q. QED BY <2>1, <2>2, <2>3, <2>4 DEF LockInv
  <1>6. ASSUME Refuse(w) PROVE LockInv'
    BY <1>6, ConcludeLock DEF Refuse
  <1>7. ASSUME Play(w) PROVE LockInv'
    BY <1>7, ConcludeLock DEF Play
  <1>8. ASSUME Stamp(w) PROVE LockInv'
    BY <1>8, ReturnLock DEF Stamp
  <1>9. ASSUME Load(w) PROVE LockInv'
    <2>1. w \notin holds BY <1>9, LockParts DEF Load, At, Holding
    <2>q. QED BY <2>1, <1>9, GoToElsewhere DEF Load, Elsewhere
  <1>q. QED BY <1>1, <1>2, <1>3, <1>4, <1>5, <1>6, <1>7, <1>8, <1>9 DEF Pipeline

\* Everything else leaves the lock alone, or drops it in a crash.
LEMMA OtherLock ==
    TypeInv /\ LockInv /\ [Next]_vars =>
        \/ LockInv'
        \/ \E w \in Workers : Pipeline(w) \/ Load(w)
  <1> SUFFICES ASSUME TypeInv, LockInv, [Next]_vars,
                      ~\E w \in Workers : Pipeline(w) \/ Load(w)
               PROVE  LockInv'
    OBVIOUS
  <1> USE DEF pipeUnchanged, airVars
  <1>t. ThreadTypes BY DEF TypeInv, TypeOK
  <1>1. ASSUME Ingest PROVE LockInv'
    BY <1>1, StartLock, StillLock DEF Ingest, Insert, Repoll, CancelByReference, PollFree, Elsewhere
  <1>2. ASSUME Link PROVE LockInv'
    <2>1. "poll" \notin holds BY <1>2, LockParts DEF Link, At, Holding
    <2>q. QED BY <2>1, <1>2, ReturnLock, GoToElsewhere DEF Link, Elsewhere
  <1>3. ASSUME CatchUp PROVE LockInv'
    BY <1>3, StartLock, StillLock DEF CatchUp, StampMissed, RetryQuery, Retry, Elsewhere
  <1>4. ASSUME Time \/ ToggleGating PROVE LockInv'
    BY <1>4, StillLock DEF Time, HoldElapses, WindowLapses, Expire, HourPasses, DayPasses, ToggleGating
  <1>5. ASSUME NEW m \in Monitors, NEW a \in Relays, Decode(m, a) PROVE LockInv'
    BY <1>5, StartLock DEF Decode, Elsewhere
  <1>6. ASSUME NEW s \in Sweepers, Sweep(s) PROVE LockInv'
    <2>1. CASE SweepQuery(s) BY <2>1, StillLock DEF SweepQuery
    <2>2. CASE Release(s)
      <3>1. s \notin holds BY <2>2, LockParts DEF Release, At, Holding
      <3>q. QED BY <3>1, <2>2, GoToElsewhere DEF Release, Elsewhere
    <2>3. CASE \E a \in Alerts : SweepTake(s, a)
      BY <2>3, StartLock, StillLock DEF SweepTake, Elsewhere
    <2>q. QED BY <1>6, <2>1, <2>2, <2>3 DEF Sweep
  <1>7. ASSUME NEW o \in Operators, Operate(o) PROVE LockInv'
    <2>1. CASE Approve(o)
      <3>1. o \notin holds BY <2>1, LockParts DEF Approve, At, Holding
      <3>q. QED BY <3>1, <2>1, GoToElsewhere DEF Approve, Elsewhere
    <2>2. CASE Cancel(o) BY <2>2, ReturnLock DEF Cancel
    <2>q. QED BY <1>7, <2>1, <2>2 DEF Operate
  <1>8. ASSUME NEW o \in Operators, NEW l \in {"approve", "cancel"}, NEW a \in Alerts, Open(o, l, a)
        PROVE  LockInv'
    BY <1>8, StartLock DEF Open, Elsewhere
  <1>9. ASSUME NEW p \in Processes, Crash(p) PROVE LockInv'
    <2>1. /\ holds' = holds \ Threads(p)
          /\ \A v \in Workers \ Threads(p) : pc'[v] = pc[v] /\ job'[v] = job[v]
          /\ \A v \in Workers \cap Threads(p) : pc'[v] = "idle"
          /\ recorded' = recorded /\ fresh' = fresh
      BY <1>9 DEF Crash
    <2>2. holds \subseteq Workers BY <1>t DEF ThreadTypes
    <2>3. LockExcludes' BY <2>1, <2>2 DEF LockInv, LockExcludes, LockKey
    <2>4. HoldersBusy' BY <2>1, <2>2, LockParts DEF HoldersBusy, Holding
    <2>5. PastLockHolds' BY <2>1, LockParts DEF PastLockHolds, Guarded
    <2>6. LockedCheckStaysTrue'
      <3> SUFFICES ASSUME NEW v \in holds', pc'[v] \in {"gate", "record"} PROVE NoTwin(v)'
        BY DEF LockedCheckStaysTrue, NoTwin
      <3>q. QED BY <2>1, <2>2, LockParts, NoTwinStays
    <2>q. QED BY <2>3, <2>4, <2>5, <2>6 DEF LockInv
  <1>10. CASE UNCHANGED vars BY <1>10, StillLock DEF vars
  <1>q. QED BY <1>1, <1>2, <1>3, <1>4, <1>5, <1>6, <1>7, <1>8, <1>9, <1>10 DEF Next

LEMMA LockNext == TypeInv /\ LockInv /\ [Next]_vars => LockInv'
  BY OtherLock, PipelineLock

\* What the duplicate check found under the lock is still so when the record is
\* committed, whichever threads run beside it.
THEOREM LockedCheckHolds == Spec => []LockedCheckStaysTrue
  <1>1. Init => LockInv BY LockInit
  <1>2. TypeInv /\ LockInv /\ [Next]_vars => LockInv' BY LockNext
  <1>3. LockInv => LockedCheckStaysTrue BY DEF LockInv
  <1>q. QED BY <1>1, <1>2, <1>3, TypeInvariant, PTL DEF Spec
-----------------------------------------------------------------------------
(* A cancel that came in time.                                             *)

\* No thread is bound to air a.
Calm(a) == \A w \in Workers : ~Committed(w, a)

LEMMA CancelInit == Init => CancelInv
  BY DEF Init, CancelInv, HeldNotBypassing, RequestHasRow, ListedHasRow, VetoHolds

\* The only writers of gate rows.
LEMMA GateWriters ==
    ASSUME [Next]_vars
    PROVE  \/ gate' = gate
           \/ \E w \in Workers : Gate(w)
           \/ \E w \in Workers : Release(w) \/ Approve(w) \/ Cancel(w)
  <1>1. CASE UNCHANGED vars BY <1>1 DEF vars
  <1>2. CASE Ingest \/ Link \/ CatchUp \/ Time \/ ToggleGating
    BY <1>2 DEF Ingest, Insert, Repoll, CancelByReference, Link, CatchUp, StampMissed, RetryQuery,
                Retry, Time, HoldElapses, WindowLapses, Expire, HourPasses, DayPasses, ToggleGating
  <1>3. CASE \E m \in Monitors, b \in Relays : Decode(m, b)
    BY <1>3 DEF Decode
  <1>4. ASSUME NEW w \in Workers, Pipeline(w) \/ Load(w) PROVE gate' = gate \/ Gate(w)
    BY <1>4 DEF Pipeline, Check, Lock, Dedup, Record, Refuse, Play, Stamp, Load
  <1>5. ASSUME NEW w \in Sweepers, Sweep(w) PROVE gate' = gate \/ Release(w)
    BY <1>5 DEF Sweep, SweepQuery, SweepTake
  <1>6. CASE \E o \in Operators : Operate(o)
    BY <1>6 DEF Operate
  <1>7. CASE \E o \in Operators, l \in {"approve", "cancel"}, b \in Alerts : Open(o, l, b)
    BY <1>7 DEF Open
  <1>8. CASE \E p \in Processes : Crash(p)
    BY <1>8 DEF Crash
  <1>q. QED BY <1>1, <1>2, <1>3, <1>4, <1>5, <1>6, <1>7, <1>8 DEF Next

\* A row, once there, stays; only a request or a sweep, of a row that exists,
\* and the gate, for an alert it applies to, write one.
LEMMA RowsStay ==
    ASSUME TypeInv, CancelInv, [Next]_vars, NEW a \in Alerts, gate'[a] # gate[a]
    PROVE  gate'[a] # "none" /\ a \notin Bypass
  <1>t. GateTypes /\ ThreadTypes BY DEF TypeInv, TypeOK
  <1>1. ASSUME NEW w \in Workers, Gate(w) PROVE gate'[a] = "pending" /\ a \notin Bypass
    BY <1>1, <1>t DEF Gate, PassGate, Cleared, GateTypes
  <1>2. ASSUME NEW w \in Workers, Release(w) \/ Approve(w) \/ Cancel(w)
        PROVE  gate'[a] # "none" /\ a \notin Bypass
    <2>1. a = job[w] /\ gate'[a] # "none"
      BY <1>2, <1>t DEF Release, Approve, Cancel, GateTypes
    <2>2. gate[a] # "none"
      BY <1>2, <2>1 DEF Release, Approve, Cancel, At, CancelInv, RequestHasRow
    <2>q. QED BY <2>1, <2>2 DEF CancelInv, HeldNotBypassing
  <1>q. QED BY <1>1, <1>2, GateWriters

LEMMA HeldNext == TypeInv /\ CancelInv /\ [Next]_vars => HeldNotBypassing'
  BY RowsStay DEF CancelInv, HeldNotBypassing

\* Only thread w moves.
Moves(w) == \A v \in Workers \ {w} : pc'[v] = pc[v] /\ job'[v] = job[v] /\ seen'[v] = seen[v]
ListsShrink == \A s \in Sweepers : todo'[s] \subseteq todo[s]
Asks(w) == pc[w] \in {"approve", "cancel", "release"}

LEMMA MoveForms ==
    ASSUME TypeInv, NEW w \in Workers
    PROVE  /\ \A l, a : Start(w, l, a) => Moves(w) /\ pc'[w] = l /\ job'[w] = a /\ seen'[w] = seen[w]
           /\ Return(w) => Moves(w) /\ pc'[w] = "idle"
           /\ \A r : Conclude(w, r) => Moves(w) /\ pc'[w] \in {"idle", "stamp"}
           /\ \A l : GoTo(w, l) /\ job' = job /\ seen' = seen =>
                        Moves(w) /\ pc'[w] = l /\ job'[w] = job[w] /\ seen'[w] = seen[w]
  <1>t. ThreadTypes BY DEF TypeInv, TypeOK
  <1>1. \A l, a : Start(w, l, a) => Moves(w) /\ pc'[w] = l /\ job'[w] = a /\ seen'[w] = seen[w]
    BY <1>t DEF Start, GoTo, Moves, ThreadTypes
  <1>2. Return(w) => Moves(w) /\ pc'[w] = "idle"
    BY <1>t DEF Return, GoTo, Moves, ThreadTypes
  <1>3. \A l : GoTo(w, l) /\ job' = job /\ seen' = seen =>
                  Moves(w) /\ pc'[w] = l /\ job'[w] = job[w] /\ seen'[w] = seen[w]
    BY <1>t DEF GoTo, Moves, ThreadTypes
  <1>4. \A r : Conclude(w, r) => Moves(w) /\ pc'[w] \in {"idle", "stamp"}
    BY <1>2, <1>3 DEF Conclude
  <1>q. QED BY <1>1, <1>2, <1>3, <1>4

\* A request or a release starts only on a row that exists, and the threads
\* bound to an alert nobody was bound to are those that find its row pending.
Bind(w) ==
    /\ Moves(w) /\ ListsShrink
    /\ Asks(w)' => job'[w] \in Alerts /\ gate[job'[w]] # "none"
    /\ \A a \in Alerts : gate[a] = "cancelled" /\ a \notin Bypass /\ Calm(a) => ~Committed(w, a)'

LEMMA PipelineBinds == \A w \in Workers : TypeInv /\ (Pipeline(w) \/ Load(w)) => Bind(w)
  <1> SUFFICES ASSUME NEW w \in Workers, TypeInv, Pipeline(w) \/ Load(w) PROVE Bind(w) OBVIOUS
  <1> USE DEF pipeUnchanged, listVars
  <1>t. ThreadTypes BY DEF TypeInv, TypeOK
  <1>l. todo' = todo
    BY DEF Pipeline, Check, Gate, Lock, Dedup, Record, Refuse, Play, Stamp, Load
  <1>0. ASSUME Moves(w), pc'[w] \in {"idle", "stamp"} PROVE Bind(w)
    BY <1>0, <1>l DEF Bind, ListsShrink, Asks, Calm, Committed
  <1>g. ASSUME NEW l, GoTo(w, l), job' = job, seen' = seen
        PROVE  Moves(w) /\ pc'[w] = l /\ job'[w] = job[w] /\ seen'[w] = seen[w]
    BY <1>g, MoveForms
  <1>1. CASE Check(w)
    <2>1. CASE \E r : Conclude(w, r) BY <2>1, <1>0, MoveForms
    <2>2. CASE GoTo(w, IF job[w] \in Caps THEN "gate" ELSE "lock") /\ job' = job /\ seen' = seen
      <3>1. /\ Moves(w) /\ job'[w] = job[w] /\ seen'[w] = seen[w]
            /\ pc'[w] \in {"gate", "lock"} /\ (job[w] \in Caps => pc'[w] = "gate")
        BY <2>2, <1>g
      <3>q. QED BY <3>1, <1>1, <1>l DEF Check, At, Bind, ListsShrink, Asks, Calm, Committed
    <2>q. QED BY <1>1, <2>1, <2>2 DEF Check
  <1>2. CASE Gate(w)
    <2>1. CASE \E r : Conclude(w, r) BY <2>1, <1>0, MoveForms
    <2>2. CASE PassGate(w) /\ Cleared(w)
      <3>1. PICK l \in {"lock", "record"} : GoTo(w, l) /\ job' = job /\ seen' = seen
        BY <2>2 DEF PassGate
      <3>2. Moves(w) /\ pc'[w] = l /\ job'[w] = job[w] /\ seen'[w] = seen[w]
        BY <3>1, <1>g
      <3>3. ASSUME NEW a \in Alerts, gate[a] = "cancelled", a \notin Bypass, Calm(a)
            PROVE  job[w] # a
        BY <3>3, <2>2, <1>2 DEF Cleared, GateRow, Gate, At, Calm, Committed
      <3>q. QED BY <3>1, <3>2, <3>3, <1>l DEF Bind, ListsShrink, Asks, Calm, Committed
    <2>q. QED BY <1>2, <2>1, <2>2 DEF Gate
  <1>3. CASE Lock(w)
    <2>1. Moves(w) /\ pc'[w] = "dedup" /\ job'[w] = job[w] /\ seen'[w] = seen[w]
      BY <1>3, <1>g DEF Lock
    <2>q. QED BY <2>1, <1>3, <1>l DEF Lock, At, Bind, ListsShrink, Asks, Calm, Committed
  <1>4. CASE Dedup(w)
    <2>1. CASE \E r : Conclude(w, r) BY <2>1, <1>0, MoveForms
    <2>2. CASE GoTo(w, IF job[w] \in Caps THEN "record" ELSE "gate") /\ job' = job /\ seen' = seen
      <3>1. /\ Moves(w) /\ job'[w] = job[w] /\ seen'[w] = seen[w]
            /\ pc'[w] \in {"gate", "record"} /\ (job[w] \notin Caps => pc'[w] = "gate")
        BY <2>2, <1>g
      <3>q. QED BY <3>1, <1>4, <1>l DEF Dedup, At, Bind, ListsShrink, Asks, Calm, Committed
    <2>q. QED BY <1>4, <2>1, <2>2 DEF Dedup
  <1>5. CASE Record(w)
    <2>1. Moves(w) /\ pc'[w] = "cue" /\ job'[w] = job[w] /\ seen'[w] = seen[w]
      BY <1>5, <1>g DEF Record
    <2>2. pc[w] = "record" BY <1>5 DEF Record, At
    <2>q. QED BY <2>1, <2>2, <1>l DEF Bind, ListsShrink, Asks, Calm, Committed
  <1>6. CASE Refuse(w) \/ Play(w)
    BY <1>6, <1>0, MoveForms DEF Refuse, Play
  <1>7. CASE Stamp(w)
    BY <1>7, <1>0, MoveForms DEF Stamp
  <1>8. CASE Load(w)
    <2>1. GoTo(w, "check") /\ job' = job /\ seen' = [seen EXCEPT ![w] = gate[job[w]]]
      BY <1>8 DEF Load
    <2>2. Moves(w) /\ pc'[w] = "check" /\ job'[w] = job[w] /\ seen'[w] = gate[job[w]]
      BY <2>1, <1>t DEF Moves, GoTo, ThreadTypes
    <2>q. QED BY <2>2, <1>l DEF Bind, ListsShrink, Asks, Calm, Committed
  <1>q. QED BY <1>1, <1>2, <1>3, <1>4, <1>5, <1>6, <1>7, <1>8 DEF Pipeline

LEMMA OthersBind ==
    ASSUME TypeInv, CancelInv, NEW w \in Workers,
           \/ w = "poll" /\ (Ingest \/ Link \/ CatchUp)
           \/ w \in Monitors /\ \E a \in Relays : Decode(w, a)
           \/ w \in Sweepers /\ (Release(w) \/ \E a \in Alerts : SweepTake(w, a))
           \/ w \in Operators /\ (Operate(w) \/ \E l \in {"approve", "cancel"}, a \in Alerts : Open(w, l, a))
    PROVE  Bind(w)
  <1> USE DEF pipeUnchanged, listVars
  <1>t. ThreadTypes /\ ListTypes BY DEF TypeInv, TypeOK
  <1>0. ASSUME UNCHANGED jobVars, ListsShrink PROVE Bind(w)
    <2>1. Moves(w) /\ pc'[w] = pc[w] /\ job'[w] = job[w] /\ seen'[w] = seen[w]
      BY <1>0 DEF Moves, jobVars
    <2>2. Asks(w) => job[w] \in Alerts /\ gate[job[w]] # "none"
      BY DEF Asks, CancelInv, RequestHasRow, TypeInv, Employed, Idle
    <2>q. QED BY <2>1, <2>2, <1>0 DEF Bind, Asks, ListsShrink, Calm, Committed
  <1>1. CASE w = "poll" /\ (Ingest \/ Link \/ CatchUp)
    <2>1. w \notin Replayers BY <1>1, ThreadsAssumption
    <2>2. ListsShrink
      BY <1>1, <1>t DEF Ingest, Insert, Repoll, CancelByReference, Link, CatchUp, StampMissed,
                        RetryQuery, Retry, ListsShrink, ListTypes
    <2>3. CASE UNCHANGED jobVars BY <2>3, <2>2, <1>0
    <2>4. ASSUME Moves(w), pc'[w] \in {"idle", "link", "check"} PROVE Bind(w)
      BY <2>1, <2>2, <2>4 DEF Bind, ListsShrink, Asks, Calm, Committed
    <2>5. CASE Link
      BY <2>4, <2>5, <1>1, MoveForms DEF Link
    <2>6. CASE \E a \in Caps : Insert(a) \/ Retry(a)
      BY <2>4, <2>6, <1>1, MoveForms DEF Insert, Retry
    <2>q. QED
      BY <1>1, <2>3, <2>5, <2>6 DEF Ingest, CatchUp, Repoll, CancelByReference, StampMissed, RetryQuery
  <1>2. CASE w \in Monitors /\ \E a \in Relays : Decode(w, a)
    <2>1. w \notin Replayers BY <1>2, ThreadsAssumption
    <2>2. Moves(w) /\ pc'[w] = "check" BY <1>2, MoveForms DEF Decode
    <2>3. ListsShrink BY <1>2 DEF Decode, ListsShrink
    <2>4. w \notin Sweepers BY <2>1
    <2>q. QED BY <2>1, <2>2, <2>3, <2>4, <1>2 DEF Bind, Asks, Calm, Committed
  <1>3. CASE w \in Sweepers /\ Release(w)
    <2>1. Moves(w) /\ pc'[w] = "load" BY <1>3, MoveForms DEF Release
    <2>q. QED BY <2>1, <1>3 DEF Release, Bind, ListsShrink, Asks, Calm, Committed
  <1>4. ASSUME NEW a \in Alerts, w \in Sweepers, SweepTake(w, a) PROVE Bind(w)
    <2>1. ListsShrink BY <1>4, <1>t DEF SweepTake, ListsShrink, ListTypes
    <2>2. CASE UNCHANGED jobVars BY <2>1, <2>2, <1>0
    <2>3. CASE Start(w, "release", a)
      <3>1. Moves(w) /\ pc'[w] = "release" /\ job'[w] = a BY <2>3, MoveForms
      <3>2. a \in todo[w] /\ gate[a] # "none"
        BY <1>4 DEF SweepTake, CancelInv, ListedHasRow
      <3>q. QED BY <3>1, <3>2, <2>1, <1>4 DEF Bind, ListsShrink, Asks, Calm, Committed
    <2>q. QED BY <1>4, <2>2, <2>3 DEF SweepTake
  <1>5. CASE w \in Operators /\ Approve(w)
    <2>1. Moves(w) /\ pc'[w] = "load" BY <1>5, MoveForms DEF Approve
    <2>q. QED BY <2>1, <1>5 DEF Approve, Bind, ListsShrink, Asks, Calm, Committed
  <1>6. CASE w \in Operators /\ Cancel(w)
    <2>1. Moves(w) /\ pc'[w] = "idle" BY <1>6, MoveForms DEF Cancel
    <2>q. QED BY <2>1, <1>6 DEF Cancel, Bind, ListsShrink, Asks, Calm, Committed
  <1>7. ASSUME NEW l \in {"approve", "cancel"}, NEW a \in Alerts, w \in Operators, Open(w, l, a)
        PROVE  Bind(w)
    <2>1. Moves(w) /\ pc'[w] = l /\ job'[w] = a BY <1>7, MoveForms DEF Open
    <2>2. gate[a] = "pending" BY <1>7 DEF Open
    <2>q. QED BY <2>1, <2>2, <1>7 DEF Open, Bind, ListsShrink, Asks, Calm, Committed
  <1>q. QED BY <1>1, <1>2, <1>3, <1>4, <1>5, <1>6, <1>7 DEF Operate
\* Every step is a move of one thread, a sweep's query, the world's, or a crash.
Rests ==
    /\ pc' = pc /\ job' = job /\ seen' = seen
    /\ \A s \in Sweepers : \A a \in todo'[s] : a \in todo[s] \/ gate[a] = "pending"
Dies(p) ==
    /\ \A w \in Workers : \/ pc'[w] = "idle" /\ job'[w] = NoAlert
                          \/ pc'[w] = pc[w] /\ job'[w] = job[w] /\ seen'[w] = seen[w]
    /\ ListsShrink

LEMMA StepForms ==
    TypeInv /\ CancelInv /\ [Next]_vars =>
        (\E w \in Workers : Bind(w)) \/ Rests \/ \E p \in Processes : Dies(p)
  <1> SUFFICES ASSUME TypeInv, CancelInv, [Next]_vars
               PROVE  (\E w \in Workers : Bind(w)) \/ Rests \/ \E p \in Processes : Dies(p)
    OBVIOUS
  <1> USE DEF jobVars, listVars
  <1>t. ThreadTypes /\ ListTypes BY DEF TypeInv, TypeOK
  <1>1. CASE UNCHANGED vars BY <1>1 DEF vars, Rests
  <1>2. CASE Time \/ ToggleGating
    BY <1>2 DEF Time, HoldElapses, WindowLapses, Expire, HourPasses, DayPasses, ToggleGating, Rests
  <1>3. ASSUME NEW s \in Sweepers, SweepQuery(s) PROVE Rests
    BY <1>3, <1>t DEF SweepQuery, Rests, SweepDue, ListTypes
  <1>4. ASSUME NEW p \in Processes, Crash(p) PROVE Dies(p)
    BY <1>4, <1>t DEF Crash, Dies, ListsShrink, ListTypes
  <1>5. CASE \E w \in Workers : Pipeline(w) \/ Load(w)
    BY <1>5, PipelineBinds
  <1>6. CASE Ingest \/ Link \/ CatchUp
    BY <1>6, OthersBind
  <1>7. CASE \E w \in Monitors, a \in Relays : Decode(w, a)
    BY <1>7, OthersBind
  <1>8. ASSUME NEW w \in Sweepers, Release(w) \/ \E a \in Alerts : SweepTake(w, a) PROVE Bind(w)
    BY <1>8, OthersBind
  <1>9. ASSUME NEW w \in Operators,
               Operate(w) \/ \E l \in {"approve", "cancel"}, a \in Alerts : Open(w, l, a)
        PROVE  Bind(w)
    BY <1>9, OthersBind
  <1>q. QED BY <1>1, <1>2, <1>3, <1>4, <1>5, <1>6, <1>7, <1>8, <1>9 DEF Next, Sweep

LEMMA RequestNext == TypeInv /\ CancelInv /\ [Next]_vars => RequestHasRow' /\ ListedHasRow'
  <1> SUFFICES ASSUME TypeInv, CancelInv, [Next]_vars PROVE RequestHasRow' /\ ListedHasRow' OBVIOUS
  <1>t. ThreadTypes /\ ListTypes BY DEF TypeInv, TypeOK
  <1>e. \A w \in Workers : Asks(w) => job[w] \in Alerts /\ gate[job[w]] # "none"
    BY DEF Asks, TypeInv, Employed, Idle, CancelInv, RequestHasRow
  <1>f. \A s \in Sweepers : \A a \in todo[s] : a \in Alerts /\ gate[a] # "none"
    BY <1>t DEF CancelInv, ListedHasRow, ListTypes
  <1>g. \A a \in Alerts : gate[a] # "none" => gate'[a] # "none"
    BY RowsStay
  <1>1. ASSUME NEW w \in Workers, Asks(w)' PROVE gate'[job'[w]] # "none"
    <2>1. ASSUME NEW v \in Workers, Bind(v) PROVE gate'[job'[w]] # "none"
      BY <1>1, <1>e, <1>g, <2>1 DEF Bind, Moves, Asks
    <2>2. CASE Rests BY <1>1, <1>e, <1>g, <2>2 DEF Rests, Asks
    <2>3. ASSUME NEW p \in Processes, Dies(p) PROVE gate'[job'[w]] # "none"
      BY <1>1, <1>e, <1>g, <2>3 DEF Dies, Asks
    <2>q. QED BY <2>1, <2>2, <2>3, StepForms
  <1>2. ASSUME NEW s \in Sweepers, NEW a \in todo'[s] PROVE gate'[a] # "none"
    <2>1. ListTypes' BY TypeNext DEF TypeInv, TypeOK
    <2>2. a \in Alerts BY <2>1 DEF ListTypes
    <2>3. a \in todo[s] \/ gate[a] = "pending"
      BY StepForms DEF Bind, ListsShrink, Rests, Dies
    <2>q. QED BY <2>2, <2>3, <1>f, <1>g
  <1>q. QED BY <1>1, <1>2 DEF RequestHasRow, ListedHasRow, Asks

\* A calm alert whose row is cancelled stays calm, and its row cancelled.
LEMMA CalmStays ==
    ASSUME TypeInv, CancelInv, [Next]_vars, NEW a \in Alerts,
           gate[a] = "cancelled", Calm(a), a \notin Bypass
    PROVE  Calm(a)'
  <1> SUFFICES ASSUME NEW v \in Workers PROVE ~Committed(v, a)' BY DEF Calm
  <1>n. a # NoAlert /\ ~Committed(v, a) BY AlertsAssumption DEF Calm
  <1>1. ASSUME NEW w \in Workers, Bind(w) PROVE ~Committed(v, a)'
    <2>1. CASE v = w BY <1>1, <2>1 DEF Bind
    <2>2. CASE v # w BY <1>1, <1>n, <2>2 DEF Bind, Moves, ListsShrink, Committed
    <2>q. QED BY <2>1, <2>2
  <1>2. CASE Rests BY <1>2, <1>n DEF Rests, Committed
  <1>3. ASSUME NEW p \in Processes, Dies(p) PROVE ~Committed(v, a)'
    BY <1>3, <1>n DEF Dies, ListsShrink, Committed
  <1>q. QED BY <1>1, <1>2, <1>3, StepForms

LEMMA CancelledStays ==
    ASSUME TypeInv, CancelInv, [Next]_vars, NEW a \in Alerts,
           gate[a] = "cancelled", Calm(a), a \notin Bypass
    PROVE  gate'[a] = "cancelled"
  <1>t. GateTypes /\ ThreadTypes BY DEF TypeInv, TypeOK
  <1>1. ASSUME NEW w \in Workers, Gate(w) PROVE gate'[a] = "cancelled"
    <2>1. CASE gate' = gate BY <2>1
    <2>2. CASE GateRow(w) = "none" /\ gate' = [gate EXCEPT ![job[w]] = "pending"]
      <3>1. job[w] # a
        BY <2>2, <1>1 DEF GateRow, Gate, At, Calm, Committed
      <3>q. QED BY <2>2, <3>1, <1>t DEF GateTypes
    <2>q. QED BY <1>1, <2>1, <2>2 DEF Gate, PassGate
  <1>2. ASSUME NEW w \in Workers, Release(w) \/ Approve(w) PROVE gate'[a] = "cancelled"
    <2>1. job[w] # a BY <1>2 DEF Release, Approve, At, Calm, Committed
    <2>q. QED BY <2>1, <1>2, <1>t DEF Release, Approve, GateTypes
  <1>3. ASSUME NEW w \in Workers, Cancel(w) PROVE gate'[a] = "cancelled"
    BY <1>3, <1>t DEF Cancel, GateTypes
  <1>q. QED BY <1>1, <1>2, <1>3, GateWriters

LEMMA VetoWriters ==
    ASSUME [Next]_vars
    PROVE  veto' = veto \/ \E o \in Operators : Cancel(o)
  <1> USE DEF pipeUnchanged
  <1>1. CASE UNCHANGED vars BY <1>1 DEF vars
  <1>2. CASE Ingest \/ Link \/ CatchUp \/ Time \/ ToggleGating
    BY <1>2 DEF Ingest, Insert, Repoll, CancelByReference, Link, CatchUp, StampMissed, RetryQuery,
                Retry, Time, HoldElapses, WindowLapses, Expire, HourPasses, DayPasses, ToggleGating
  <1>3. CASE \E m \in Monitors, b \in Relays : Decode(m, b)
    BY <1>3 DEF Decode
  <1>4. CASE \E w \in Workers : Pipeline(w) \/ Load(w)
    BY <1>4 DEF Pipeline, Check, Gate, Lock, Dedup, Record, Refuse, Play, Stamp, Load
  <1>5. CASE \E s \in Sweepers : Sweep(s)
    BY <1>5 DEF Sweep, SweepQuery, SweepTake, Release
  <1>6. ASSUME NEW o \in Operators, Operate(o) PROVE veto' = veto \/ Cancel(o)
    BY <1>6 DEF Operate, Approve
  <1>7. CASE \E o \in Operators, l \in {"approve", "cancel"}, b \in Alerts : Open(o, l, b)
    BY <1>7 DEF Open
  <1>8. CASE \E p \in Processes : Crash(p)
    BY <1>8 DEF Crash
  <1>q. QED BY <1>1, <1>2, <1>3, <1>4, <1>5, <1>6, <1>7, <1>8 DEF Next

LEMMA VetoNext == TypeInv /\ CancelInv /\ [Next]_vars => VetoHolds'
  <1> SUFFICES ASSUME TypeInv, CancelInv, [Next]_vars, NEW a \in Alerts, veto'[a] = "inTime"
               PROVE  gate'[a] = "cancelled" /\ Calm(a)'
    BY DEF VetoHolds, Calm
  <1>t. GateTypes /\ ThreadTypes BY DEF TypeInv, TypeOK
  <1>1. CASE veto[a] = "inTime"
    <2>1. gate[a] = "cancelled" /\ Calm(a) /\ a \notin Bypass
      BY <1>1 DEF CancelInv, VetoHolds, HeldNotBypassing, Calm
    <2>q. QED BY <2>1, CalmStays, CancelledStays
  <1>2. CASE veto[a] # "inTime"
    <2>1. PICK o \in Operators : Cancel(o) BY <1>2, VetoWriters
    <2>2. a = job[o] /\ Calm(a) /\ gate'[a] = "cancelled"
      BY <1>2, <2>1, <1>t DEF Cancel, Calm, GateTypes
    <2>3. Moves(o) /\ pc'[o] = "idle" /\ todo' = todo
      BY <2>1, MoveForms DEF Cancel, listVars
    <2>4. Calm(a)'
      <3> SUFFICES ASSUME NEW v \in Workers PROVE ~Committed(v, a)' BY DEF Calm
      <3>1. CASE v = o BY <2>2, <2>3, <3>1 DEF Calm, Committed
      <3>2. CASE v # o BY <2>2, <2>3, <3>2 DEF Calm, Committed, Moves
      <3>q. QED BY <3>1, <3>2
    <2>q. QED BY <2>2, <2>4
  <1>q. QED BY <1>1, <1>2

LEMMA CancelNext == TypeInv /\ CancelInv /\ [Next]_vars => CancelInv'
  BY HeldNext, RequestNext, VetoNext DEF CancelInv

\* Only a thread at the player puts an alert on the air.
LEMMA OnlyPlayAirs ==
    ASSUME TypeInv, [Next]_vars, NEW a \in Alerts, airings'[a] # airings[a]
    PROVE  \E w \in Workers : Play(w) /\ pc[w] = "cue" /\ job[w] = a
  <1> USE DEF airVars
  <1>t. AirTypes BY DEF TypeInv, TypeOK
  <1>1. CASE UNCHANGED vars BY <1>1 DEF vars
  <1>2. CASE Ingest \/ Link \/ CatchUp \/ Time \/ ToggleGating
    BY <1>2 DEF Ingest, Insert, Repoll, CancelByReference, Link, CatchUp, StampMissed, RetryQuery,
                Retry, Time, HoldElapses, WindowLapses, Expire, HourPasses, DayPasses, ToggleGating
  <1>3. CASE \E m \in Monitors, b \in Relays : Decode(m, b)
    BY <1>3 DEF Decode
  <1>4. ASSUME NEW w \in Workers, Pipeline(w) \/ Load(w) PROVE Play(w) /\ pc[w] = "cue" /\ job[w] = a
    <2>1. Play(w)
      BY <1>4 DEF Pipeline, Check, Gate, Lock, Dedup, Record, Refuse, Stamp, Load, pipeUnchanged
    <2>q. QED BY <2>1, <1>t DEF Play, At, AirTypes
  <1>5. CASE \E s \in Sweepers : Sweep(s)
    BY <1>5 DEF Sweep, SweepQuery, SweepTake, Release
  <1>6. CASE \E o \in Operators : Operate(o)
    BY <1>6 DEF Operate, Approve, Cancel
  <1>7. CASE \E o \in Operators, l \in {"approve", "cancel"}, b \in Alerts : Open(o, l, b)
    BY <1>7 DEF Open
  <1>8. CASE \E p \in Processes : Crash(p)
    BY <1>8 DEF Crash
  <1>q. QED BY <1>1, <1>2, <1>3, <1>4, <1>5, <1>6, <1>7, <1>8 DEF Next

\* A cancel that came in time keeps the alert off the air for good, however many
\* sweeps, retries, decodes, approvals and crashes follow.
THEOREM CancelInTimeHolds == Spec => CancelInTimeIsFinal
  <1>1. Init => CancelInv BY CancelInit
  <1>2. TypeInv /\ CancelInv /\ [Next]_vars => CancelInv' BY CancelNext
  <1>3. TypeInv /\ CancelInv /\ [Next]_vars =>
            [\A a \in Alerts : veto[a] = "inTime" => airings'[a] = airings[a]]_vars
    <2> SUFFICES ASSUME TypeInv, CancelInv, [Next]_vars,
                        NEW a \in Alerts, veto[a] = "inTime", airings'[a] # airings[a]
                 PROVE  FALSE
      OBVIOUS
    <2>1. PICK w \in Workers : pc[w] = "cue" /\ job[w] = a BY OnlyPlayAirs
    <2>2. Committed(w, a) BY <2>1 DEF Committed
    <2>q. QED BY <2>2 DEF CancelInv, VetoHolds
  <1>q. QED BY <1>1, <1>2, <1>3, TypeInvariant, PTL DEF Spec, CancelInTimeIsFinal

-----------------------------------------------------------------------------
(* A step, as one thread sees it.                                          *)

Resolved == {"approved", "cancelled", "released"}

Stays(v)  == pc'[v] = pc[v] /\ job'[v] = job[v] /\ seen'[v] = seen[v] /\ verdict'[v] = verdict[v]
Leaves(v) == pc'[v] = "idle" /\ job'[v] = NoAlert /\ verdict'[v] = "none"
Begins(v) ==
    /\ Idle(v) /\ seen'[v] = seen[v] /\ verdict'[v] = verdict[v]
    /\ \/ v = "poll" /\ job'[v] \in Caps /\ pc'[v] \in {"link", "check"}
       \/ v \in Monitors /\ job'[v] \in Relays /\ pc'[v] = "check"
       \/ v \in Sweepers /\ pc'[v] = "release" /\ job'[v] \in todo[v]
       \/ v \in Operators /\ pc'[v] \in {"approve", "cancel"}
GoesOn(v, l, m) ==
    pc[v] = l /\ pc'[v] = m /\ job'[v] = job[v] /\ seen'[v] = seen[v] /\ verdict'[v] = verdict[v]
Resolves(v) ==
    /\ pc[v] \in {"release", "approve"} /\ pc'[v] = "load" /\ job'[v] = job[v]
    /\ verdict'[v] = verdict[v] /\ gate'[job[v]] \in Resolved
Loads(v) ==
    /\ pc[v] = "load" /\ pc'[v] = "check" /\ job'[v] = job[v]
    /\ verdict'[v] = verdict[v] /\ seen'[v] = gate[job[v]]
Passes(v) == \/ GoesOn(v, "link", "check") /\ v = "poll"
             \/ GoesOn(v, "check", "gate")
             \/ GoesOn(v, "check", "lock") /\ job[v] \in Relays
             \/ (GoesOn(v, "gate", "lock") \/ GoesOn(v, "gate", "record")) /\ Gate(v) /\ Cleared(v) /\ gate' = gate
             \/ GoesOn(v, "lock", "dedup")
             \/ GoesOn(v, "dedup", "record") /\ job[v] \in Caps
             \/ GoesOn(v, "dedup", "gate")
             \/ GoesOn(v, "record", "cue") /\ Record(v)
Concludes(v) ==
    /\ pc[v] \in {"check", "gate", "dedup", "record", "cue"} /\ pc'[v] = "stamp"
    /\ job'[v] = job[v] /\ job[v] \in Caps
    /\ pc[v] = "cue" => Play(v)
    /\ verdict'[v] = "dup" => Duplicate(job[v])
ThreadStep(v) ==
    \/ Stays(v) \/ (Leaves(v) /\ (pc[v] = "cue" => Play(v)))
    \/ Begins(v) \/ Resolves(v) \/ Loads(v) \/ Passes(v) \/ Concludes(v)

OthersStay(w) == \A v \in Workers \ {w} : Stays(v)

LEMMA ThreadForms ==
    ASSUME TypeInv, NEW w \in Workers
    PROVE  /\ \A l, a : Start(w, l, a) => /\ OthersStay(w) /\ pc'[w] = l /\ job'[w] = a
                                          /\ seen'[w] = seen[w] /\ verdict'[w] = verdict[w]
           /\ Return(w) => OthersStay(w) /\ Leaves(w)
           /\ \A r : Conclude(w, r) =>
                 /\ OthersStay(w)
                 /\ \/ Leaves(w)
                    \/ job[w] \in Caps /\ pc'[w] = "stamp" /\ job'[w] = job[w] /\ verdict'[w] = r
           /\ \A l : GoTo(w, l) /\ job' = job /\ seen' = seen /\ verdict' = verdict =>
                 OthersStay(w) /\ GoesOn(w, pc[w], l)
           /\ UNCHANGED jobVars => \A v \in Workers : Stays(v)
  <1>t. ThreadTypes BY DEF TypeInv, TypeOK
  <1>1. \A l, a : Start(w, l, a) => /\ OthersStay(w) /\ pc'[w] = l /\ job'[w] = a
                                    /\ seen'[w] = seen[w] /\ verdict'[w] = verdict[w]
    BY <1>t DEF Start, GoTo, OthersStay, Stays, ThreadTypes
  <1>2. Return(w) => OthersStay(w) /\ Leaves(w)
    BY <1>t DEF Return, GoTo, OthersStay, Stays, Leaves, ThreadTypes
  <1>3. \A l : GoTo(w, l) /\ job' = job /\ seen' = seen /\ verdict' = verdict =>
           OthersStay(w) /\ GoesOn(w, pc[w], l)
    BY <1>t DEF GoTo, OthersStay, Stays, GoesOn, ThreadTypes
  <1>4. ASSUME NEW r, Conclude(w, r)
        PROVE  /\ OthersStay(w)
               /\ \/ Leaves(w)
                  \/ job[w] \in Caps /\ pc'[w] = "stamp" /\ job'[w] = job[w] /\ verdict'[w] = r
    BY <1>2, <1>4, <1>t DEF Conclude, GoTo, OthersStay, Stays, ThreadTypes
  <1>5. UNCHANGED jobVars => \A v \in Workers : Stays(v) BY DEF jobVars, Stays
  <1>q. QED BY <1>1, <1>2, <1>3, <1>4, <1>5

LEMMA PipelineSteps ==
    ASSUME TypeInv, NEW w \in Workers, Pipeline(w) \/ Load(w)
    PROVE  OthersStay(w) /\ ThreadStep(w)
  <1> USE DEF ThreadStep
  <1>t. ThreadTypes BY DEF TypeInv, TypeOK
  <1>j. pc[w] # "idle" => job[w] \in Alerts BY DEF TypeInv, Employed, Idle
  <1>c. ASSUME NEW r, r # "dup" \/ Duplicate(job[w]), Conclude(w, r),
               pc[w] \in {"check", "gate", "dedup", "record", "cue"}, pc[w] = "cue" => Play(w)
        PROVE  OthersStay(w) /\ ThreadStep(w)
    <2>1. OthersStay(w) /\ (Leaves(w) \/ (job[w] \in Caps /\ pc'[w] = "stamp" /\ job'[w] = job[w]
                                           /\ verdict'[w] = r))
      BY <1>c, ThreadForms
    <2>q. QED BY <1>c, <2>1 DEF Concludes
  <1>g. ASSUME NEW l, GoTo(w, l), job' = job, seen' = seen, verdict' = verdict
        PROVE  OthersStay(w) /\ GoesOn(w, pc[w], l)
    BY <1>g, ThreadForms
  <1>1. CASE Check(w)
    <2>0. pc[w] = "check" /\ job[w] \in Alerts BY <1>1, <1>j DEF Check, At
    <2>1. CASE Conclude(w, "unfit") \/ Conclude(w, "expired") BY <1>c, <2>0, <2>1
    <2>2. CASE GoTo(w, IF job[w] \in Caps THEN "gate" ELSE "lock") /\ job' = job /\ seen' = seen
               /\ verdict' = verdict
      <3>1. CASE job[w] \in Caps
        <4>1. OthersStay(w) /\ GoesOn(w, "check", "gate") BY <1>g, <2>0, <2>2, <3>1
        <4>q. QED BY <4>1 DEF Passes
      <3>2. CASE job[w] \notin Caps
        <4>1. OthersStay(w) /\ GoesOn(w, "check", "lock") BY <1>g, <2>0, <2>2, <3>2
        <4>q. QED BY <2>0, <3>2, <4>1 DEF Passes
      <3>q. QED BY <3>1, <3>2
    <2>q. QED BY <1>1, <2>1, <2>2 DEF Check
  <1>2. CASE Gate(w)
    <2>0. pc[w] = "gate" BY <1>2 DEF Gate, At
    <2>1. CASE \E r \in {"pending", "cancelled"} : Conclude(w, r) BY <1>c, <2>0, <2>1
    <2>2. CASE PassGate(w) /\ Cleared(w)
      <3>1. PICK l \in {"lock", "record"} : GoTo(w, l) BY <2>2 DEF PassGate
      <3>2. OthersStay(w) /\ GoesOn(w, "gate", l) /\ gate' = gate BY <1>g, <2>0, <2>2, <3>1 DEF PassGate
      <3>q. QED BY <1>2, <2>2, <3>1, <3>2 DEF Passes
    <2>q. QED BY <1>2, <2>1, <2>2 DEF Gate
  <1>3. CASE Lock(w)
    <2>1. OthersStay(w) /\ GoesOn(w, "lock", "dedup") BY <1>g, <1>3 DEF Lock, At
    <2>q. QED BY <2>1 DEF Passes
  <1>4. CASE Dedup(w)
    <2>0. pc[w] = "dedup" BY <1>4 DEF Dedup, At
    <2>1. CASE Duplicate(job[w]) /\ Conclude(w, "dup") BY <1>c, <2>0, <2>1
    <2>2. CASE GoTo(w, IF job[w] \in Caps THEN "record" ELSE "gate") /\ job' = job /\ seen' = seen
               /\ verdict' = verdict
      <3>1. CASE job[w] \in Caps
        <4>1. OthersStay(w) /\ GoesOn(w, "dedup", "record") BY <1>g, <2>0, <2>2, <3>1
        <4>q. QED BY <3>1, <4>1 DEF Passes
      <3>2. CASE job[w] \notin Caps
        <4>1. OthersStay(w) /\ GoesOn(w, "dedup", "gate") BY <1>g, <2>0, <2>2, <3>2
        <4>q. QED BY <4>1 DEF Passes
      <3>q. QED BY <3>1, <3>2
    <2>q. QED BY <1>4, <2>1, <2>2 DEF Dedup
  <1>5. CASE Record(w)
    <2>1. OthersStay(w) /\ GoesOn(w, "record", "cue") BY <1>g, <1>5 DEF Record, At
    <2>q. QED BY <1>5, <2>1 DEF Passes
  <1>6. CASE Refuse(w) BY <1>6, <1>c DEF Refuse, At
  <1>7. CASE Play(w) BY <1>7, <1>c DEF Play, At
  <1>8. CASE Stamp(w) BY <1>8, ThreadForms DEF Stamp, At
  <1>9. CASE Load(w)
    <2>1. GoTo(w, "check") /\ job' = job /\ verdict' = verdict /\ seen' = [seen EXCEPT ![w] = gate[job[w]]]
          /\ pc[w] = "load"
      BY <1>9 DEF Load, At
    <2>2. OthersStay(w) /\ Loads(w)
      BY <2>1, <1>t DEF GoTo, OthersStay, Stays, Loads, ThreadTypes
    <2>q. QED BY <2>2
  <1>q. QED BY <1>1, <1>2, <1>3, <1>4, <1>5, <1>6, <1>7, <1>8, <1>9 DEF Pipeline

LEMMA OtherSteps ==
    ASSUME TypeInv, NEW w \in Workers,
           \/ w = "poll" /\ (Ingest \/ Link \/ CatchUp)
           \/ w \in Monitors /\ \E a \in Relays : Decode(w, a)
           \/ w \in Sweepers /\ Sweep(w)
           \/ w \in Operators /\ (Operate(w) \/ \E l \in {"approve", "cancel"}, a \in Alerts : Open(w, l, a))
    PROVE  OthersStay(w) /\ ThreadStep(w)
  <1> USE DEF ThreadStep
  <1>t. ThreadTypes /\ GateTypes BY DEF TypeInv, TypeOK
  <1>0. ASSUME UNCHANGED jobVars PROVE OthersStay(w) /\ ThreadStep(w) BY <1>0, ThreadForms DEF OthersStay
  <1>1. CASE w = "poll" /\ (Ingest \/ Link \/ CatchUp)
    <2>1. CASE UNCHANGED jobVars BY <1>0, <2>1
    <2>2. ASSUME NEW a \in Caps, NEW l \in {"link", "check"}, Idle("poll"), Start("poll", l, a)
          PROVE  OthersStay(w) /\ ThreadStep(w)
      <3>1. /\ OthersStay(w) /\ pc'[w] = l /\ job'[w] = a /\ seen'[w] = seen[w] /\ verdict'[w] = verdict[w]
            /\ Idle(w)
        BY <1>1, <2>2, ThreadForms
      <3>q. QED BY <1>1, <3>1 DEF Begins
    <2>3. CASE Link
      <3>1. CASE Return("poll") BY <1>1, <2>3, <3>1, ThreadForms DEF Link, At
      <3>2. CASE GoTo("poll", "check") /\ UNCHANGED <<job, seen, verdict>>
        <4>1. OthersStay(w) /\ GoesOn(w, "link", "check") BY <1>1, <2>3, <3>2, ThreadForms DEF Link, At
        <4>q. QED BY <1>1, <4>1 DEF Passes
      <3>q. QED BY <2>3, <3>1, <3>2 DEF Link
    <2>4. CASE \E a \in Caps : Insert(a) \/ Retry(a) BY <2>2, <2>4 DEF Insert, Retry, PollFree
    <2>5. CASE Ingest
      <3>1. PICK a \in Caps : Insert(a) \/ Repoll(a) \/ CancelByReference(a) BY <2>5 DEF Ingest
      <3>2. Insert(a) \/ UNCHANGED jobVars BY <3>1 DEF Repoll, CancelByReference
      <3>q. QED BY <2>1, <2>4, <3>2
    <2>6. CASE CatchUp
      <3>1. (\E a \in Caps : Retry(a)) \/ UNCHANGED jobVars BY <2>6 DEF CatchUp, StampMissed, RetryQuery
      <3>q. QED BY <2>1, <2>4, <3>1
    <2>q. QED BY <1>1, <2>3, <2>5, <2>6
  <1>2. ASSUME w \in Monitors, NEW a \in Relays, Decode(w, a) PROVE OthersStay(w) /\ ThreadStep(w)
    <2>1. /\ OthersStay(w) /\ pc'[w] = "check" /\ job'[w] = a /\ seen'[w] = seen[w] /\ verdict'[w] = verdict[w]
          /\ Idle(w)
      BY <1>2, ThreadForms DEF Decode
    <2>q. QED BY <1>2, <2>1 DEF Begins
  <1>3. CASE w \in Sweepers /\ Release(w)
    <2>1. OthersStay(w) /\ GoesOn(w, "release", "load") BY <1>3, ThreadForms DEF Release, At
    <2>2. gate'[job[w]] \in Resolved
      BY <1>3, <1>t DEF Release, At, Resolved, GateTypes, TypeInv, Employed, Idle
    <2>q. QED BY <2>1, <2>2 DEF Resolves, GoesOn
  <1>4. ASSUME NEW a \in Alerts, w \in Sweepers, SweepTake(w, a) PROVE OthersStay(w) /\ ThreadStep(w)
    <2>1. CASE UNCHANGED jobVars BY <1>0, <2>1
    <2>2. CASE Start(w, "release", a)
      <3>1. /\ OthersStay(w) /\ pc'[w] = "release" /\ job'[w] = a /\ seen'[w] = seen[w]
            /\ verdict'[w] = verdict[w] /\ Idle(w) /\ a \in todo[w]
        BY <1>4, <2>2, ThreadForms DEF SweepTake
      <3>q. QED BY <1>4, <3>1 DEF Begins
    <2>q. QED BY <1>4, <2>1, <2>2 DEF SweepTake
  <1>5. CASE w \in Sweepers /\ SweepQuery(w) BY <1>0, <1>5 DEF SweepQuery
  <1>6. CASE w \in Operators /\ Approve(w)
    <2>1. OthersStay(w) /\ GoesOn(w, "approve", "load") BY <1>6, ThreadForms DEF Approve, At
    <2>2. gate'[job[w]] \in Resolved
      BY <1>6, <1>t DEF Approve, At, Resolved, GateTypes, TypeInv, Employed, Idle
    <2>q. QED BY <2>1, <2>2 DEF Resolves, GoesOn
  <1>7. CASE w \in Operators /\ Cancel(w) BY <1>7, ThreadForms DEF Cancel, At
  <1>8. ASSUME NEW l \in {"approve", "cancel"}, NEW a \in Alerts, w \in Operators, Open(w, l, a)
        PROVE  OthersStay(w) /\ ThreadStep(w)
    <2>1. /\ OthersStay(w) /\ pc'[w] = l /\ job'[w] = a /\ seen'[w] = seen[w] /\ verdict'[w] = verdict[w]
          /\ Idle(w)
      BY <1>8, ThreadForms DEF Open
    <2>q. QED BY <1>8, <2>1 DEF Begins
  <1>q. QED BY <1>1, <1>2, <1>3, <1>4, <1>5, <1>6, <1>7, <1>8 DEF Operate, Sweep

\* Whatever happens, every thread takes one of these steps; only a crash ends the
\* job of a thread at the player without playing it.
LEMMA ThreadSteps ==
    ASSUME TypeInv, [Next]_vars
    PROVE  \/ \A v \in Workers : ThreadStep(v)
           \/ \E p \in Processes : Crash(p) /\ \A v \in Workers : Stays(v) \/ Leaves(v)
  <1>t. ThreadTypes BY DEF TypeInv, TypeOK
  <1>0. ASSUME NEW w \in Workers, OthersStay(w), ThreadStep(w) PROVE \A v \in Workers : ThreadStep(v)
    BY <1>0 DEF OthersStay, ThreadStep
  <1>1. CASE UNCHANGED vars BY <1>1 DEF vars, jobVars, ThreadStep, Stays
  <1>2. CASE Time \/ ToggleGating
    BY <1>2 DEF Time, HoldElapses, WindowLapses, Expire, HourPasses, DayPasses, ToggleGating, jobVars, ThreadStep, Stays
  <1>3. CASE \E w \in Workers : Pipeline(w) \/ Load(w) BY <1>0, <1>3, PipelineSteps
  <1>4. CASE Ingest \/ Link \/ CatchUp
    <2>1. "poll" \in Workers OBVIOUS
    <2>q. QED BY <1>0, <1>4, <2>1, OtherSteps
  <1>5. CASE \E w \in Monitors, a \in Relays : Decode(w, a) BY <1>0, <1>5, OtherSteps
  <1>6. CASE \E w \in Sweepers : Sweep(w) BY <1>0, <1>6, OtherSteps
  <1>7. ASSUME NEW w \in Operators,
               Operate(w) \/ \E l \in {"approve", "cancel"}, a \in Alerts : Open(w, l, a)
        PROVE  \A v \in Workers : ThreadStep(v)
    BY <1>0, <1>7, OtherSteps
  <1>8. ASSUME NEW p \in Processes, Crash(p) PROVE \A v \in Workers : Stays(v) \/ Leaves(v)
    BY <1>8, <1>t DEF Crash, Stays, Leaves, ThreadTypes
  <1>q. QED BY <1>1, <1>2, <1>3, <1>4, <1>5, <1>6, <1>7, <1>8 DEF Next

-----------------------------------------------------------------------------
(* One airing for an issuance.                                             *)

Cueing(w, a) == job[w] = a /\ pc[w] = "cue"

\* Of two copies a and b of one issuance: what was put on the air, and what a thread
\* past its record is about to put there, is one airing of one of them.
OneAiring(a, b) ==
    /\ airings[a] <= 1
    /\ airings[a] > 0 /\ airings[b] > 0 => a = b
    /\ airings[a] > 0 => \A w \in Workers : ~Cueing(w, b)
    /\ \A v, w \in Workers : Cueing(v, a) /\ Cueing(w, b) => v = w

\* Nothing goes on the air without its record, and a record that left the window lapsed.
HeardRecorded == \A a \in Alerts : Heard(a) => a \in recorded
AiredInv ==
    /\ recorded \subseteq fresh \cup lapsed
    /\ HeardRecorded
    /\ \A a, b \in Alerts : SameIssuance(a, b) => OneAiring(a, b)

LEMMA AiredInit == Init => AiredInv
  BY DEF Init, AiredInv, HeardRecorded, Heard, OneAiring, Cueing

\* The only steps that record or air.
AirStill == /\ recorded' = recorded /\ airings' = airings
            /\ fresh \cup lapsed \subseteq fresh' \cup lapsed' /\ lapsed \subseteq lapsed'

LEMMA AirWriters ==
    ASSUME [Next]_vars
    PROVE  AirStill \/ \E w \in Workers : Record(w) \/ Play(w)
  <1> USE DEF airVars, pipeUnchanged
  <1>0. UNCHANGED airVars => AirStill BY DEF AirStill
  <1>1. CASE UNCHANGED vars BY <1>0, <1>1 DEF vars
  <1>2. CASE Ingest \/ Link \/ CatchUp \/ ToggleGating
    BY <1>0, <1>2 DEF Ingest, Insert, Repoll, CancelByReference, Link, CatchUp, StampMissed, RetryQuery,
                      Retry, ToggleGating
  <1>3. CASE Time
    <2>1. CASE \E a \in Alerts : WindowLapses(a) BY <2>1 DEF WindowLapses, AirStill
    <2>q. QED BY <1>0, <1>3, <2>1 DEF Time, HoldElapses, Expire, HourPasses, DayPasses
  <1>4. CASE \E m \in Monitors, a \in Relays : Decode(m, a) BY <1>0, <1>4 DEF Decode
  <1>5. ASSUME NEW w \in Workers, Pipeline(w) \/ Load(w), ~(Record(w) \/ Play(w)) PROVE AirStill
    BY <1>0, <1>5 DEF Pipeline, Check, Gate, Lock, Dedup, Refuse, Stamp, Load
  <1>6. CASE \E s \in Sweepers : Sweep(s) BY <1>0, <1>6 DEF Sweep, SweepQuery, SweepTake, Release
  <1>7. CASE \E o \in Operators : Operate(o) BY <1>0, <1>7 DEF Operate, Approve, Cancel
  <1>8. CASE \E o \in Operators, l \in {"approve", "cancel"}, a \in Alerts : Open(o, l, a)
    BY <1>0, <1>8 DEF Open
  <1>9. CASE \E p \in Processes : Crash(p) BY <1>0, <1>9 DEF Crash
  <1>q. QED BY <1>1, <1>2, <1>3, <1>4, <1>5, <1>6, <1>7, <1>8, <1>9 DEF Next

\* A thread comes to the player only by its record, and leaves it by playing or a crash.
LEMMA CueForms ==
    ASSUME TypeInv, [Next]_vars, NEW v \in Workers
    PROVE  /\ pc'[v] = "cue" => job'[v] = job[v] /\ (pc[v] = "cue" \/ Record(v))
           /\ pc[v] = "cue" => \/ pc'[v] = "cue" /\ job'[v] = job[v]
                               \/ Play(v) \/ Leaves(v)
  <1> USE DEF Stays, Leaves, Begins, Resolves, Loads, Passes, GoesOn, Concludes, Idle
  <1>1. CASE ThreadStep(v) BY <1>1 DEF ThreadStep
  <1>2. CASE Stays(v) \/ Leaves(v) BY <1>2
  <1>q. QED BY <1>1, <1>2, ThreadSteps

\* SameIssuance is symmetric, includes both alerts themselves, and looks at lapsed only.
LEMMA SameIs ==
    ASSUME NEW a \in Alerts, NEW b \in Alerts, SameIssuance(a, b)
    PROVE  SameIssuance(b, a) /\ SameIssuance(a, a)
  <1>1. {a, b} = {b, a} /\ {a, a} \subseteq {a, b} OBVIOUS
  <1>2. LockKey(a) = LockKey(b) => Fips[a] = Fips[b] BY DEF LockKey
  <1>q. QED BY <1>1, <1>2 DEF SameIssuance

LEMMA SameStays ==
    ASSUME NEW a \in Alerts, NEW b \in Alerts, SameIssuance(a, b)', lapsed \subseteq lapsed'
    PROVE  SameIssuance(a, b)
  BY DEF SameIssuance, LockKey

\* A recorded copy of the issuance would have been found by the duplicate check.
LEMMA RecordSeen ==
    ASSUME AiredInv, NEW a \in Alerts, NEW b \in Alerts, SameIssuance(a, b), b \in recorded
    PROVE  SameAlert(a, b) /\ b \notin Upgrade /\ LockKey(b) = LockKey(a)
  <1>1. /\ Event[a] = Event[b] /\ Fips[a] = Fips[b] /\ LockKey(a) = LockKey(b) /\ Issue[a] = Issue[b]
        /\ b \notin Upgrade /\ Fips[a] \cap Coverage # {}
    BY DEF SameIssuance, LockKey
  <1>2. Sent(b) = Fips[a] \cap Coverage BY <1>1 DEF Sent
  <1>3. CASE a \in Relays BY <1>1, <1>2, <1>3 DEF SameAlert
  <1>4. CASE a \notin Relays
    <2>1. Fips[a] \subseteq Coverage /\ b \notin lapsed BY <1>4 DEF SameIssuance
    <2>2. b \in fresh BY <2>1 DEF AiredInv
    <2>3. Sent(b) = Fips[a] BY <1>2, <2>1
    <2>q. QED BY <1>1, <1>4, <2>2, <2>3 DEF SameAlert
  <1>q. QED BY <1>1, <1>3, <1>4

LEMMA RecordAired ==
    ASSUME TypeInv, LockInv, AiredInv, [Next]_vars, NEW w \in Workers, Record(w)
    PROVE  AiredInv'
  <1> DEFINE j == job[w]
  <1>t. ThreadTypes /\ AirTypes BY DEF TypeInv, TypeOK
  <1>1. /\ pc[w] = "record" /\ j \in Alerts /\ recorded' = recorded \cup {j} /\ fresh' = fresh \cup {j}
        /\ lapsed' = lapsed /\ airings' = airings
    BY DEF Record, At, TypeInv, Employed, Idle
  <1>2. OthersStay(w) /\ GoesOn(w, "record", "cue")
    BY <1>1, ThreadForms DEF Record, At
  <1>3. ASSUME NEW v \in Workers, NEW a, Cueing(v, a)' PROVE Cueing(v, a) \/ (v = w /\ a = j)
    BY <1>2, <1>3 DEF Cueing, OthersStay, Stays, GoesOn
  <1>4. ASSUME NEW b \in Alerts, SameIssuance(j, b) PROVE ~Heard(b)
    <2>1. j \notin Upgrade /\ Fips[j] # {} BY <1>4 DEF SameIssuance
    <2>2. w \in holds BY <1>1, <2>1, LockParts DEF Guarded
    <2>3. NoTwin(w) BY <1>1, <2>2, LockParts
    <2>4. b \notin recorded BY <1>1, <1>4, <2>3, RecordSeen DEF NoTwin
    <2>q. QED BY <2>4 DEF AiredInv, HeardRecorded
  <1>5. HeardRecorded'
    <2> SUFFICES ASSUME NEW a \in Alerts, airings[a] > 0 \/ \E v \in Workers : Cueing(v, a)'
                 PROVE  a \in recorded'
      BY <1>1 DEF HeardRecorded, Heard, Cueing
    <2>1. Heard(a) \/ a = j BY <1>3 DEF Heard, Cueing
    <2>q. QED BY <1>1, <2>1 DEF AiredInv, HeardRecorded
  <1>6. ASSUME NEW a \in Alerts, NEW b \in Alerts, SameIssuance(a, b)' PROVE OneAiring(a, b)'
    <2>1. SameIssuance(a, b) /\ SameIssuance(b, a) BY <1>1, <1>6, SameStays, SameIs
    <2>2. OneAiring(a, b) BY <2>1 DEF AiredInv
    <2>3. a = j => ~Heard(b) /\ ~Heard(a)
      <3>1. SameIssuance(a, a) BY <2>1, SameIs
      <3>q. QED BY <1>4, <2>1, <3>1
    <2>4. b = j => ~Heard(a) /\ ~Heard(b)
      <3>1. SameIssuance(b, b) BY <2>1, SameIs
      <3>q. QED BY <1>4, <2>1, <3>1
    <2>5. airings'[a] <= 1 /\ (airings'[a] > 0 /\ airings'[b] > 0 => a = b)
      BY <1>1, <2>2 DEF OneAiring
    <2>6. airings'[a] > 0 => \A v \in Workers : ~Cueing(v, b)'
      <3> SUFFICES ASSUME airings[a] > 0, NEW v \in Workers, Cueing(v, b)' PROVE FALSE BY <1>1
      <3>1. ~Cueing(v, b) BY <2>2 DEF OneAiring
      <3>2. b = j BY <1>3, <3>1
      <3>q. QED BY <2>4, <3>2 DEF Heard
    <2>7. \A v, u \in Workers : Cueing(v, a)' /\ Cueing(u, b)' => v = u
      <3> SUFFICES ASSUME NEW v \in Workers, NEW u \in Workers, Cueing(v, a)', Cueing(u, b)' PROVE v = u
        OBVIOUS
      <3>1. CASE Cueing(v, a) /\ Cueing(u, b) BY <2>2, <3>1 DEF OneAiring
      <3>2. CASE ~Cueing(v, a)
        <4>1. v = w /\ a = j BY <1>3, <3>2
        <4>2. ~Cueing(u, b) BY <2>3, <4>1 DEF Heard, Cueing
        <4>q. QED BY <1>3, <4>1, <4>2
      <3>3. CASE ~Cueing(u, b)
        <4>1. u = w /\ b = j BY <1>3, <3>3
        <4>2. ~Cueing(v, a) BY <2>4, <4>1 DEF Heard, Cueing
        <4>q. QED BY <1>3, <4>1, <4>2
      <3>q. QED BY <3>1, <3>2, <3>3
    <2>q. QED BY <2>5, <2>6, <2>7 DEF OneAiring
  <1>7. recorded' \subseteq fresh' \cup lapsed' BY <1>1 DEF AiredInv
  <1>q. QED BY <1>5, <1>6, <1>7 DEF AiredInv

LEMMA PlayAired ==
    ASSUME TypeInv, AiredInv, NEW w \in Workers, Play(w)
    PROVE  AiredInv'
  <1> DEFINE j == job[w]
  <1>t. ThreadTypes /\ AirTypes BY DEF TypeInv, TypeOK
  <1>1. /\ pc[w] = "cue" /\ j \in Alerts /\ recorded' = recorded /\ fresh' = fresh /\ lapsed' = lapsed
        /\ airings' = [airings EXCEPT ![j] = @ + 1]
    BY DEF Play, At, TypeInv, Employed, Idle
  <1>2. airings'[j] = airings[j] + 1 /\ \A a \in Alerts : a # j => airings'[a] = airings[a]
    BY <1>1, <1>t DEF AirTypes
  <1>3. OthersStay(w) /\ pc'[w] # "cue" BY ThreadForms DEF Play, Leaves
  <1>4. ASSUME NEW v \in Workers, NEW a, Cueing(v, a)' PROVE Cueing(v, a) /\ v # w
    BY <1>3, <1>4 DEF Cueing, OthersStay, Stays
  <1>5. Cueing(w, j) BY <1>1 DEF Cueing
  <1>6. HeardRecorded'
    <2> SUFFICES ASSUME NEW a \in Alerts, airings'[a] > 0 \/ \E v \in Workers : Cueing(v, a)'
                 PROVE  a \in recorded'
      BY DEF HeardRecorded, Heard, Cueing
    <2>1. Heard(a)
      <3>1. CASE a = j BY <1>5, <3>1 DEF Heard, Cueing
      <3>2. CASE a # j BY <1>2, <1>4, <3>2 DEF Heard, Cueing
      <3>q. QED BY <3>1, <3>2
    <2>q. QED BY <1>1, <2>1 DEF AiredInv, HeardRecorded
  <1>7. ASSUME NEW a \in Alerts, NEW b \in Alerts, SameIssuance(a, b)' PROVE OneAiring(a, b)'
    <2>1. SameIssuance(a, b) /\ SameIssuance(b, a) /\ SameIssuance(a, a)
      BY <1>1, <1>7, SameStays, SameIs
    <2>2. OneAiring(a, b) /\ OneAiring(b, a) /\ OneAiring(a, a) BY <2>1 DEF AiredInv
    <2>3. airings[a] \in Nat /\ airings[b] \in Nat BY <1>t DEF AirTypes
    <2>4. a = j => airings[a] = 0 /\ airings[b] = 0 BY <1>5, <2>2, <2>3 DEF OneAiring
    <2>5. b = j => airings[a] = 0 BY <1>5, <2>2, <2>3 DEF OneAiring
    <2>6. airings'[a] <= 1 /\ (airings'[a] > 0 /\ airings'[b] > 0 => a = b)
      <3>1. CASE a = j BY <1>2, <2>3, <2>4, <3>1
      <3>2. CASE a # j /\ b = j BY <1>2, <2>5, <3>2
      <3>3. CASE a # j /\ b # j BY <1>2, <2>2, <3>3 DEF OneAiring
      <3>q. QED BY <3>1, <3>2, <3>3
    <2>7. airings'[a] > 0 => \A v \in Workers : ~Cueing(v, b)'
      <3> SUFFICES ASSUME airings'[a] > 0, NEW v \in Workers, Cueing(v, b)' PROVE FALSE OBVIOUS
      <3>1. Cueing(v, b) /\ v # w BY <1>4
      <3>2. CASE a = j BY <1>5, <2>2, <3>1, <3>2 DEF OneAiring
      <3>3. CASE a # j BY <1>2, <2>2, <3>1, <3>3 DEF OneAiring
      <3>q. QED BY <3>2, <3>3
    <2>8. \A v, u \in Workers : Cueing(v, a)' /\ Cueing(u, b)' => v = u
      BY <1>4, <2>2 DEF OneAiring
    <2>q. QED BY <2>6, <2>7, <2>8 DEF OneAiring
  <1>8. recorded' \subseteq fresh' \cup lapsed' BY <1>1 DEF AiredInv
  <1>q. QED BY <1>6, <1>7, <1>8 DEF AiredInv

LEMMA AiredNext == TypeInv /\ LockInv /\ AiredInv /\ [Next]_vars => AiredInv'
  <1> SUFFICES ASSUME TypeInv, LockInv, AiredInv, [Next]_vars PROVE AiredInv' OBVIOUS
  <1>1. CASE \E w \in Workers : Record(w) BY <1>1, RecordAired
  <1>2. CASE \E w \in Workers : Play(w) BY <1>2, PlayAired
  <1>3. CASE AirStill /\ ~\E w \in Workers : Record(w)
    <2>1. \A v \in Workers : \A a : Cueing(v, a)' => Cueing(v, a) BY <1>3, CueForms DEF Cueing
    <2>2. HeardRecorded'
      <3> SUFFICES ASSUME NEW a \in Alerts, airings'[a] > 0 \/ \E v \in Workers : Cueing(v, a)'
                   PROVE  a \in recorded'
        BY DEF HeardRecorded, Heard, Cueing
      <3>1. Heard(a) BY <1>3, <2>1 DEF Heard, Cueing, AirStill
      <3>q. QED BY <1>3, <3>1 DEF AiredInv, HeardRecorded, AirStill
    <2>3. ASSUME NEW a \in Alerts, NEW b \in Alerts, SameIssuance(a, b)' PROVE OneAiring(a, b)'
      <3>1. OneAiring(a, b) BY <1>3, <2>3, SameStays DEF AirStill, AiredInv
      <3>2. airings' = airings BY <1>3 DEF AirStill
      <3>q. QED BY <2>1, <3>1, <3>2 DEF OneAiring
    <2>4. recorded' \subseteq fresh' \cup lapsed' BY <1>3 DEF AiredInv, AirStill
    <2>q. QED BY <2>2, <2>3, <2>4 DEF AiredInv
  <1>q. QED BY <1>1, <1>2, <1>3, AirWriters

LEMMA LockInvariant == Spec => []LockInv
  <1>1. Init => LockInv BY LockInit
  <1>2. TypeInv /\ LockInv /\ [Next]_vars => LockInv' BY LockNext
  <1>q. QED BY <1>1, <1>2, TypeInvariant, PTL DEF Spec

LEMMA AiredInvariant == Spec => []AiredInv
  BY AiredInit, AiredNext, TypeInvariant, LockInvariant, PTL DEF Spec

\* Copies of one issuance that agree on its counties are put on the air once between
\* them, for any number of poller, relay, sweep, retry and operator threads running
\* auto_forward_cap_alert and auto_forward_ota_alert, with crashes in between.
THEOREM IssuanceAiredOnce == Spec => []AiredOnce
  <1>1. TypeInv /\ AiredInv => AiredOnce
    <2> SUFFICES ASSUME TypeInv, AiredInv, NEW a \in Alerts, NEW b \in Alerts, SameIssuance(a, b)
                 PROVE  IF a = b THEN airings[a] <= 1 ELSE airings[a] + airings[b] <= 1
      BY DEF AiredOnce
    <2>1. OneAiring(a, b) /\ OneAiring(b, a) BY SameIs DEF AiredInv
    <2>2. airings[a] \in Nat /\ airings[b] \in Nat BY DEF TypeInv, TypeOK, AirTypes
    <2>q. QED BY <2>1, <2>2 DEF OneAiring
  <1>q. QED BY <1>1, TypeInvariant, AiredInvariant, PTL

-----------------------------------------------------------------------------
(* The original of a duplicate.                                            *)

HasOriginal(c) == \E m \in recorded : Event[m] = Event[c]

\* Without a crash every record is aired or its thread is at the player; a verdict of a
\* duplicate is stamped with a record of its event there.
OriginalInv ==
    /\ crashes = 0 => \A m \in recorded : Heard(m)
    /\ \A w \in Workers : verdict[w] = "dup" => pc[w] = "stamp" /\ HasOriginal(job[w])
    /\ \A c \in Caps : reason[c] = "dup" => HasOriginal(c)

LEMMA OriginalInit == Init => OriginalInv
  BY DEF Init, OriginalInv

LEMMA CapDuplicate ==
    ASSUME TypeInv, NEW c \in Caps, Duplicate(c)
    PROVE  HasOriginal(c)
  <1>1. PICK m \in Alerts : SameAlert(c, m) BY DEF Duplicate
  <1>2. c \notin Relays BY AlertsAssumption
  <1>3. m \in fresh /\ Event[m] = Event[c] BY <1>1, <1>2 DEF SameAlert
  <1>q. QED BY <1>3 DEF HasOriginal, TypeInv, TypeOK, AirTypes

\* Records and airings stay, and the reasons are written by a stamp, the catch-up and a
\* cancel.
LEMMA RecordsStay ==
    ASSUME TypeInv, [Next]_vars
    PROVE  /\ recorded \subseteq recorded'
           /\ \A m \in recorded' : m \in recorded \/ \E w \in Workers : Record(w) /\ job[w] = m
           /\ \A a \in Alerts : airings[a] > 0 => airings'[a] > 0
  <1>t. AirTypes BY DEF TypeInv, TypeOK
  <1>1. CASE AirStill BY <1>1 DEF AirStill
  <1>2. ASSUME NEW w \in Workers, Record(w)
        PROVE  recorded' = recorded \cup {job[w]} /\ airings' = airings
    BY <1>2 DEF Record
  <1>3. ASSUME NEW w \in Workers, Play(w)
        PROVE  recorded' = recorded /\ \A a \in Alerts : airings[a] > 0 => airings'[a] > 0
    BY <1>3, <1>t DEF Play, AirTypes
  <1>q. QED BY <1>1, <1>2, <1>3, AirWriters

LEMMA ReasonWriters ==
    ASSUME TypeInv, [Next]_vars, NEW c \in Caps, reason'[c] = "dup", reason[c] # "dup"
    PROVE  \E w \in Workers : job[w] = c /\ verdict[w] = "dup"
  <1>t. RowTypes BY DEF TypeInv, TypeOK
  <1>1. CASE UNCHANGED vars BY <1>1 DEF vars
  <1>2. CASE Ingest \/ Link \/ CatchUp \/ Time \/ ToggleGating
    <2>1. CASE StampMissed BY <2>1 DEF StampMissed
    <2>q. QED
      BY <1>2, <2>1 DEF Ingest, Insert, Repoll, CancelByReference, Link, CatchUp, RetryQuery, Retry, Time,
                        HoldElapses, WindowLapses, Expire, HourPasses, DayPasses, ToggleGating
  <1>3. CASE \E m \in Monitors, a \in Relays : Decode(m, a) BY <1>3 DEF Decode
  <1>4. ASSUME NEW w \in Workers, Pipeline(w) \/ Load(w) PROVE job[w] = c /\ verdict[w] = "dup"
    <2>1. Stamp(w)
      BY <1>4 DEF Pipeline, Check, Gate, Lock, Dedup, Record, Refuse, Play, Load, pipeUnchanged
    <2>q. QED BY <2>1, <1>t DEF Stamp, RowTypes
  <1>5. CASE \E s \in Sweepers : Sweep(s) BY <1>5 DEF Sweep, SweepQuery, SweepTake, Release
  <1>6. ASSUME NEW o \in Operators, Operate(o) PROVE FALSE
    <2>1. CASE Approve(o) BY <2>1 DEF Approve, pipeUnchanged
    <2>2. CASE Cancel(o) BY <2>2, <1>t DEF Cancel, RowTypes
    <2>q. QED BY <1>6, <2>1, <2>2 DEF Operate
  <1>7. CASE \E o \in Operators, l \in {"approve", "cancel"}, a \in Alerts : Open(o, l, a) BY <1>7 DEF Open
  <1>8. CASE \E p \in Processes : Crash(p) BY <1>8 DEF Crash
  <1>q. QED BY <1>1, <1>2, <1>3, <1>4, <1>5, <1>6, <1>7, <1>8 DEF Next

LEMMA CrashesCount ==
    ASSUME TypeInv, [Next]_vars
    PROVE  crashes' = 0 => crashes = 0 /\ ~\E p \in Processes : Crash(p)
  <1>t. crashes \in Nat BY BoundsAssumption DEF TypeInv, TypeOK, BoundTypes
  <1>1. CASE UNCHANGED vars
    <2>1. crashes' = crashes BY <1>1 DEF vars
    <2>q. QED BY <1>t, <2>1 DEF Crash
  <1>2. ASSUME NEW p \in Processes, Crash(p) PROVE crashes' # 0 BY <1>2, <1>t DEF Crash
  <1>3. ASSUME Next, ~\E p \in Processes : Crash(p) PROVE crashes' = crashes
    <2>1. CASE Ingest \/ Link \/ CatchUp \/ Time \/ ToggleGating
      BY <2>1 DEF Ingest, Insert, Repoll, CancelByReference, Link, CatchUp, StampMissed, RetryQuery,
                  Retry, Time, HoldElapses, WindowLapses, Expire, HourPasses, DayPasses, ToggleGating
    <2>2. CASE \E m \in Monitors, a \in Relays : Decode(m, a) BY <2>2 DEF Decode
    <2>3. CASE \E w \in Workers : Pipeline(w) \/ Load(w)
      BY <2>3 DEF Pipeline, Check, Gate, Lock, Dedup, Record, Refuse, Play, Stamp, Load, pipeUnchanged
    <2>4. CASE \E s \in Sweepers : Sweep(s) BY <2>4 DEF Sweep, SweepQuery, SweepTake, Release
    <2>5. CASE \E o \in Operators : Operate(o) BY <2>5 DEF Operate, Approve, Cancel, pipeUnchanged
    <2>6. CASE \E o \in Operators, l \in {"approve", "cancel"}, a \in Alerts : Open(o, l, a)
      BY <2>6 DEF Open, pipeUnchanged
    <2>q. QED BY <1>3, <2>1, <2>2, <2>3, <2>4, <2>5, <2>6 DEF Next
  <1>q. QED BY <1>1, <1>2, <1>3

LEMMA OriginalNext == TypeInv /\ OriginalInv /\ [Next]_vars => OriginalInv'
  <1> SUFFICES ASSUME TypeInv, OriginalInv, [Next]_vars PROVE OriginalInv' OBVIOUS
  <1>0. \A c : HasOriginal(c) => HasOriginal(c)' BY RecordsStay DEF HasOriginal
  <1>1. ASSUME crashes' = 0, NEW m \in recorded' PROVE Heard(m)'
    <2>1. crashes = 0 /\ \A v \in Workers : ThreadStep(v) BY <1>1, CrashesCount, ThreadSteps
    <2>2. CASE m \in recorded
      <3>1. Heard(m) BY <2>1, <2>2 DEF OriginalInv
      <3>2. m \in Alerts BY <2>2 DEF TypeInv, TypeOK, AirTypes
      <3>3. CASE airings[m] > 0 BY <3>2, <3>3, RecordsStay DEF Heard
      <3>4. ASSUME NEW v \in Workers, job[v] = m, pc[v] = "cue" PROVE Heard(m)'
        <4>1. CASE pc'[v] = "cue" /\ job'[v] = job[v] BY <3>4, <4>1 DEF Heard
        <4>2. CASE Play(v)
          <5>1. airings[m] \in Nat /\ airings' = [airings EXCEPT ![m] = @ + 1]
            BY <3>2, <3>4, <4>2 DEF Play, TypeInv, TypeOK, AirTypes
          <5>2. airings'[m] = airings[m] + 1 BY <3>2, <5>1 DEF TypeInv, TypeOK, AirTypes
          <5>q. QED BY <5>1, <5>2 DEF Heard
        <4>3. CASE Leaves(v)
          <5>1. ThreadStep(v) BY <2>1
          <5>2. Play(v)
            BY <3>4, <4>3, <5>1
            DEF ThreadStep, Stays, Leaves, Begins, Resolves, Loads, Passes, GoesOn, Concludes, Idle
          <5>q. QED BY <4>2, <5>2
        <4>q. QED BY <3>4, <4>1, <4>2, <4>3, CueForms
      <3>q. QED BY <3>1, <3>3, <3>4 DEF Heard
    <2>3. ASSUME NEW w \in Workers, Record(w), job[w] = m PROVE Heard(m)'
      <3>1. GoesOn(w, "record", "cue") BY <2>3, ThreadForms DEF Record, At
      <3>q. QED BY <2>3, <3>1 DEF Heard, GoesOn
    <2>q. QED BY <2>2, <2>3, RecordsStay
  <1>2. ASSUME NEW w \in Workers, verdict'[w] = "dup" PROVE pc'[w] = "stamp" /\ HasOriginal(job[w])'
    <2>1. CASE ThreadStep(w)
      <3>1. CASE Concludes(w)
        <4>1. HasOriginal(job[w]) BY <1>2, <3>1, CapDuplicate DEF Concludes
        <4>2. pc'[w] = "stamp" /\ job'[w] = job[w] BY <3>1 DEF Concludes
        <4>3. HasOriginal(job[w])' BY <4>1, <4>2, RecordsStay DEF HasOriginal
        <4>q. QED BY <4>2, <4>3
      <3>2. CASE ~Concludes(w)
        <4>1. verdict[w] = "dup" => pc[w] = "stamp" /\ HasOriginal(job[w]) BY DEF OriginalInv
        <4>2. pc'[w] = "stamp" /\ job'[w] = job[w] /\ verdict[w] = "dup"
          BY <1>2, <2>1, <3>2, <4>1
          DEF ThreadStep, Stays, Leaves, Begins, Resolves, Loads, Passes, GoesOn, Idle
        <4>3. HasOriginal(job[w])' BY <4>1, <4>2, RecordsStay DEF HasOriginal
        <4>q. QED BY <4>2, <4>3
      <3>q. QED BY <3>1, <3>2
    <2>2. CASE Stays(w) \/ Leaves(w)
      <3>1. pc'[w] = "stamp" /\ job'[w] = job[w] /\ HasOriginal(job[w])
        BY <1>2, <2>2 DEF Stays, Leaves, OriginalInv
      <3>q. QED BY <3>1, RecordsStay DEF HasOriginal
    <2>q. QED BY <2>1, <2>2, ThreadSteps
  <1>3. ASSUME NEW c \in Caps, reason'[c] = "dup" PROVE HasOriginal(c)'
    <2>1. HasOriginal(c) BY <1>3, ReasonWriters DEF OriginalInv
    <2>q. QED BY <1>0, <2>1
  <1>q. QED BY <1>1, <1>2, <1>3 DEF OriginalInv

\* auto_forward_cap_alert suppresses nothing as a duplicate of what was never aired: as
\* long as no process has crashed, an alert stamped so has an original of its event on the
\* air or about to be.  (A crash between the record and the player leaves a record that
\* no one heard, and that suppresses the copies after it.)
THEOREM OriginalAired == Spec => [](crashes = 0 => DuplicateHasOriginal)
  <1>1. TypeInv /\ OriginalInv => (crashes = 0 => DuplicateHasOriginal)
    <2> SUFFICES ASSUME TypeInv, OriginalInv, crashes = 0, NEW c \in Caps, reason[c] = "dup"
                 PROVE  \E m \in Alerts : Event[m] = Event[c] /\ Heard(m)
      BY DEF DuplicateHasOriginal
    <2>1. PICK m \in recorded : Event[m] = Event[c] BY DEF OriginalInv, HasOriginal
    <2>q. QED BY <2>1 DEF OriginalInv, TypeInv, TypeOK, AirTypes
  <1>q. QED BY <1>1, OriginalInit, OriginalNext, TypeInvariant, PTL DEF Spec

-----------------------------------------------------------------------------
(* The hold-off.                                                           *)

\* The poller works on CAP alerts, a decoder thread on relays.
Fitting == /\ job["poll"] \in Caps \cup {NoAlert}
           /\ \A m \in Monitors : job[m] \in Relays \cup {NoAlert}

\* A replaying thread works on a row that was resolved, and saw it so.
Replaying(w) ==
    w \in Replayers /\ pc[w] \in {"load", "check", "lock", "dedup", "gate", "record", "cue"}
RowResolved ==
    \A w \in Workers : Replaying(w) =>
        gate[job[w]] \in Resolved /\ (pc[w] # "load" => seen[w] \in Resolved)

\* No row is pending for an alert that a thread took past the gate.
PastGate(w) == pc[w] \in {"record", "cue"} \/ (job[w] \in Caps /\ pc[w] \in {"lock", "dedup"})
NotHeld == \A w \in Workers : PastGate(w) /\ job[w] \notin Bypass => gate[job[w]] # "pending"

\* A timer releases only what was due when the sweep listed it.
ReleasedDue ==
    /\ \A s \in Sweepers : todo[s] \subseteq due
    /\ \A w \in Workers : pc[w] = "release" => job[w] \in due
    /\ \A a \in Alerts : gate[a] = "released" => a \in due

HoldInv == Fitting /\ RowResolved /\ NotHeld /\ ReleasedDue

LEMMA HoldInit == Init => HoldInv
  BY DEF Init, HoldInv, Fitting, RowResolved, Replaying, NotHeld, PastGate, ReleasedDue

\* A resolved row is never pending again, and only a thread that resolves no rows itself
\* creates one.
LEMMA GateForms ==
    ASSUME TypeInv, HoldInv, [Next]_vars, NEW a \in Alerts
    PROVE  /\ gate[a] \in Resolved => gate'[a] \in Resolved
           /\ gate'[a] = "pending" => \/ gate[a] = "pending"
                                      \/ /\ gate[a] = "none"
                                         /\ \E w \in Workers \ Replayers : pc[w] = "gate" /\ job[w] = a
           /\ gate'[a] = "released" => \/ gate[a] = "released"
                                       \/ \E w \in Workers : pc[w] = "release" /\ job[w] = a
  <1>t. GateTypes /\ ThreadTypes BY DEF TypeInv, TypeOK
  <1>1. CASE gate' = gate BY <1>1
  <1>2. ASSUME NEW w \in Workers, Gate(w), gate' # gate
        PROVE  w \notin Replayers /\ pc[w] = "gate" /\ gate[job[w]] = "none"
               /\ gate' = [gate EXCEPT ![job[w]] = "pending"]
    <2>1. pc[w] = "gate" /\ GateRow(w) = "none" /\ gate' = [gate EXCEPT ![job[w]] = "pending"]
      BY <1>2 DEF Gate, PassGate, At
    <2>2. w \notin Replayers
      BY <2>1 DEF GateRow, HoldInv, RowResolved, Replaying, Resolved
    <2>q. QED BY <2>1, <2>2 DEF GateRow
  <1>3. ASSUME NEW w \in Workers, Release(w) \/ Approve(w) \/ Cancel(w)
        PROVE  /\ \E r \in Resolved : gate' = [gate EXCEPT ![job[w]] = r] /\ (r = "released" => pc[w] = "release")
    BY <1>3 DEF Release, Approve, Cancel, At, Resolved
  <1>4. ASSUME NEW w \in Workers, Gate(w), gate' # gate
        PROVE  /\ gate[a] \in Resolved => gate'[a] \in Resolved
               /\ gate'[a] = "pending" => \/ gate[a] = "pending"
                                          \/ gate[a] = "none" /\ pc[w] = "gate" /\ job[w] = a /\ w \notin Replayers
               /\ gate'[a] = "released" => gate[a] = "released"
    BY <1>2, <1>4, <1>t DEF GateTypes, Resolved
  <1>5. ASSUME NEW w \in Workers, Release(w) \/ Approve(w) \/ Cancel(w)
        PROVE  /\ gate[a] \in Resolved => gate'[a] \in Resolved
               /\ gate'[a] = "pending" => gate[a] = "pending"
               /\ gate'[a] = "released" => gate[a] = "released" \/ (pc[w] = "release" /\ job[w] = a)
    BY <1>3, <1>5, <1>t DEF GateTypes, Resolved
  <1>q. QED BY <1>1, <1>4, <1>5, GateWriters

\* Lists grow only by what a sweep's query found due, and nothing ceases to be due.
LEMMA DueForms ==
    ASSUME TypeInv, [Next]_vars
    PROVE  /\ due \subseteq due'
           /\ \A s \in Sweepers : todo'[s] \subseteq todo[s] \cup due
  <1> USE DEF listVars, timeVars, pipeUnchanged
  <1>t. ListTypes BY DEF TypeInv, TypeOK
  <1>1. CASE UNCHANGED vars BY <1>1 DEF vars
  <1>2. CASE Ingest \/ Link \/ CatchUp \/ Time \/ ToggleGating
    BY <1>2, <1>t DEF Ingest, Insert, Repoll, CancelByReference, Link, CatchUp, StampMissed, RetryQuery,
                      Retry, Time, HoldElapses, WindowLapses, Expire, HourPasses, DayPasses, ToggleGating, ListTypes
  <1>3. CASE \E m \in Monitors, a \in Relays : Decode(m, a) BY <1>3 DEF Decode
  <1>4. CASE \E w \in Workers : Pipeline(w) \/ Load(w)
    BY <1>4 DEF Pipeline, Check, Gate, Lock, Dedup, Record, Refuse, Play, Stamp, Load
  <1>5. ASSUME NEW s \in Sweepers, Sweep(s)
        PROVE  due' = due /\ \A u \in Sweepers : todo'[u] \subseteq todo[u] \cup due
    <2>1. CASE SweepQuery(s) BY <2>1, <1>t DEF SweepQuery, SweepDue, ListTypes
    <2>2. CASE Release(s) BY <2>2 DEF Release
    <2>3. ASSUME NEW a \in Alerts, SweepTake(s, a)
          PROVE  due' = due /\ \A u \in Sweepers : todo'[u] \subseteq todo[u] \cup due
      BY <2>3, <1>t DEF SweepTake, ListTypes
    <2>q. QED BY <1>5, <2>1, <2>2, <2>3 DEF Sweep
  <1>6. CASE \E o \in Operators : Operate(o) BY <1>6 DEF Operate, Approve, Cancel
  <1>7. CASE \E o \in Operators, l \in {"approve", "cancel"}, a \in Alerts : Open(o, l, a) BY <1>7 DEF Open
  <1>8. CASE \E p \in Processes : Crash(p) BY <1>8, <1>t DEF Crash, ListTypes
  <1>q. QED BY <1>1, <1>2, <1>3, <1>4, <1>5, <1>6, <1>7, <1>8 DEF Next

\* No two decoder threads are past the duplicate check with one relay: there is one
\* thread only, or the lock and the record of the first keep the second from it.
OneMonitor == \A m, n \in Monitors : m = n
RelaysCovered == \A r \in Relays \ Bypass : Fips[r] \cap Coverage # {}

LEMMA OneDecoder ==
    ASSUME TypeInv, LockInv, AiredInv, OneMonitor \/ RelaysCovered,
           NEW v \in Monitors, NEW w \in Monitors, NEW r \in Relays \ Bypass,
           job[v] = r, job[w] = r, pc[w] = "gate", pc[v] \in {"record", "cue"}
    PROVE  v = w
  <1>1. CASE OneMonitor BY <1>1 DEF OneMonitor
  <1>2. CASE RelaysCovered
    <2>1. r \in Alerts /\ r \notin Upgrade /\ Fips[r] # {} /\ v \in Workers /\ w \in Workers
      BY <1>2, AlertsAssumption DEF RelaysCovered
    <2>2. w \in holds BY <2>1, LockParts DEF Guarded
    <2>3. CASE pc[v] = "record"
      <3>1. v \in holds BY <2>1, <2>3, LockParts DEF Guarded
      <3>q. QED BY <2>2, <3>1 DEF LockInv, LockExcludes
    <2>4. CASE pc[v] = "cue"
      <3>1. r \in recorded BY <2>1, <2>4 DEF AiredInv, HeardRecorded, Heard
      <3>2. Sent(r) \cap Fips[r] # {} BY <1>2 DEF RelaysCovered, Sent
      <3>3. SameAlert(r, r) BY <3>1, <3>2 DEF SameAlert
      <3>4. ~SameAlert(r, r)
        <4>1. NoTwin(w) BY <2>1, <2>2, LockParts
        <4>q. QED BY <2>1, <4>1 DEF NoTwin
      <3>q. QED BY <3>3, <3>4
    <2>q. QED BY <2>3, <2>4
  <1>q. QED BY <1>1, <1>2

LEMMA HoldNext ==
    ASSUME OneMonitor \/ RelaysCovered, TypeInv, LockInv, AiredInv, HoldInv, [Next]_vars
    PROVE  HoldInv'
  <1>d. /\ NoAlert \notin Alerts /\ Caps \cap Relays = {} /\ "poll" \notin Monitors
        /\ \A v \in Workers \ Replayers : v \in {"poll"} \cup Monitors
        /\ "poll" \notin Replayers /\ Monitors \cap Replayers = {} /\ Sweepers \cap Operators = {}
    BY AlertsAssumption, ThreadsAssumption
  <1>e. \A v \in Workers : pc[v] # "idle" => job[v] \in Alerts BY DEF TypeInv, Employed, Idle
  <1>s. ASSUME NEW v \in Workers PROVE ThreadStep(v) \/ Stays(v) \/ Leaves(v) BY ThreadSteps
  <1> USE DEF ThreadStep, Stays, Leaves, Begins, Resolves, Loads, Passes, GoesOn, Concludes, Idle
  <1>1. Fitting'
    <2>1. ASSUME NEW v \in {"poll"} \cup Monitors
          PROVE  \/ job'[v] \in {job[v], NoAlert}
                 \/ v = "poll" /\ job'[v] \in Caps
                 \/ v \in Monitors /\ job'[v] \in Relays
      <3>1. v \in Workers /\ v \notin Sweepers /\ v \notin Operators BY <1>d
      <3>q. QED BY <1>s, <3>1
    <2>q. QED BY <1>d, <2>1 DEF HoldInv, Fitting
  <1>2. RowResolved'
    <2> SUFFICES ASSUME NEW v \in Workers, Replaying(v)'
                 PROVE  gate'[job'[v]] \in Resolved /\ (pc'[v] # "load" => seen'[v] \in Resolved)
      BY DEF RowResolved
    <2>1. \/ /\ Replaying(v) /\ job'[v] = job[v]
             /\ \/ seen'[v] = seen[v] /\ (pc'[v] # "load" => pc[v] # "load")
                \/ pc[v] = "load" /\ seen'[v] = gate[job[v]]
          \/ job'[v] = job[v] /\ gate'[job[v]] \in Resolved /\ pc'[v] = "load"
      BY <1>d, <1>s DEF Replaying
    <2>2. Replaying(v) => job[v] \in Alerts /\ gate[job[v]] \in Resolved
                          /\ (pc[v] # "load" => seen[v] \in Resolved)
      BY <1>e DEF HoldInv, RowResolved, Replaying
    <2>3. Replaying(v) => gate'[job[v]] \in Resolved BY <2>2, GateForms
    <2>q. QED BY <2>1, <2>2, <2>3
  <1>3. NotHeld'
    <2> SUFFICES ASSUME NEW v \in Workers, PastGate(v)', job'[v] \notin Bypass, gate'[job'[v]] = "pending"
                 PROVE  FALSE
      BY DEF NotHeld
    <2>1. \/ PastGate(v) /\ job'[v] = job[v]
          \/ job'[v] = job[v] /\ pc[v] = "gate" /\ Cleared(v) /\ gate' = gate
      BY <1>d, <1>s DEF PastGate
    <2>2. job[v] \in Alerts BY <1>e, <2>1 DEF PastGate
    <2>3. CASE PastGate(v) /\ job'[v] = job[v]
      <3>1. gate[job[v]] # "pending" BY <2>3 DEF HoldInv, NotHeld
      <3>2. PICK w \in Workers \ Replayers : pc[w] = "gate" /\ job[w] = job[v] /\ gate[job[v]] = "none"
        BY <2>2, <2>3, <3>1, GateForms
      <3>3. v \notin Replayers
        BY <2>3, <3>2 DEF HoldInv, RowResolved, Replaying, PastGate, Resolved
      <3>4. v = w
        <4>1. CASE job[v] \in Caps BY <1>d, <2>2, <3>2, <3>3, <4>1 DEF HoldInv, Fitting
        <4>2. CASE job[v] \in Relays
          <5>1. v \in Monitors /\ w \in Monitors BY <1>d, <2>2, <3>2, <3>3, <4>2 DEF HoldInv, Fitting
          <5>2. job[v] \in Relays \ Bypass /\ pc[v] \in {"record", "cue"} BY <1>d, <2>3, <4>2 DEF PastGate
          <5>q. QED BY <3>2, <5>1, <5>2, OneDecoder
        <4>q. QED BY <2>2, <4>1, <4>2
      <3>q. QED BY <2>3, <3>2, <3>4 DEF PastGate
    <2>4. CASE job'[v] = job[v] /\ pc[v] = "gate" /\ Cleared(v) /\ gate' = gate
      <3>1. GateRow(v) \in {"approved", "released", "none"} BY <2>4 DEF Cleared
      <3>2. CASE v \in Replayers
        <4>1. gate[job[v]] \in Resolved BY <2>4, <3>2 DEF HoldInv, RowResolved, Replaying
        <4>q. QED BY <2>4, <4>1 DEF Resolved
      <3>3. CASE v \notin Replayers BY <2>4, <3>1, <3>3 DEF GateRow
      <3>q. QED BY <3>2, <3>3
    <2>q. QED BY <2>1, <2>3, <2>4
  <1>4. ReleasedDue'
    <2>1. \A s \in Sweepers : todo'[s] \subseteq due' BY DueForms DEF HoldInv, ReleasedDue
    <2>2. ASSUME NEW v \in Workers, pc'[v] = "release" PROVE job'[v] \in due'
      <3>1. \/ pc[v] = "release" /\ job'[v] = job[v]
            \/ v \in Sweepers /\ job'[v] \in todo[v]
        BY <1>s, <2>2
      <3>q. QED BY <3>1, DueForms DEF HoldInv, ReleasedDue
    <2>3. ASSUME NEW a \in Alerts, gate'[a] = "released" PROVE a \in due'
      <3>1. gate[a] = "released" \/ \E w \in Workers : pc[w] = "release" /\ job[w] = a BY <2>3, GateForms
      <3>2. a \in due BY <3>1 DEF HoldInv, ReleasedDue
      <3>q. QED BY <3>2, DueForms
    <2>q. QED BY <2>1, <2>2, <2>3 DEF ReleasedDue
  <1>q. QED BY <1>1, <1>2, <1>3, <1>4 DEF HoldInv

\* _resolve_gate and the sweepers keep what the gate applies to off the air while its
\* row is pending, and a timer lets nothing go before hold_until, through toggles of the
\* gate, replays and crashes: with the one decoder thread the service runs, and with any
\* number of them as long as every relay it applies to names a county of the coverage.
THEOREM HoldOffObserved ==
    ASSUME OneMonitor \/ RelaysCovered
    PROVE  Spec => HoldOffHonoured
  <1>1. TypeInv /\ LockInv /\ AiredInv /\ HoldInv /\ [Next]_vars => HoldInv' BY HoldNext
  <1>2. TypeInv /\ HoldInv /\ [Next]_vars =>
            [\A a \in Alerts \ Bypass : airings'[a] # airings[a] =>
                gate[a] # "pending" /\ (gate[a] = "released" => a \in due)]_vars
    <2> SUFFICES ASSUME TypeInv, HoldInv, [Next]_vars,
                        NEW a \in Alerts \ Bypass, airings'[a] # airings[a]
                 PROVE  gate[a] # "pending" /\ (gate[a] = "released" => a \in due)
      OBVIOUS
    <2>1. PICK w \in Workers : pc[w] = "cue" /\ job[w] = a BY OnlyPlayAirs
    <2>q. QED BY <2>1 DEF HoldInv, NotHeld, PastGate, ReleasedDue
  <1>q. QED
    BY <1>1, <1>2, HoldInit, TypeInvariant, LockInvariant, AiredInvariant, PTL
    DEF Spec, HoldOffHonoured
=============================================================================
