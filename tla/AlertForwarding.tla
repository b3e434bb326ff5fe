--------------------------- MODULE AlertForwarding ---------------------------
(***************************************************************************)
(* How an alert reaches the air: the CAP poller, the off-air (OTA) relay   *)
(* callbacks, the two hold-off sweepers and the operators' approve and     *)
(* cancel requests, all of which run auto_forward_cap_alert or             *)
(* auto_forward_ota_alert against one PostgreSQL database (READ COMMITTED) *)
(* without any lock but the advisory one taken around deduplication.       *)
(*                                                                         *)
(* One step is one database statement or commit, one wait, or one piece of *)
(* code whose reads are all made together.                                 *)
(***************************************************************************)
EXTENDS Naturals, FiniteSets

CONSTANTS
    Caps,        \* CAP alerts the feed carries (CAPAlert rows)
    Relays,      \* off-air decodes, one per raw SAME header (_ota_id)
    Monitors,    \* decoder threads of the monitor: the service runs one
    Operators,   \* web requests acting on the pending-alerts queue
    Event,       \* [Alerts -> SAME event codes]
    Issue,       \* [Alerts -> originator, event and issue time of the header]
    Fips,        \* [Alerts -> sets of county codes the alert names]
    Coverage,    \* county codes the station is configured for
    Bypass,      \* alerts of Immediate urgency or Extreme severity
    Upgrade,     \* CAP alerts with VTEC action UPG
    Undated,     \* CAP alerts that carry no expiry
    Terminal,    \* CAP products that cancel their VTEC chain (action CAN)
    Filtered,    \* alerts the static filters refuse (scope, msgType, allowlist)
    Replaces,    \* [Caps -> prior CAP alerts of its chain or <references>]
    MaxHeard,    \* bound: times one relay is decoded
    MaxCrashes,  \* bound: process crashes
    NoAlert      \* the job of a thread that has none

Alerts    == Caps \cup Relays
Sweepers  == {"capSweep", "otaSweep"}
Workers   == {"poll"} \cup Sweepers \cup Monitors \cup Operators
Replayers == Sweepers \cup Operators      \* re-run a row they resolved themselves
Processes == {"poller", "monitor", "web"}
Threads(p) == CASE p = "poller"  -> {"poll", "capSweep"}
                [] p = "monitor" -> Monitors \cup {"otaSweep"}
                [] p = "web"     -> Operators

GateStatus == {"none", "pending", "approved", "cancelled", "released"}
Reasons    == {"none", "unfit", "expired", "pending", "cancelled", "dup",
               "failed", "forwarded", "missed"}
Labels     == {"idle", "link", "check", "gate", "lock", "dedup", "record",
               "cue", "stamp", "release", "load", "approve", "cancel"}

ASSUME ThreadsAssumption ==
    /\ Monitors \cap ({"poll"} \cup Sweepers \cup Operators) = {}
    /\ Operators \cap ({"poll"} \cup Sweepers) = {}
ASSUME AlertsAssumption ==
    /\ Caps \cap Relays = {}
    /\ NoAlert \notin Alerts
    /\ Upgrade \subseteq Caps /\ Terminal \subseteq Caps /\ Undated \subseteq Caps
    /\ Replaces \in [Caps -> SUBSET Caps]
ASSUME BoundsAssumption == MaxHeard \in Nat /\ MaxCrashes \in Nat

VARIABLES
    status,      \* CAPAlert.status, "absent" before the row exists
    cancelledAt, \* CAPAlert.cancelled_at is set
    superseded,  \* CAPAlert.superseded_by_id is set
    stale,       \* CAP rows inserted after their own expiry
    reason,      \* CAPAlert.eas_forwarding_reason; eas_forwarded is "forwarded"
    expired,     \* CAP alerts whose expiry has passed; the relay path never looks
    gate,        \* GatedAlert.status, "none" without a row
    due,         \* rows whose hold_until has passed
    aged,        \* CAP rows past the catch-up's 60 minutes, still without a decision
    bygone,      \* those that expired more than 24 hours ago
    gating,      \* AlertGatingSettings.enabled
    recorded,    \* alerts with an EASMessage row
    fresh,       \* of those, the ones inside the 15 minute window
    lapsed,      \* history: alerts a record of which has left that window
    airings,     \* history: how often the alert was put on the air
    veto,        \* history: an operator's cancel, and whether it came in time
    heard,       \* times each relay was decoded
    pc, job,     \* where each thread is, and the alert it works on
    seen,        \* gate status a replaying thread loaded after its own commit
    verdict,     \* reason a thread is about to stamp
    holds,       \* threads that hold the advisory lock of their job's key
    todo,        \* result list of the sweep or catch-up query being walked
    cached,      \* the OTA sweep's session still holds its query result
    crashes

feedVars == <<status, cancelledAt, superseded, stale>>
timeVars == <<expired, due, aged, bygone>>
airVars  == <<recorded, fresh, lapsed, airings>>
jobVars  == <<pc, job, seen, verdict, holds>>
listVars == <<todo, cached>>
vars == <<feedVars, timeVars, airVars, jobVars, listVars,
          reason, gate, gating, veto, heard, crashes>>

Batchers == {"poll"} \cup Sweepers

RowTypes ==
    /\ status \in [Caps -> {"absent", "Actual", "Cancelled"}]
    /\ cancelledAt \subseteq Caps /\ superseded \subseteq Caps /\ stale \subseteq Caps
    /\ reason \in [Caps -> Reasons]
    /\ expired \subseteq Caps /\ aged \subseteq Caps /\ bygone \subseteq Caps
GateTypes ==
    /\ gate \in [Alerts -> GateStatus]
    /\ due \subseteq Alerts
    /\ gating \in BOOLEAN
    /\ veto \in [Alerts -> {"none", "inTime", "late"}]
AirTypes ==
    /\ recorded \subseteq Alerts /\ fresh \subseteq recorded /\ lapsed \subseteq Alerts
    /\ airings \in [Alerts -> Nat]
ThreadTypes ==
    /\ pc \in [Workers -> Labels]
    /\ job \in [Workers -> Alerts \cup {NoAlert}]
    /\ seen \in [Workers -> GateStatus]
    /\ verdict \in [Workers -> Reasons]
    /\ holds \subseteq Workers
ListTypes ==
    /\ todo \in [Batchers -> SUBSET Alerts]
    /\ todo["poll"] \cup todo["capSweep"] \subseteq Caps
    /\ todo["otaSweep"] \subseteq Relays
    /\ cached \in BOOLEAN
BoundTypes == heard \in [Relays -> 0..MaxHeard] /\ crashes \in 0..MaxCrashes
TypeOK == RowTypes /\ GateTypes /\ AirTypes /\ ThreadTypes /\ ListTypes /\ BoundTypes

Init ==
    /\ status = [c \in Caps |-> "absent"]
    /\ cancelledAt = {} /\ superseded = {} /\ stale = {}
    /\ reason = [c \in Caps |-> "none"]
    /\ expired = {} /\ due = {} /\ aged = {} /\ bygone = {}
    /\ gate = [a \in Alerts |-> "none"]
    /\ gating \in BOOLEAN
    /\ recorded = {} /\ fresh = {} /\ lapsed = {}
    /\ airings = [a \in Alerts |-> 0]
    /\ veto = [a \in Alerts |-> "none"]
    /\ heard = [a \in Relays |-> 0]
    /\ pc = [w \in Workers |-> "idle"]
    /\ job = [w \in Workers |-> NoAlert]
    /\ seen = [w \in Workers |-> "none"]
    /\ verdict = [w \in Workers |-> "none"]
    /\ holds = {}
    /\ todo = [w \in Batchers |-> {}]
    /\ cached = FALSE
    /\ crashes = 0

-----------------------------------------------------------------------------
(* What the code compares.                                                 *)

Stored == {c \in Caps : status[c] # "absent"}

\* Locations of the outgoing header: the alert's counties inside the coverage
\* area, or the whole area when none is.
Sent(a) == IF Fips[a] \cap Coverage # {} THEN Fips[a] \cap Coverage ELSE Coverage

\* Key of the advisory lock: event code and the alert's own county set.
LockKey(a) == <<Event[a], Fips[a]>>

\* The CAP path deduplicates only without UPG and with county codes; the relay
\* path always has its raw header.
DedupesCapOnly(a) == a \in Caps \ Upgrade /\ Fips[a] = {}  \* mutant
Dedupes(a) == a \in Relays \/ (a \notin Upgrade /\ Fips[a] # {})

\* is_duplicate_broadcast.  With a header: same originator, event and issue
\* time and a shared county, over 24 hours.  Without: same event and exactly
\* the same county set, over 15 minutes.
SameAlert(a, m) ==
    IF a \in Relays
    THEN m \in recorded /\ Issue[m] = Issue[a] /\ Sent(m) \cap Fips[a] # {}
    ELSE m \in fresh /\ Event[m] = Event[a] /\ Sent(m) = Fips[a]
Duplicate(a) == \E m \in Alerts : SameAlert(a, m)

-----------------------------------------------------------------------------
(* Moves of one thread.                                                    *)

Idle(w)    == pc[w] = "idle"
At(w, l)   == pc[w] = l
GoTo(w, l) == pc' = [pc EXCEPT ![w] = l]

Start(w, l, a) ==
    /\ GoTo(w, l)
    /\ job' = [job EXCEPT ![w] = a]
    /\ UNCHANGED <<seen, verdict, holds>>

\* The thread is done with its job; its session ends and with it its lock.
ReturnKeepingLock(w) ==                                    \* mutant
    /\ GoTo(w, "idle")
    /\ seen' = [seen EXCEPT ![w] = "none"]
    /\ verdict' = [verdict EXCEPT ![w] = "none"]
    /\ UNCHANGED <<job, holds>>
Return(w) ==
    /\ GoTo(w, "idle")
    /\ job' = [job EXCEPT ![w] = NoAlert]
    /\ seen' = [seen EXCEPT ![w] = "none"]
    /\ verdict' = [verdict EXCEPT ![w] = "none"]
    /\ holds' = holds \ {w}

\* Leave the pipeline.  A CAP alert still gets its reason stamped, in a later
\* commit; a relay has no row and just returns.
Conclude(w, r) ==
    IF job[w] \in Caps
    THEN /\ GoTo(w, "stamp")
         /\ verdict' = [verdict EXCEPT ![w] = r]
         /\ UNCHANGED <<job, seen, holds>>
    ELSE Return(w)

-----------------------------------------------------------------------------
(* The poll thread: ingest.                                                *)

PollFree == Idle("poll") /\ todo["poll"] = {}

\* _insert_new_alert up to its first commit.  A cancellation product is
\* itself stored as Cancelled.
Insert(a) ==
    /\ PollFree /\ a \notin Stored
    /\ status' = [status EXCEPT ![a] = IF a \in Terminal THEN "Cancelled" ELSE "Actual"]
    /\ cancelledAt' = IF a \in Terminal THEN cancelledAt \cup {a} ELSE cancelledAt
    /\ stale' = IF a \in expired THEN stale \cup {a} ELSE stale
    /\ Start("poll", "link", a)
    /\ UNCHANGED <<superseded, timeVars, airVars, listVars, reason, gate, gating,
                   veto, heard, crashes>>

\* The rest of _insert_new_alert before the forwarding decision: mark the
\* un-superseded priors of the chain, cancelling them when the product is a
\* cancellation; an alert that is over already gets no decision at all.
Link ==
    LET a      == job["poll"]
        priors == (Replaces[a] \cap Stored) \ (superseded \cup {a})
    IN  /\ At("poll", "link")
        /\ superseded' = superseded \cup priors
        /\ IF a \in Terminal
           THEN /\ status' = [c \in Caps |-> IF c \in priors THEN "Cancelled" ELSE status[c]]
                /\ cancelledAt' = cancelledAt \cup priors
           ELSE UNCHANGED <<status, cancelledAt>>
        /\ IF a \in expired
           THEN Return("poll")
           ELSE GoTo("poll", "check") /\ UNCHANGED <<job, seen, verdict, holds>>
        /\ UNCHANGED <<stale, timeVars, airVars, listVars, reason, gate, gating,
                       veto, heard, crashes>>

\* _update_existing_alert: the feed still carries the alert and every payload
\* field, the status included, is copied onto the row.
Repoll(a) ==
    /\ PollFree /\ a \in Stored \ Terminal
    /\ status' = [status EXCEPT ![a] = "Actual"]
    /\ UNCHANGED <<cancelledAt, superseded, stale, timeVars, airVars, jobVars, listVars,
                   reason, gate, gating, veto, heard, crashes>>

\* _process_cap_references_cancellation, for one referenced alert.
CancelByReference(a) ==
    /\ PollFree /\ a \in Stored \ cancelledAt
    /\ status' = [status EXCEPT ![a] = "Cancelled"]
    /\ cancelledAt' = cancelledAt \cup {a}
    /\ UNCHANGED <<superseded, stale, timeVars, airVars, jobVars, listVars,
                   reason, gate, gating, veto, heard, crashes>>

\* retry_unevaluated_forwards: alerts that expired without a decision in the
\* last 24 hours are stamped, those stored in the last hour that have none and
\* have not expired are decided again.  Both queries ask for an expiry.
UndecidedHeld == {c \in Stored \ Undated : reason[c] = "pending"}    \* mutant
Undecided == {c \in Stored \ Undated : reason[c] = "none"}
Missed    == (Undecided \cap expired) \ (stale \cup bygone)
Retriable == Undecided \ (expired \cup aged)

StampMissed ==
    /\ PollFree /\ Missed # {}
    /\ reason' = [c \in Caps |-> IF c \in Missed THEN "missed" ELSE reason[c]]
    /\ UNCHANGED <<feedVars, timeVars, airVars, jobVars, listVars, gate, gating,
                   veto, heard, crashes>>

RetryQuery ==
    /\ PollFree /\ Retriable # {}
    /\ todo' = [todo EXCEPT !["poll"] = Retriable]
    /\ UNCHANGED <<feedVars, timeVars, airVars, jobVars, cached, reason, gate, gating,
                   veto, heard, crashes>>

Retry(a) ==
    /\ Idle("poll") /\ a \in todo["poll"]
    /\ todo' = [todo EXCEPT !["poll"] = @ \ {a}]
    /\ Start("poll", "check", a)
    /\ UNCHANGED <<feedVars, timeVars, airVars, cached, reason, gate, gating,
                   veto, heard, crashes>>

\* The decoder thread hands over a relay after its end-of-message burst.
Decode(m, a) ==
    /\ Idle(m) /\ heard[a] < MaxHeard
    /\ heard' = [heard EXCEPT ![a] = @ + 1]
    /\ Start(m, "check", a)
    /\ UNCHANGED <<feedVars, timeVars, airVars, listVars, reason, gate, gating,
                   veto, crashes>>

-----------------------------------------------------------------------------
(* The forwarding pipeline, run by every kind of thread.                   *)

pipeUnchanged == <<feedVars, timeVars, listVars, gating, veto, heard, crashes>>

\* The checks before the gate.  The CAP path goes on to the gate, the relay
\* path, which checks neither status nor expiry, to deduplication.
Unfit(a)   == a \in Filtered \/ (a \in Caps /\ status[a] # "Actual")
TooLate(a) == a \in expired

Check(w) ==
    LET a == job[w]
    IN  /\ At(w, "check")
        /\ \/ Unfit(a) /\ Conclude(w, "unfit")
           \/ ~Unfit(a) /\ TooLate(a) /\ Conclude(w, "expired")
           \/ /\ ~Unfit(a) /\ ~TooLate(a)
              /\ GoTo(w, IF a \in Caps THEN "gate" ELSE "lock")
              /\ UNCHANGED <<job, seen, verdict, holds>>
        /\ UNCHANGED <<pipeUnchanged, airVars, reason, gate>>

\* The row _resolve_gate works with.  A thread replaying a row it has just
\* resolved finds that row, loaded after its commit, in its session.
GateRow(w) == IF w \in Replayers THEN seen[w] ELSE gate[job[w]]

PassGate(w) ==
    /\ GoTo(w, IF job[w] \in Caps /\ Dedupes(job[w]) THEN "lock" ELSE "record")
    /\ UNCHANGED <<job, seen, verdict, holds, gate>>

\* _resolve_gate and its caller.  Creating the pending row commits, which ends
\* the transaction and frees the lock the relay path holds.
ClearedPending(w) ==                                       \* mutant
    \/ job[w] \in Bypass
    \/ GateRow(w) \in {"pending", "approved", "released"}
    \/ GateRow(w) = "none" /\ ~gating
Cleared(w) ==
    \/ job[w] \in Bypass
    \/ GateRow(w) \in {"approved", "released"}
    \/ GateRow(w) = "none" /\ ~gating

Gate(w) ==
    /\ At(w, "gate")
    /\ \/ Cleared(w) /\ PassGate(w)
       \/ /\ ~Cleared(w) /\ GateRow(w) \in {"pending", "cancelled"}
          /\ Conclude(w, GateRow(w)) /\ UNCHANGED gate
       \/ /\ ~Cleared(w) /\ GateRow(w) = "none"
          /\ gate' = [gate EXCEPT ![job[w]] = "pending"]
          /\ Conclude(w, "pending")
    /\ UNCHANGED <<pipeUnchanged, airVars, reason>>

\* pg_advisory_xact_lock waits for every other holder of the same key; a
\* relay without county codes has no key and takes none.
LockFreeAlways(w) == TRUE                                  \* mutant
LockFree(w) == \A v \in holds : LockKey(job[v]) # LockKey(job[w])

Lock(w) ==
    /\ At(w, "lock") /\ LockFree(w)
    /\ GoTo(w, "dedup")
    /\ holds' = IF Fips[job[w]] # {} THEN holds \cup {w} ELSE holds
    /\ UNCHANGED <<job, seen, verdict>>
    /\ UNCHANGED <<pipeUnchanged, airVars, reason, gate>>

Dedup(w) ==
    /\ At(w, "dedup")
    /\ IF Duplicate(job[w])
       THEN Conclude(w, "dup")
       ELSE /\ GoTo(w, IF job[w] \in Caps THEN "record" ELSE "gate")
            /\ UNCHANGED <<job, seen, verdict, holds>>
    /\ UNCHANGED <<pipeUnchanged, airVars, reason, gate>>

\* EASBroadcaster.handle_alert up to the commit of the EASMessage row, which
\* frees the lock ...
Record(w) ==
    /\ At(w, "record")
    /\ recorded' = recorded \cup {job[w]}
    /\ fresh' = fresh \cup {job[w]}
    /\ GoTo(w, "cue")
    /\ holds' = holds \ {w}
    /\ UNCHANGED <<lapsed, airings, job, seen, verdict>>
    /\ UNCHANGED <<pipeUnchanged, reason, gate>>

\* ... or its refusal: a suppressed event, no header, no audio, failed commit.
RefuseAfterSaving(w) ==                                    \* mutant
    /\ At(w, "record")
    /\ recorded' = recorded \cup {job[w]} /\ fresh' = fresh \cup {job[w]}
    /\ Conclude(w, "failed")
    /\ UNCHANGED <<lapsed, airings, pipeUnchanged, reason, gate>>
Refuse(w) ==
    /\ At(w, "record")
    /\ Conclude(w, "failed")
    /\ UNCHANGED <<pipeUnchanged, airVars, reason, gate>>

\* The broadcast marker, the injected stream and the local player: on the air.
Play(w) ==
    /\ At(w, "cue")
    /\ airings' = [airings EXCEPT ![job[w]] = @ + 1]
    /\ Conclude(w, "forwarded")
    /\ UNCHANGED <<recorded, fresh, lapsed>>
    /\ UNCHANGED <<pipeUnchanged, reason, gate>>

\* _update_cap_forwarding_status.
Stamp(w) ==
    /\ At(w, "stamp")
    /\ reason' = [reason EXCEPT ![job[w]] = verdict[w]]
    /\ Return(w)
    /\ UNCHANGED <<pipeUnchanged, airVars, gate>>
-----------------------------------------------------------------------------
(* The hold-off sweepers.                                                  *)

OwnAnySource(s) == Alerts                                  \* mutant
Own(s) == IF s = "capSweep" THEN Caps ELSE Relays

\* The filters of the sweep query.
SweepDueAnyStatus(a) == gate[a] \in {"pending", "cancelled"} /\ a \in due  \* mutant
SweepDueEarly(a)     == gate[a] = "pending" /\ a \notin due                \* mutant
SweepDue(a) == gate[a] = "pending" /\ a \in due

SweepQuery(s) ==
    /\ Idle(s) /\ todo[s] = {}
    /\ \E a \in Own(s) : SweepDue(a)
    /\ todo' = [todo EXCEPT ![s] = {a \in Own(s) : SweepDue(a)}]
    /\ cached' = (cached \/ s = "otaSweep")
    /\ UNCHANGED <<feedVars, timeVars, airVars, jobVars, reason, gate, gating,
                   veto, heard, crashes>>

\* The OTA sweep fetches each row again and passes over the ones resolved
\* meanwhile, unless its session still holds the query's copy; the CAP sweep
\* takes every row of its list.
StillPending(s, a) == s = "capSweep" \/ cached \/ gate[a] = "pending"

SweepTake(s, a) ==
    /\ Idle(s) /\ a \in todo[s]
    /\ todo' = [todo EXCEPT ![s] = @ \ {a}]
    /\ IF StillPending(s, a) THEN Start(s, "release", a) ELSE UNCHANGED jobVars
    /\ UNCHANGED <<feedVars, timeVars, airVars, cached, reason, gate, gating,
                   veto, heard, crashes>>

\* Commit the released row; the commit also ends what the session had cached.
Release(s) ==
    /\ At(s, "release")
    /\ gate' = [gate EXCEPT ![job[s]] = "released"]
    /\ cached' = (cached /\ s # "otaSweep")
    /\ GoTo(s, "load")
    /\ UNCHANGED <<feedVars, timeVars, airVars, todo, job, seen, verdict, holds, reason,
                   gating, veto, heard, crashes>>

\* The resolved row is read back and its alert replayed through the pipeline.
Load(w) ==
    /\ At(w, "load")
    /\ seen' = [seen EXCEPT ![w] = gate[job[w]]]
    /\ GoTo(w, "check")
    /\ UNCHANGED <<job, verdict, holds>>
    /\ UNCHANGED <<pipeUnchanged, airVars, reason, gate>>

-----------------------------------------------------------------------------
(* The operators' requests: read the row, refuse unless pending, then commit. *)

Open(o, l, a) ==
    /\ Idle(o) /\ gate[a] = "pending" /\ l \in {"approve", "cancel"}
    /\ Start(o, l, a)
    /\ UNCHANGED <<pipeUnchanged, airVars, reason, gate>>

Approve(o) ==
    /\ At(o, "approve")
    /\ gate' = [gate EXCEPT ![job[o]] = "approved"]
    /\ GoTo(o, "load")
    /\ UNCHANGED <<job, seen, verdict, holds>>
    /\ UNCHANGED <<pipeUnchanged, airVars, reason>>

\* Thread w will put a on the air, or let it on the air, whatever becomes of
\* the row: it has listed the row, is about to overwrite it, or is past it.
Committed(w, a) ==
    \/ w \in Sweepers /\ a \in todo[w]
    \/ /\ job[w] = a
       /\ \/ pc[w] \in {"release", "approve", "record", "cue"}
          \/ a \in Caps /\ pc[w] \in {"lock", "dedup"}
          \/ /\ w \in Replayers /\ seen[w] # "cancelled"
             /\ pc[w] \in {"check", "lock", "dedup", "gate"}

Cancel(o) ==
    LET a == job[o]
    IN  /\ At(o, "cancel")
        /\ gate' = [gate EXCEPT ![a] = "cancelled"]
        /\ reason' = IF a \in Caps THEN [reason EXCEPT ![a] = "cancelled"] ELSE reason
        /\ veto' = [veto EXCEPT ![a] =
                       IF \E w \in Workers : Committed(w, a) THEN "late" ELSE "inTime"]
        /\ Return(o)
        /\ UNCHANGED <<feedVars, timeVars, airVars, listVars, gating, heard, crashes>>

ToggleGating ==
    /\ gating' = ~gating
    /\ UNCHANGED <<feedVars, timeVars, airVars, jobVars, listVars, reason, gate,
                   veto, heard, crashes>>

-----------------------------------------------------------------------------
(* Time, and crashes.                                                      *)

HoldElapses(a) ==
    /\ gate[a] = "pending" /\ a \notin due
    /\ due' = due \cup {a}
    /\ UNCHANGED <<feedVars, expired, aged, bygone, airVars, jobVars, listVars, reason, gate, gating,
                   veto, heard, crashes>>

Expire(a) ==
    /\ a \notin Undated \cup expired
    /\ expired' = expired \cup {a}
    /\ UNCHANGED <<feedVars, due, aged, bygone, airVars, jobVars, listVars, reason, gate,
                   gating, veto, heard, crashes>>

\* An hour after the row was stored, and a day after it expired, when the poll
\* thread does not get round to the catch-up, the only code that looks at them.
HourPasses(a) ==
    /\ PollFree /\ a \in Retriable
    /\ aged' = aged \cup {a}
    /\ UNCHANGED <<feedVars, expired, due, bygone, airVars, jobVars, listVars, reason, gate,
                   gating, veto, heard, crashes>>
DayPasses(a) ==
    /\ PollFree /\ a \in Missed
    /\ bygone' = bygone \cup {a}
    /\ UNCHANGED <<feedVars, expired, due, aged, airVars, jobVars, listVars, reason, gate,
                   gating, veto, heard, crashes>>

\* The record leaves the 15 minute window.
WindowLapses(a) ==
    /\ a \in fresh
    /\ fresh' = fresh \ {a}
    /\ lapsed' = lapsed \cup {a}
    /\ UNCHANGED <<feedVars, timeVars, recorded, airings, jobVars, listVars, reason, gate,
                   gating, veto, heard, crashes>>

\* A process dies and systemd starts it again: its threads forget their jobs
\* and lists, PostgreSQL ends their transactions.
Crash(p) ==
    /\ crashes < MaxCrashes
    /\ crashes' = crashes + 1
    /\ \E w \in Threads(p) : ~Idle(w) \/ (w \in Batchers /\ todo[w] # {})
    /\ pc' = [w \in Workers |-> IF w \in Threads(p) THEN "idle" ELSE pc[w]]
    /\ job' = [w \in Workers |-> IF w \in Threads(p) THEN NoAlert ELSE job[w]]
    /\ seen' = [w \in Workers |-> IF w \in Threads(p) THEN "none" ELSE seen[w]]
    /\ verdict' = [w \in Workers |-> IF w \in Threads(p) THEN "none" ELSE verdict[w]]
    /\ holds' = holds \ Threads(p)
    /\ todo' = [w \in Batchers |-> IF w \in Threads(p) THEN {} ELSE todo[w]]
    /\ cached' = (cached /\ p # "monitor")
    /\ UNCHANGED <<feedVars, timeVars, airVars, reason, gate, gating, veto, heard>>

-----------------------------------------------------------------------------
Pipeline(w) ==
    \/ Check(w) \/ Gate(w) \/ Lock(w) \/ Dedup(w)
    \/ Record(w) \/ Refuse(w) \/ Play(w) \/ Stamp(w)
Ingest == \E a \in Caps : Insert(a) \/ Repoll(a) \/ CancelByReference(a)
CatchUp == StampMissed \/ RetryQuery \/ \E a \in Caps : Retry(a)
Sweep(s) == SweepQuery(s) \/ Release(s) \/ \E a \in Alerts : SweepTake(s, a)
Operate(o) == Approve(o) \/ Cancel(o)
Time == \/ \E a \in Alerts : HoldElapses(a) \/ WindowLapses(a)
        \/ \E a \in Caps : Expire(a) \/ HourPasses(a) \/ DayPasses(a)

Next ==
    \/ Ingest \/ Link \/ CatchUp \/ Time \/ ToggleGating
    \/ \E m \in Monitors, a \in Relays : Decode(m, a)
    \/ \E w \in Workers : Pipeline(w) \/ Load(w)
    \/ \E s \in Sweepers : Sweep(s)
    \/ \E o \in Operators : Operate(o)
    \/ \E o \in Operators, l \in {"approve", "cancel"}, a \in Alerts : Open(o, l, a)
    \/ \E p \in Processes : Crash(p)

Spec == Init /\ [][Next]_vars

\* Threads keep running (systemd restarts them), each poll cycle ends with the
\* catch-up, hold-off deadlines and expiries pass.  Nothing else has to happen.
Fairness ==
    /\ WF_vars(Link) /\ WF_vars(CatchUp)
    /\ \A w \in Workers : WF_vars(Pipeline(w)) /\ WF_vars(Load(w))
    /\ \A s \in Sweepers : WF_vars(Sweep(s))
    /\ \A o \in Operators : WF_vars(Operate(o))
    /\ \A a \in Alerts : WF_vars(HoldElapses(a))
    /\ \A c \in Caps : WF_vars(Expire(c))
FairSpec == Spec /\ Fairness
-----------------------------------------------------------------------------
(* What the pipeline guarantees.                                           *)

\* Once an operator's cancel is committed while no thread is yet bound to air
\* the alert (cancel_pending_alert before any sweep has listed the row), no
\* later sweep, retry, decode or approval puts it on the air.
CancelInTimeIsFinal ==
    [][\A a \in Alerts : veto[a] = "inTime" => airings'[a] = airings[a]]_vars

\* Nothing that the gate applies to goes on the air while its row is pending,
\* nor through a timer release before hold_until (_resolve_gate).
HoldOffHonoured ==
    [][\A a \in Alerts \ Bypass : airings'[a] # airings[a] =>
          gate[a] # "pending" /\ (gate[a] = "released" => a \in due)]_vars

\* is_duplicate_broadcast said no, and until the EASMessage commit it stays
\* right about alerts of the same lock key: no thread slips a record in.
LockedCheckStaysTrue ==
    \A w \in holds : pc[w] \in {"gate", "record"} =>
        ~\E m \in Alerts \ Upgrade : /\ LockKey(m) = LockKey(job[w])
                                    /\ SameAlert(job[w], m)

\* Two copies of one issuance that agree on its counties, both deduplicated,
\* are put on the air once between them, whatever the order of poller, relay
\* callbacks, sweeps, retries, approvals and crashes: two relays always, a CAP
\* alert as long as its area lies within the coverage and no record lapsed.
SameIssuance(a, b) ==
    /\ LockKey(a) = LockKey(b) /\ Issue[a] = Issue[b]
    /\ {a, b} \cap Upgrade = {} /\ Fips[a] \cap Coverage # {}
    /\ {a, b} \subseteq Relays \/ (Fips[a] \subseteq Coverage /\ {a, b} \cap lapsed = {})
AiredOnce ==
    \A a, b \in Alerts : SameIssuance(a, b) =>
        IF a = b THEN airings[a] <= 1 ELSE airings[a] + airings[b] <= 1

\* A CAP alert stamped as a duplicate has an original of its event that was, or
\* is about to be, on the air (auto_forward_cap_alert's duplicate exit).
Heard(m) == airings[m] > 0 \/ \E w \in Workers : job[w] = m /\ pc[w] = "cue"
DuplicateHasOriginal ==
    \A c \in Caps : reason[c] = "dup" => \E m \in Alerts : Event[m] = Event[c] /\ Heard(m)

\* Every alert that has an expiry and is stored before it gets a forwarding
\* decision, even when the process dies between the insert and the decision and
\* the hour for another try goes by, unless no catch-up runs in the 24 hours
\* after its expiry (retry_unevaluated_forwards).
EveryAlertDecided ==
    \A c \in Caps \ Undated :
        (c \in Stored \ stale) ~> (reason[c] # "none" \/ c \in bygone)

\* No row is held forever: the sweeper or an operator resolves it.
HoldEnds == \A a \in Alerts : (gate[a] = "pending") ~> (gate[a] # "pending")

\* Every path of the pipeline frees the advisory lock again.
LockFreed == \A w \in Workers : (w \in holds) ~> (w \notin holds)

-----------------------------------------------------------------------------
(* What documents and comments of the repository say, and the code does not. *)

\* "Cancel: permanently blocks the alert; it will never air, even after the
\* timer expires" (docs/guides/GATED_ALERTS.md).
CancelIsFinal ==
    [][\A a \in Alerts : veto[a] # "none" => airings'[a] = airings[a]]_vars

\* "If nobody acts, the alert auto-releases and broadcasts normally once the
\* timer expires" (docs/guides/GATED_ALERTS.md): a released row gets a decision.
ReleaseIsDecided ==
    \A c \in Caps : (gate[c] = "released") ~> (reason[c] \notin {"none", "pending"})

\* "Prevents the same alert from being broadcast multiple times when received
\* via IPAWS + NOAA + OTA" (auto_forward.py): no matter how wide its area.
NoRepeatAcrossSources ==
    \A a, b \in Alerts : (a # b /\ LockKey(a) = LockKey(b) /\ Issue[a] = Issue[b]) =>
        airings[a] + airings[b] <= 1

\* "Re-run the auto-forward decision for alerts that never received one"
\* (retry_unevaluated_forwards): whether they carry an expiry or not.
NoneForgotten ==
    \A c \in Caps : (c \in Stored \ stale) ~> (reason[c] # "none" \/ c \in bygone)

\* A referenced cancellation marks the alert Cancelled, and so it stays
\* (_process_cap_references_cancellation).
CancelledStaysCancelled == \A c \in cancelledAt : status[c] = "Cancelled"
=============================================================================
