----------------------------- MODULE RwtScheduler -----------------------------
(***************************************************************************)
(* The Required Weekly Test.  Every web worker runs a scheduler that polls *)
(* each minute: once the week's slot is reached, in an hour of the         *)
(* configured windows, and with no test recorded for the week, it takes a  *)
(* lock in Redis that is keyed by the week and sends the test.  An         *)
(* operator's button, or a GPIO input, sends one without that lock.        *)
(*                                                                         *)
(* Time is counted in minutes of a short week; a worker that is up polls   *)
(* once within each of them, at a second of its own.  The schedule stays   *)
(* enabled, skips no week and is not edited.                               *)
(***************************************************************************)
EXTENDS Naturals, FiniteSets

CONSTANTS
    Schedulers,  \* one per web worker
    Buttons,     \* requests for a test by hand
    Weeks,       \* bound: weeks that pass
    Minutes,     \* minutes of a week
    Windows,     \* each eligible day's, as <<first minute, last minute>>
    MaxFaults,   \* bound: failures of a try, crashes, outages of Redis
    None

Procs == Schedulers \cup Buttons

ASSUME SizesAssumption ==
    /\ Weeks \in Nat \ {0} /\ Minutes \in Nat \ {0} /\ MaxFaults \in Nat
    /\ Windows # {} /\ Windows \subseteq {w \in (0..Minutes - 1) \X (0..Minutes - 1) : w[1] <= w[2]}
    /\ Schedulers \cap Buttons = {}

VARIABLES
    now,      \* the minute, over all weeks
    slot,     \* for every week, the minute drawn for its test: weekly_fire_slot
    last,     \* last_run_at and last_run_status: a week, and whether it succeeded
    keys,     \* weeks whose lock is in Redis; each outlives its week
    redis,    \* Redis answers
    up,       \* processes that run
    at,       \* where each process is
    plan,     \* the week it sends a test for
    polled,   \* schedulers that have polled in this minute
    playing,  \* those whose test holds the broadcast marker
    faults,
    auto,     \* history: automatic tests sent for a week
    sent,     \* history: weeks with a test, sent for it or recorded in it
    tried,    \* history: weeks a try of which failed or died
    blind,    \* history: weeks a test was sent for without asking Redis
    chance,   \* history: weeks in which a worker polled with the test due
    missed    \* history: weeks with a minute in which no worker polled

timeVars == <<now, slot, polled, chance, missed>>
procVars == <<up, at, plan>>
histVars == <<auto, sent, tried, blind>>
vars == <<timeVars, last, keys, redis, procVars, playing, faults, histVars>>

AllWeeks == 0..Weeks - 1
Week == now \div Minutes
Minute == now % Minutes

SlotsOneMore == UNION {w[1]..w[2] + 1 : w \in Windows}     \* mutant
\* rng.randint draws either end of the window, too.
Slots == UNION {w[1]..w[2] : w \in Windows}

TypeOK ==
    /\ now \in 0..Weeks * Minutes - 1
    /\ slot \in [AllWeeks -> 0..Minutes - 1]
    /\ last \in [week : AllWeeks \cup {None}, ok : BOOLEAN]
    /\ keys \subseteq AllWeeks /\ redis \in BOOLEAN
    /\ up \subseteq Procs /\ polled \subseteq Schedulers /\ playing \subseteq Procs
    /\ at \in [Procs -> {"sleep", "due", "won"}]
    /\ plan \in [Procs -> AllWeeks]
    /\ faults \in 0..MaxFaults
    /\ auto \in [AllWeeks -> Nat]
    /\ \A h \in {sent, tried, blind, chance, missed} : h \subseteq AllWeeks

Init ==
    /\ now = 0 /\ polled = {} /\ chance = {} /\ missed = {}
    /\ slot \in [AllWeeks -> Slots]
    /\ last = [week |-> None, ok |-> FALSE]
    /\ keys = {} /\ redis = TRUE
    /\ up = Procs /\ at = [p \in Procs |-> "sleep"] /\ plan = [p \in Procs |-> 0]
    /\ playing = {} /\ faults = 0
    /\ auto = [k \in AllWeeks |-> 0]
    /\ sent = {} /\ tried = {} /\ blind = {}

-----------------------------------------------------------------------------
Ran == last.ok /\ last.week = Week

\* The slot is reached and the poll is in a window.  A poll some seconds into the
\* minute the window ends with is past its end.
InWindow == slot[Week] <= Minute /\ \E w \in Windows : w[1] <= Minute /\ Minute < w[2]

DueAtSlot == ~Ran /\ InWindow /\ slot[Week] = Minute      \* mutant
\* _check_and_send_rwt up to the lock.
Due == ~Ran /\ InWindow

Go(p, place) == at' = [at EXCEPT ![p] = place]

Poll(p) ==
    /\ p \in up \cap Schedulers /\ at[p] = "sleep" /\ p \notin polled
    /\ polled' = polled \cup {p}
    /\ IF Due THEN Go(p, "due") /\ plan' = [plan EXCEPT ![p] = Week]
              ELSE UNCHANGED <<at, plan>>
    /\ UNCHANGED <<now, slot, chance, missed, last, keys, redis, up, playing, faults, histVars>>

\* SET NX of the week's key: one scheduler wins; without Redis each one does.
AcquireEachTime(p) ==                                      \* mutant
    /\ p \in up /\ at[p] = "due"
    /\ IF redis /\ plan[p] \in keys THEN Go(p, "sleep") ELSE Go(p, "won")
    /\ blind' = IF redis THEN blind ELSE blind \cup {plan[p]}
    /\ UNCHANGED <<timeVars, last, keys, redis, up, plan, playing, faults, auto, sent, tried>>
Acquire(p) ==
    /\ p \in up /\ at[p] = "due"
    /\ IF redis /\ plan[p] \in keys THEN Go(p, "sleep") ELSE Go(p, "won")
    /\ keys' = IF redis THEN keys \cup {plan[p]} ELSE keys
    /\ blind' = IF redis THEN blind ELSE blind \cup {plan[p]}
    /\ UNCHANGED <<timeVars, last, redis, up, plan, playing, faults, auto, sent, tried>>

\* The button: refused while a broadcast holds the marker, and that is all.
Press(p) ==
    /\ p \in up \cap Buttons /\ at[p] = "sleep" /\ playing = {}
    /\ Go(p, "won") /\ plan' = [plan EXCEPT ![p] = Week]
    /\ UNCHANGED <<timeVars, last, keys, redis, up, playing, faults, histVars>>

\* trigger_rwt_broadcast: the audio is built, the run is recorded, then marker and
\* playout, in a thread of their own.
Send(p) ==
    /\ p \in up /\ at[p] = "won"
    /\ last' = [week |-> Week, ok |-> TRUE]
    /\ sent' = sent \cup {Week, plan[p]}
    /\ auto' = IF p \in Schedulers THEN [auto EXCEPT ![plan[p]] = @ + 1] ELSE auto
    /\ playing' = playing \cup {p}
    /\ Go(p, "sleep")
    /\ UNCHANGED <<timeVars, keys, redis, up, plan, faults, tried, blind>>

\* It raises instead: the failure is recorded, unless that fails too.
Fail(p) ==
    /\ p \in up /\ at[p] = "won" /\ faults < MaxFaults
    /\ faults' = faults + 1
    /\ last' \in {last, [week |-> Week, ok |-> FALSE]}
    /\ tried' = tried \cup {plan[p]}
    /\ Go(p, "sleep")
    /\ UNCHANGED <<timeVars, keys, redis, up, plan, playing, auto, sent, blind>>

\* The test is over, or its marker has expired.
Finish(p) ==
    /\ p \in playing
    /\ playing' = playing \ {p}
    /\ UNCHANGED <<timeVars, last, keys, redis, procVars, faults, histVars>>

-----------------------------------------------------------------------------
\* The process ends, and with it a try it was at; the lock stays.
Crash(p) ==
    /\ p \in up \cap Schedulers /\ faults < MaxFaults
    /\ faults' = faults + 1
    /\ up' = up \ {p} /\ Go(p, "sleep") /\ polled' = polled \ {p}
    /\ tried' = IF at[p] = "won" THEN tried \cup {plan[p]} ELSE tried
    /\ UNCHANGED <<now, slot, chance, missed, last, keys, redis, plan, playing, auto, sent, blind>>

Restart(p) ==
    /\ p \in Schedulers \ up
    /\ up' = up \cup {p}
    /\ UNCHANGED <<timeVars, last, keys, redis, at, plan, playing, faults, histVars>>

Redis ==
    /\ redis' = ~redis
    /\ redis => faults < MaxFaults
    /\ faults' = IF redis THEN faults + 1 ELSE faults
    /\ UNCHANGED <<timeVars, last, keys, procVars, playing, histVars>>

\* A minute passes, with a poll by every scheduler that is up; a try may take longer.
Tick ==
    /\ now < Weeks * Minutes - 1
    /\ \A p \in up \cap Schedulers : at[p] = "won" \/ (at[p] = "sleep" /\ p \in polled)
    /\ now' = now + 1 /\ polled' = {}
    /\ chance' = IF polled # {} /\ InWindow THEN chance \cup {Week} ELSE chance
    /\ missed' = IF polled = {} THEN missed \cup {Week} ELSE missed
    /\ UNCHANGED <<slot, last, keys, redis, procVars, playing, faults, histVars>>

-----------------------------------------------------------------------------
Next ==
    \/ \E p \in Procs : \/ Poll(p) \/ Acquire(p) \/ Press(p) \/ Send(p) \/ Fail(p)
                        \/ Finish(p) \/ Crash(p) \/ Restart(p)
    \/ Redis \/ Tick

Spec == Init /\ [][Next]_vars

-----------------------------------------------------------------------------
\* Whatever the workers' order, restarts and failed tries, and however long a try
\* takes, the schedulers send one test a week, unless one of them could not ask Redis.
OncePerWeek == \A k \in AllWeeks \ blind : auto[k] <= 1

\* Sent for the week, or a try for it failed or died, or one is still under way.
Tried(k) == k \in sent \cup tried \/ \E p \in Procs : at[p] = "won" /\ plan[p] = k

\* A week in which a worker polled in a window, at the slot or after it, does not end
\* without a try: a slot that all of them slept through is caught up.
SentIfDue == \A k \in chance : k < Week => Tried(k)

-----------------------------------------------------------------------------
\* "the scheduler catches up rather than losing the week" (compute_next_fire): a week
\* through all of which some worker was up does not end without a try.
NoWeekLost == \A k \in AllWeeks \ missed : k < Week => Tried(k)
=============================================================================
