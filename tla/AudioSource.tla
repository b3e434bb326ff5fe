------------------------------ MODULE AudioSource ------------------------------
(***************************************************************************)
(* One configured audio source, a network stream, in the audio service:    *)
(* its adapters (a source that is added again gets a new one), their       *)
(* capture loops, and the threads that start and stop them.  The command   *)
(* thread serves the web pages; the health monitor and the source watchdog *)
(* look at the status and hand a stop and start to a recovery thread, of   *)
(* which there is one at a time.  No lock orders these threads.            *)
(*                                                                         *)
(* Time is abstract, and the counters of failures and stalls with it: any  *)
(* of them may be the one that brings the quarantine.  Assignments of one  *)
(* thread that follow each other at once are one step.  The source stays   *)
(* enabled, the service stays up and no command is lost.                   *)
(***************************************************************************)
EXTENDS Naturals, Sequences, FiniteSets

CONSTANTS
    Adapters,     \* 1..n, in the order they are made
    Loops,        \* bound: an adapter's capture threads; one more takes the place of another
    MaxCommands,  \* bound: requests of the web pages
    MaxFaults,    \* bound: times the stream breaks, and joins that run out of time
    None

ASSUME ConstantsAssumption ==
    /\ Adapters = 1..MaxCommands + 1     \* every request may make one
    /\ Loops # {} /\ None \notin Loops \cup Adapters
    /\ MaxCommands \in Nat /\ MaxFaults \in Nat

Procs == {"command", "recovery"}

VARIABLES
    row,      \* its row in the database: none, or with auto_start or without
    inbox,    \* commands under way to the audio service
    asked,    \* requests so far
    reg,      \* the adapter in the controller's registry
    made,     \* adapters made
    status,   \* of each adapter
    quit,     \* _stop_event is set
    cap,      \* its decoder process runs
    thread,   \* _capture_thread, while it runs
    alive,    \* its capture threads that run
    inside,   \* those in the body of their loop
    works,    \* the stream has audio
    quar,     \* the adapter is in quarantine
    at,       \* the adapter each thread handles, the steps it has left, its result
    seen,     \* what the monitor is about to have done
    faults,
    tangled,  \* history: adapters that two threads have handled at once, or a join on which ran
              \* out of time
    revived   \* history: adapters that a recovery took up to restart after their removal

webVars == <<row, inbox, asked>>
regVars == <<reg, made>>
loopVars == <<thread, alive, inside>>
adVars == <<status, quit, cap>>
history == <<tangled, revived>>
vars == <<webVars, regVars, adVars, loopVars, quar, works, at, seen, faults,
          history>>

Idle == [of |-> None, todo |-> <<>>, ok |-> FALSE]
StopSteps == <<"stop", "halt">>
StartSteps == <<"start", "open", "spawn">>
Renew == StopSteps \o StartSteps \o <<"judge">>   \* an attempt of restart()

TypeOK ==
    /\ row \in {"none", "manual", "auto"} /\ asked \in 0..MaxCommands
    /\ \A i \in DOMAIN inbox : inbox[i] \in {"start", "stop", "add", "delete"}
    /\ reg \in Adapters \cup {None} /\ made \in Adapters
    /\ status \in [Adapters -> {"stopped", "starting", "running", "error"}]
    /\ {quit, cap, quar} \subseteq [Adapters -> BOOLEAN]
    /\ thread \in [Adapters -> Loops \cup {None}]
    /\ {alive, inside} \subseteq [Adapters -> SUBSET Loops]
    /\ \A p \in Procs : (at[p].of = None) = (at[p].todo = <<>>)
    /\ faults \in 0..MaxFaults

Init ==
    /\ row \in {"manual", "auto"} /\ inbox = <<>> /\ asked = 0
    /\ reg = 1 /\ made = 1
    /\ status = [a \in Adapters |-> "stopped"]
    /\ quit = [a \in Adapters |-> FALSE] /\ cap = quit /\ quar = quit
    /\ thread = [a \in Adapters |-> None]
    /\ alive = [a \in Adapters |-> {}] /\ inside = alive
    /\ works = TRUE
    /\ at = [p \in Procs |-> Idle]
    /\ seen = None /\ faults = 0 /\ tangled = {} /\ revived = {}

-----------------------------------------------------------------------------
\* The steps of stop(), start() and what wraps them, for the thread p.

Doing(p, step) == at[p].todo # <<>> /\ Head(at[p].todo) = step
Drop(p, n) == SubSeq(at[p].todo, n + 1, Len(at[p].todo))
NowKeeping(p, todo, ok) == at' = [at EXCEPT ![p].todo = todo, ![p].ok = ok]    \* mutant
Now(p, todo, ok) ==
    at' = [at EXCEPT ![p] = IF todo = <<>> THEN Idle ELSE [@ EXCEPT !.todo = todo, !.ok = ok]]
Go(p, todo) == Now(p, todo, at[p].ok)
Step(p) == Go(p, Drop(p, 1))
Other == <<webVars, regVars, works, seen>>

HaltedOrFailed == {"stopped", "error"}                     \* mutant
Halted == {"stopped"}      \* where stop() has nothing to do

\* STOPPED, and the capture thread told so.
Stop(p) == LET a == at[p].of IN
    /\ Doing(p, "stop")
    /\ IF status[a] \in Halted THEN Go(p, Drop(p, 2)) /\ UNCHANGED <<status, quit>>
       ELSE /\ status' = [status EXCEPT ![a] = "stopped"] /\ quit' = [quit EXCEPT ![a] = TRUE]
            /\ Step(p)
    /\ UNCHANGED <<Other, cap, loopVars, quar, faults, history>>

\* A bounded join, of the adapter's current thread only, and the end of the decoder.
Halt(p) == LET a == at[p].of IN
    /\ Doing(p, "halt")
    /\ IF thread[a] = None THEN UNCHANGED <<faults, history>>
       ELSE faults < MaxFaults /\ faults' = faults + 1 /\ tangled' = tangled \cup {a}
    /\ cap' = [cap EXCEPT ![a] = FALSE]
    /\ Step(p)
    /\ UNCHANGED <<Other, status, quit, loopVars, quar, revived>>

StartableFailed == {"stopped", "error"}                    \* mutant
\* What may start: an adapter in ERROR only after its thread and decoder are stopped.
Startable == {"stopped"}

Start(p) == LET a == at[p].of IN
    /\ Doing(p, "start")
    /\ IF status[a] \in Startable
       THEN status' = [status EXCEPT ![a] = "starting"] /\ quit' = [quit EXCEPT ![a] = FALSE] /\ Step(p)
       ELSE IF status[a] = "error"
       THEN /\ quit' = [quit EXCEPT ![a] = TRUE] /\ UNCHANGED status
            /\ Go(p, <<"halt", "calm">> \o at[p].todo)
       ELSE Now(p, Drop(p, 3), FALSE) /\ UNCHANGED <<status, quit>>
    /\ UNCHANGED <<Other, cap, loopVars, quar, faults, history>>

Calm(p) ==
    /\ Doing(p, "calm")
    /\ status' = [status EXCEPT ![at[p].of] = "stopped"]
    /\ Step(p)
    /\ UNCHANGED <<Other, quit, cap, loopVars, quar, faults, history>>

\* _start_capture launches the decoder and says RUNNING, or raises.
Open(p) == LET a == at[p].of IN
    /\ Doing(p, "open")
    /\ \/ /\ cap' = [cap EXCEPT ![a] = TRUE] /\ status' = [status EXCEPT ![a] = "running"]
          /\ Step(p)
       \/ /\ ~works /\ status' = [status EXCEPT ![a] = "error"] /\ UNCHANGED cap
          /\ Now(p, Drop(p, 2), FALSE)
    /\ UNCHANGED <<Other, quit, loopVars, quar, faults, history>>

Spawn(p) == LET a == at[p].of IN
    /\ Doing(p, "spawn")
    /\ \E n \in IF alive[a] = Loops THEN Loops ELSE {CHOOSE n \in Loops : n \notin alive[a]} :
          thread' = [thread EXCEPT ![a] = n] /\ alive' = [alive EXCEPT ![a] = @ \cup {n}]
    /\ Now(p, Drop(p, 1), TRUE)
    /\ UNCHANGED <<Other, adVars, inside, quar, faults, history>>

\* The end of an attempt of restart(): done, tried again, or one failure more, which may
\* be the one that brings the quarantine.
Judge(p) == LET a == at[p].of IN
    /\ Doing(p, "judge")
    /\ Go(p, IF at[p].ok THEN <<>> ELSE Drop(p, 1))
    /\ IF at[p].ok \/ Len(at[p].todo) > 1 THEN UNCHANGED quar
       ELSE quar' \in {quar, [quar EXCEPT ![a] = TRUE]}
    /\ UNCHANGED <<Other, adVars, loopVars, faults, history>>

\* restart() looks at the quarantine once more; it makes two attempts.
Restart(p) ==
    /\ Doing(p, "restart")
    /\ IF quar[at[p].of] THEN Step(p) ELSE Go(p, Renew \o Renew)
    /\ UNCHANGED <<Other, adVars, loopVars, quar, faults, history>>

\* The end of a stall escalation.
Escalate(p) == LET a == at[p].of IN
    /\ Doing(p, "escalate")
    /\ status' = [status EXCEPT ![a] = "error"]
    /\ quar' = [quar EXCEPT ![a] = TRUE]
    /\ Step(p)
    /\ UNCHANGED <<Other, quit, cap, loopVars, faults, history>>

\* source_add: the new adapter takes the name.
Register(p) ==
    /\ Doing(p, "register")
    /\ made' = made + 1 /\ reg' = made + 1
    /\ Step(p)
    /\ UNCHANGED <<webVars, works, seen, adVars, loopVars, quar, faults, history>>

Work(p) ==
    \/ Stop(p) \/ Halt(p) \/ Start(p) \/ Calm(p) \/ Open(p) \/ Spawn(p)
    \/ Restart(p) \/ Judge(p) \/ Escalate(p) \/ Register(p)

-----------------------------------------------------------------------------
\* A thread takes up an adapter; one that another handles is tangled from then on.
Begin(p, a, steps) ==
    /\ at' = [at EXCEPT ![p] = [of |-> a, todo |-> steps, ok |-> FALSE]]
    /\ tangled' = IF \E q \in Procs \ {p} : at[q].of = a THEN tangled \cup {a} ELSE tangled

\* The web pages: buttons, a source that is made or provisioned again, one deleted.
Ask(commands) ==
    /\ asked < MaxCommands /\ asked' = asked + 1
    /\ inbox' = inbox \o commands
    /\ UNCHANGED <<regVars, adVars, loopVars, quar, works, at, seen, faults, history>>
Press == /\ row # "none" /\ UNCHANGED row
         /\ Ask(<<"start">>) \/ Ask(<<"stop">>)
Create == /\ row' \in {"manual", "auto"}
          /\ Ask(IF row' = "auto" THEN <<"add", "start">> ELSE <<"add">>)
Delete == row # "none" /\ row' = "none" /\ Ask(<<"delete">>)

\* _execute_command, one at a time, up to the blocking part.
Command ==
    /\ at["command"] = Idle /\ inbox # <<>>
    /\ inbox' = Tail(inbox)
    /\ LET c == Head(inbox) IN
       /\ IF reg = None /\ c # "add" THEN UNCHANGED <<at, tangled>>
          ELSE IF reg = None
          THEN at' = [at EXCEPT !["command"] = [of |-> made + 1, todo |-> <<"register">>, ok |-> FALSE]]
               /\ UNCHANGED tangled
          ELSE Begin("command", reg, CASE c = "start" -> StartSteps
                                       [] c = "add" -> StopSteps \o <<"register">>
                                       [] OTHER -> StopSteps)
       /\ reg' = IF c \in {"add", "delete"} THEN None ELSE reg
    /\ UNCHANGED <<row, asked, made, adVars, loopVars, quar, works, seen, faults, revived>>

-----------------------------------------------------------------------------
\* The capture threads.
Exit(a, n) ==
    /\ alive' = [alive EXCEPT ![a] = @ \ {n}]
    /\ thread' = [thread EXCEPT ![a] = IF @ = n THEN None ELSE @]

Loop(a, n) ==
    /\ n \in alive[a] \ inside[a]
    /\ IF quit[a] THEN Exit(a, n) /\ UNCHANGED inside
                  ELSE inside' = [inside EXCEPT ![a] = @ \cup {n}] /\ UNCHANGED <<thread, alive>>
    /\ UNCHANGED <<webVars, regVars, adVars, quar, works, at, seen, faults, history>>

\* One that finds no decoder launches another, whatever the status has become since it
\* looked at _stop_event, unless the last launch is too recent, or fails, or access
\* was refused before.
Relaunch(a) ==
    /\ ~cap[a] /\ UNCHANGED <<thread, alive>>
    /\ \/ UNCHANGED <<status, cap>>
       \/ cap' = [cap EXCEPT ![a] = TRUE] /\ status' = [status EXCEPT ![a] = "running"]
       \/ status' = [status EXCEPT ![a] = "error"] /\ UNCHANGED cap

\* One reads, or relaunches, or has had too many errors in a row.
Body(a, n) ==
    /\ n \in inside[a]
    /\ inside' = [inside EXCEPT ![a] = @ \ {n}]
    /\ \/ cap[a] /\ UNCHANGED <<status, cap, thread, alive>>
       \/ Relaunch(a)
       \/ ~works /\ status' = [status EXCEPT ![a] = "error"] /\ Exit(a, n) /\ UNCHANGED cap
    /\ UNCHANGED <<webVars, regVars, quit, quar, works, at, seen, faults, history>>

\* The decoder ends by itself.
DecoderExits(a) ==
    /\ cap[a] /\ cap' = [cap EXCEPT ![a] = FALSE]
    /\ UNCHANGED <<webVars, regVars, status, quit, loopVars, quar, works, at, seen, faults, history>>

\* The decoder reports an HTTP error.
Refused(a) ==
    /\ cap[a] /\ ~works /\ status[a] # "error"
    /\ status' = [status EXCEPT ![a] = "error"]
    /\ UNCHANGED <<webVars, regVars, quit, cap, loopVars, quar, works, at, seen, faults,
                   history>>

Stream ==
    /\ works' = ~works
    /\ works => faults < MaxFaults
    /\ faults' = IF works THEN faults + 1 ELSE faults
    /\ UNCHANGED <<webVars, regVars, adVars, loopVars, quar, at, seen, history>>

Thaw(a) ==
    /\ quar[a]
    /\ quar' = [quar EXCEPT ![a] = FALSE]
    /\ UNCHANGED <<webVars, regVars, adVars, loopVars, works, at, seen, faults, history>>

-----------------------------------------------------------------------------
\* Audio comes in, or will within the monitor's grace period.
Delivers(a) == works /\ cap[a] /\ alive[a] # {} /\ ~quit[a]
Free == at["recovery"] = Idle

\* A stall is restarted; one of several in a row is stopped and put in quarantine.
Stalled(a) ==
    /\ status[a] = "running" /\ ~Delivers(a)
    /\ \E steps \in {<<"restart">>, StopSteps \o <<"escalate">>} : seen' = [of |-> a, todo |-> steps]
Failed(a) ==
    /\ status[a] = "error"
    /\ seen' = [of |-> a, todo |-> <<"restart">>]

\* _evaluate_source_health, up to spawn_recovery; an alert goes out in between.
Evaluate ==
    /\ seen = None /\ reg # None /\ ~quar[reg] /\ Free
    /\ Stalled(reg) \/ Failed(reg)
    /\ UNCHANGED <<webVars, regVars, adVars, loopVars, quar, works, at, faults, history>>

SpawnRecovery ==
    /\ seen # None /\ seen' = None
    /\ IF Free
       THEN /\ Begin("recovery", seen.of, seen.todo)
            /\ revived' = IF seen.of # reg /\ seen.todo = <<"restart">> THEN revived \cup {seen.of}
                          ELSE revived
       ELSE UNCHANGED <<at, history>>
    /\ UNCHANGED <<webVars, regVars, adVars, loopVars, quar, works, faults>>

\* _source_watchdog_loop, for a source in ERROR, or one that stands still and starts by itself.
Remedy(a) ==
    IF status[a] = "error" /\ ~quar[a] THEN StopSteps \o StartSteps
    ELSE IF status[a] = "stopped" /\ row = "auto" THEN StartSteps ELSE <<>>

Rescue ==
    /\ reg # None /\ Free /\ Remedy(reg) # <<>>
    /\ Begin("recovery", reg, Remedy(reg))
    /\ UNCHANGED <<webVars, regVars, adVars, loopVars, quar, works, seen, faults, revived>>

-----------------------------------------------------------------------------
Web == Press \/ Create \/ Delete
Capture == \E a \in Adapters : Refused(a) \/ DecoderExits(a) \/ \E n \in Loops : Loop(a, n) \/ Body(a, n)
Watchers == Evaluate \/ SpawnRecovery \/ Rescue

Next ==
    \/ Web \/ Command \/ Capture \/ Watchers \/ Stream
    \/ \E p \in Procs : Work(p)
    \/ \E a \in Adapters : Thaw(a)

Spec == Init /\ [][Next]_vars

-----------------------------------------------------------------------------
Strict(a) == a \notin tangled

\* Two capture loops on one decoder tear the audio apart: an adapter has one at most,
\* removed and restarted or not, unless two threads handled it at once or a join on it
\* ran out of time.
OneLoop == \A a \in Adapters : Strict(a) => Cardinality(alive[a]) <= 1

\* Once an adapter is out of the registry and every stop of it is over, it captures no
\* more, even if its capture thread launched a decoder and wrote RUNNING over the STOPPED
\* of stop() meanwhile: unless two threads handled it at once, a join on it ran out of
\* time, or the health monitor had decided on a restart before the removal and began
\* it after.  An escalation that began after it leaves it quiet.
RemovedIsQuiet ==
    \A a \in Adapters :
        Strict(a) /\ a \notin revived /\ a # reg /\ (\A p \in Procs : at[p].of # a)
            => alive[a] = {} /\ ~cap[a]

-----------------------------------------------------------------------------
\* "Tear down source_name from the EAS monitor, Icecast, and the audio controller -- the
\* full removal" (_remove_source_everywhere): no thread and no recovery starts it again.
RemovedStaysOff ==
    \A a \in Adapters : a \in 1..made /\ a # reg /\ (\A p \in Procs : at[p].of # a)
                        => alive[a] = {} /\ ~cap[a]

\* "Color-coded border by status (green=running, gray=stopped, red=error)"
\* (docs/audio/AUDIO_MONITORING.md): an adapter that no thread is at work on says "running"
\* only while it has a capture loop, so that a stopped source is not shown as running.
RunningHasLoop ==
    \A a \in Adapters : status[a] = "running" /\ (\A p \in Procs : at[p].of # a) => alive[a] # {}

=============================================================================
