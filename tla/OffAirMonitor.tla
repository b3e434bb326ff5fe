---------------------------- MODULE OffAirMonitor -----------------------------
(***************************************************************************)
(* How an alert is heard off the air.  One thread polls every running      *)
(* source, keeps its recent audio in a ring, parks a decoded header until  *)
(* the end-of-message (EOM) is heard or has been awaited for too long, and *)
(* then calls the FIPS filter, which forwards the alert or not, with the   *)
(* audio recorded since the header.                                        *)
(*                                                                         *)
(* The stations send what Programme says whether or not their source runs, *)
(* and each burst may be received well, faintly or not at all.  A chunk is *)
(* one burst, the narration, or the EOM.  Of time the model keeps whether  *)
(* a parked alert has waited for _eom_timeout_seconds.                     *)
(***************************************************************************)
EXTENDS Naturals, Sequences

CONSTANTS
    Sources,
    Programme,   \* the alerts each source's station sends, in order
    Event,       \* event code of an alert
    Local,       \* alerts for the configured FIPS codes
    Bursts,      \* header bursts of an alert
    PreRoll,     \* chunks of audio kept of a source with no alert parked
    CaptureMax,  \* and of one with an alert parked
    Steady,      \* sources that never stop and are received well
    MaxOutages,  \* bound: how often the others stop
    MaxBad,      \* bound: chunks received badly
    NoAlert

Alerts == UNION {{Programme[s][i] : i \in DOMAIN Programme[s]} : s \in Sources}

ASSUME SizesAssumption ==
    /\ Bursts \in Nat \ {0} /\ PreRoll \in Nat \ {0}
    /\ MaxOutages \in Nat /\ MaxBad \in Nat
    /\ CaptureMax \in Nat /\ CaptureMax > PreRoll
ASSUME ProgrammeAssumption ==     \* an alert is one transmission of one station
    /\ NoAlert \notin Alerts /\ Local \subseteq Alerts
    /\ \A s \in Sources : Programme[s] \in Seq(Alerts)
    /\ \A s, t \in Sources : \A i \in DOMAIN Programme[s], j \in DOMAIN Programme[t] :
          Programme[s][i] = Programme[t][j] => s = t /\ i = j

VARIABLES
    aired,    \* chunks each station has sent
    running,  \* sources whose status is RUNNING
    outages,  \* times a source has stopped
    bad,      \* chunks received badly
    queue,    \* the watcher's subscription: chunks not yet read
    watched,  \* _watchers
    at,       \* where the monitor loop is
    todo,     \* sources left to poll, or timed out, in this cycle
    calling,  \* the alert handed to alert_callback, which has not returned
    ring,     \* _audio_rings
    added,    \* _ring_total_added
    capturing,\* _capturing_sources
    pending,  \* _pending_alerts
    sound,    \* a parked alert's confidence reaches the threshold
    overdue,  \* it has been parked for _eom_timeout_seconds
    anchor,   \* _zczc_ring_total
    out       \* history: alerts dispatched, with what became of them

airVars  == <<aired, running, outages, bad>>
loopVars == <<watched, at, todo>>
ringVars == <<ring, added>>
heldVars == <<capturing, pending, sound, overdue, anchor>>
vars == <<airVars, queue, loopVars, calling, ringVars, heldVars, out>>

Kinds   == {"header", "faint", "voice", "eom", "noise"}
Chunk   == [of : Alerts, kind : Kinds]
Reasons == {"eom", "timeout"}
Verdicts == {"deciding", "forwarded", "ignored", "error"}

TypeOK ==
    /\ aired \in [Sources -> Nat] /\ added \in [Sources -> Nat] /\ anchor \in [Sources -> Nat]
    /\ running \subseteq Sources /\ watched \subseteq Sources /\ todo \subseteq Sources
    /\ outages \in 0..MaxOutages /\ bad \in 0..MaxBad
    /\ queue \in [Sources -> Seq(Chunk)] /\ ring \in [Sources -> Seq(Chunk)]
    /\ at \in {"poll", "timeout"}
    /\ calling \in BOOLEAN
    /\ capturing \subseteq Sources /\ sound \subseteq Sources /\ overdue \subseteq Sources
    /\ pending \in [Sources -> Alerts \cup {NoAlert}]
    /\ out \in Seq([of : Alerts, why : Reasons, start : Chunk, whole : BOOLEAN,
                    strong : BOOLEAN, sound : BOOLEAN, verdict : Verdicts])

Init ==
    /\ aired = [s \in Sources |-> 0] /\ running = Sources /\ outages = 0 /\ bad = 0
    /\ queue = [s \in Sources |-> <<>>]
    /\ watched = Sources /\ at = "timeout" /\ todo = {} /\ calling = FALSE
    /\ ring = [s \in Sources |-> <<>>] /\ added = [s \in Sources |-> 0]
    /\ capturing = {} /\ sound = {} /\ overdue = {}
    /\ pending = [s \in Sources |-> NoAlert]
    /\ anchor = [s \in Sources |-> 0]
    /\ out = <<>>

-----------------------------------------------------------------------------
(* The stations and the sources.                                           *)

Span == Bursts + 2

\* The n-th chunk a station sends: bursts, narration and EOM of one alert, then the next.
Sent(s, n) ==
    LET k == (n - 1) % Span
    IN [of   |-> Programme[s][(n - 1) \div Span + 1],
        kind |-> IF k < Bursts THEN "header" ELSE IF k = Bursts THEN "voice" ELSE "eom"]

Received(s, kind) ==
    {kind} \cup IF s \in Steady \/ kind = "voice" THEN {}
               ELSE IF kind = "header" THEN {"faint", "noise"} ELSE {"noise"}

\* A chunk lasts a second or more and a cycle of the loop far less: chunks pile up
\* only while the callback, which may broadcast, has the thread, or with no watcher.
KeptUp(s) == ~calling /\ s \in watched => queue[s] = <<>>

\* A chunk goes out; a source that runs queues what it receives of it.
Air(s) ==
    /\ aired[s] < Span * Len(Programme[s]) /\ KeptUp(s)
    /\ aired' = [aired EXCEPT ![s] = @ + 1]
    /\ LET c == Sent(s, aired'[s]) IN
       \/ s \notin running /\ UNCHANGED <<queue, bad>>
       \/ /\ s \in running
          /\ \E k \in Received(s, c.kind) :
                /\ queue' = [queue EXCEPT ![s] = Append(@, [c EXCEPT !.kind = k])]
                /\ bad' = IF k = c.kind THEN bad ELSE bad + 1
                /\ bad' <= MaxBad
    /\ UNCHANGED <<running, outages, loopVars, calling, ringVars, heldVars, out>>

Outage(s) ==
    /\ s \in running \ Steady /\ outages < MaxOutages
    /\ running' = running \ {s} /\ outages' = outages + 1
    /\ UNCHANGED <<aired, bad, queue, loopVars, calling, ringVars, heldVars, out>>

Recover(s) ==
    /\ s \in Sources \ running
    /\ running' = running \cup {s}
    /\ UNCHANGED <<aired, outages, bad, queue, loopVars, calling, ringVars, heldVars, out>>

\* All of the parked alert's own transmission has been sent.
Over(s) == \E i \in DOMAIN Programme[s] : Programme[s][i] = pending[s] /\ Span * i <= aired[s]

\* Five minutes are longer than a transmission.
Wait(s) ==
    /\ pending[s] # NoAlert /\ s \notin overdue
    /\ Over(s) /\ KeptUp(s)
    /\ overdue' = overdue \cup {s}
    /\ UNCHANGED <<airVars, queue, loopVars, calling, ringVars,
                   capturing, pending, sound, anchor, out>>

-----------------------------------------------------------------------------
(* What the thread does with a chunk.                                      *)

Suffix(q, n) == SubSeq(q, IF n < Len(q) THEN Len(q) - n + 1 ELSE 1, Len(q))

KeptPreRoll(s, c) == Suffix(Append(ring[s], c), PreRoll)   \* mutant
\* The ring, trimmed to its limit.
Kept(s, c) == Suffix(Append(ring[s], c), IF s \in capturing THEN CaptureMax ELSE PreRoll)

PositionUnclamped(s) == added'[s] - 2                     \* mutant
\* _zczc_ring_position: far enough back for the burst just decoded to be included.
Position(s) == IF added'[s] = 0 THEN 0 ELSE added'[s] - 1

SameEvent(s, a) == pending[s] # NoAlert /\ Event[pending[s]] = Event[a]

\* _handle_alert, a header: further bursts of the same event keep the recording's
\* start and the best confidence, any other alert takes the parked one's place.
ParkKeepingConfidence(s, c) ==                             \* mutant
    /\ pending' = [pending EXCEPT ![s] = c.of]
    /\ overdue' = overdue \ {s}
    /\ capturing' = capturing \cup {s}
    /\ anchor' = IF SameEvent(s, c.of) THEN anchor ELSE [anchor EXCEPT ![s] = Position(s)]
    /\ sound' = IF c.kind = "header" THEN sound \cup {s} ELSE sound
    /\ UNCHANGED <<calling, out>>
ParkKeepingAnchor(s, c) ==                                 \* mutant
    /\ pending' = [pending EXCEPT ![s] = c.of]
    /\ overdue' = overdue \ {s}
    /\ capturing' = capturing \cup {s}
    /\ anchor' = IF pending[s] # NoAlert THEN anchor ELSE [anchor EXCEPT ![s] = Position(s)]
    /\ sound' = IF c.kind = "header" THEN sound \cup {s}
                ELSE IF SameEvent(s, c.of) THEN sound ELSE sound \ {s}
    /\ UNCHANGED <<calling, out>>
Park(s, c) ==
    /\ pending' = [pending EXCEPT ![s] = c.of]
    /\ overdue' = overdue \ {s}
    /\ capturing' = capturing \cup {s}
    /\ anchor' = IF SameEvent(s, c.of) THEN anchor ELSE [anchor EXCEPT ![s] = Position(s)]
    /\ sound' = IF c.kind = "header" THEN sound \cup {s}
                ELSE IF SameEvent(s, c.of) THEN sound ELSE sound \ {s}
    /\ UNCHANGED <<calling, out>>

\* _on_eom_received: an alert that is parked is taken out and dispatched with the
\* audio in the ring since its header; with none parked nothing happens.
DispatchKeeping(s, why) ==                                 \* mutant
    /\ capturing' = capturing \ {s}
    /\ overdue' = overdue \ {s}
    /\ UNCHANGED <<pending, anchor, sound>>
    /\ \/ pending[s] = NoAlert /\ UNCHANGED <<calling, out>>
       \/ /\ pending[s] # NoAlert
          /\ LET clip == Suffix(ring'[s], added'[s] - anchor[s]) IN
             out' = Append(out, [of |-> pending[s], why |-> why, start |-> clip[1],
                                 whole |-> Len(clip) = added'[s] - anchor[s],
                                 strong |-> \E i \in DOMAIN clip : clip[i].kind = "header",
                                 sound |-> s \in sound, verdict |-> "deciding"])
          /\ calling' = TRUE
Dispatch(s, why) ==
    /\ capturing' = capturing \ {s}
    /\ pending' = [pending EXCEPT ![s] = NoAlert]
    /\ anchor' = [anchor EXCEPT ![s] = 0]
    /\ sound' = sound \ {s} /\ overdue' = overdue \ {s}
    /\ \/ pending[s] = NoAlert /\ UNCHANGED <<calling, out>>
       \/ /\ pending[s] # NoAlert
          /\ LET clip == Suffix(ring'[s], added'[s] - anchor[s]) IN
             out' = Append(out, [of |-> pending[s], why |-> why, start |-> clip[1],
                                 whole |-> Len(clip) = added'[s] - anchor[s],
                                 strong |-> \E i \in DOMAIN clip : clip[i].kind = "header",
                                 sound |-> s \in sound, verdict |-> "deciding"])
          /\ calling' = TRUE

-----------------------------------------------------------------------------
(* _monitor_loop.                                                          *)

\* The next cycle: _discover_sources, then a poll of every watcher; without one the
\* loop starts over.  (Discovery runs every five seconds; between two of them a cycle
\* finds the same watchers.)
Discover ==
    /\ at = "timeout" /\ ~calling /\ todo = {}
    /\ watched' = running /\ todo' = running
    /\ at' = IF running = {} THEN at ELSE "poll"
    /\ UNCHANGED <<airVars, queue, calling, ringVars, heldVars, out>>

\* The next chunk of a source, into the ring first and then to its decoder.
Poll(s) ==
    /\ at = "poll" /\ ~calling /\ s \in todo
    /\ todo' = todo \ {s}
    /\ IF queue[s] = <<>>
       THEN UNCHANGED <<queue, ringVars, heldVars, calling, out>>
       ELSE LET c == Head(queue[s]) IN
            /\ queue' = [queue EXCEPT ![s] = Tail(@)]
            /\ ring' = [ring EXCEPT ![s] = Kept(s, c)]
            /\ added' = [added EXCEPT ![s] = @ + 1]
            /\ \/ c.kind \in {"header", "faint"} /\ Park(s, c)
               \/ c.kind = "eom" /\ Dispatch(s, "eom")
               \/ c.kind \in {"voice", "noise"} /\ UNCHANGED <<heldVars, calling, out>>
    /\ UNCHANGED <<airVars, watched, at>>

TimedOutWatched == overdue \cap watched                    \* mutant
TimedOut == overdue

\* All sources polled: who has waited too long?
EndPoll ==
    /\ at = "poll" /\ ~calling /\ todo = {}
    /\ at' = "timeout" /\ todo' = TimedOut
    /\ UNCHANGED <<airVars, queue, watched, calling, ringVars, heldVars, out>>

TimeOut(s) ==
    /\ at = "timeout" /\ ~calling /\ s \in todo
    /\ todo' = todo \ {s}
    /\ UNCHANGED ringVars
    /\ Dispatch(s, "timeout")
    /\ UNCHANGED <<airVars, queue, watched, at>>

\* fips_filtering_callback: faint or for elsewhere, the alert is stored as ignored;
\* otherwise it is forwarded, which may take as long as a broadcast, broadcast
\* nothing, or fail.
Decide(v) ==
    /\ calling
    /\ LET d == out[Len(out)] IN
       /\ v \in IF d.sound /\ d.of \in Local THEN {"forwarded", "ignored", "error"} ELSE {"ignored"}
       /\ out' = [out EXCEPT ![Len(out)].verdict = v]
    /\ calling' = FALSE
    /\ UNCHANGED <<airVars, queue, loopVars, ringVars, heldVars>>

-----------------------------------------------------------------------------
Callback == \E v \in Verdicts : Decide(v)
Loop == Discover \/ EndPoll \/ \E s \in Sources : Poll(s) \/ TimeOut(s)
World == \E s \in Sources : Air(s) \/ Outage(s) \/ Recover(s) \/ Wait(s)

Next == Loop \/ Callback \/ World

Spec == Init /\ [][Next]_vars

\* The thread goes on, a broadcast ends, time passes.
FairSpec ==
    /\ Spec
    /\ WF_vars(Loop) /\ WF_vars(Callback)
    /\ \A s \in Sources : WF_vars(Air(s)) /\ WF_vars(Wait(s))

-----------------------------------------------------------------------------
\* While an alert is parked its ring is not trimmed to the pre-roll: whatever was
\* received since its header is there, up to the capture limit.
RecordingWhole ==
    \A s \in Sources : pending[s] # NoAlert =>
        LET n == added[s] - anchor[s] IN Len(ring[s]) >= IF n < CaptureMax THEN n ELSE CaptureMax

\* The recording that goes with a dispatched alert starts at a header of its
\* event, whichever bursts, EOMs and outages came before, unless it was cut.
StartsAtHeader ==
    \A i \in DOMAIN out : out[i].whole =>
        /\ out[i].start.kind \in {"header", "faint"}
        /\ Event[out[i].start.of] = Event[out[i].of]

\* Nothing airs on the strength of another event's confidence: an alert that was
\* forwarded has a well received burst in its recording.
ForwardedWasHeard ==
    \A i \in DOMAIN out : out[i].verdict = "forwarded" /\ out[i].whole => out[i].strong

\* One transmission is dispatched once, unless the thread gave up on its EOM with
\* its last bursts still in the queue.
OnceUnlessTimedOut ==
    \A i, j \in DOMAIN out : i < j /\ out[i].of = out[j].of => out[i].why = "timeout"

\* With one source that keeps running no alert stays parked, not even one whose own
\* source has stopped.  (The loop skips its timeouts when no source is left.)
ParkedIsDispatched ==
    Steady # {} => \A s \in Sources : pending[s] # NoAlert ~> pending[s] = NoAlert

-----------------------------------------------------------------------------
\* "If no EOM arrives within _eom_timeout_seconds the alert is forwarded anyway so
\* real emergencies are never silently dropped": a parked alert leaves by a dispatch.
NeverDropped ==
    [][\A s \in Sources :
          pending[s] \notin {NoAlert, pending'[s]} =>
              out' # out /\ out'[Len(out')].of = pending[s]]_vars
=============================================================================
