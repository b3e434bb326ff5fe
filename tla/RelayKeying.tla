------------------------------ MODULE RelayKeying ------------------------------
(***************************************************************************)
(* How a broadcast keys the transmitter.  Every producer of a broadcast    *)
(* writes one global marker to Redis (set_broadcast_active) and removes it *)
(* when its playout is over; the GPIO process samples the marker and keys  *)
(* its relay pins on the edges it sees, through a behavior matrix that     *)
(* holds or pulses pins and a controller that arms a watchdog thread for   *)
(* every activation.  Producers, the dump input, the monitor, the pulse      *)
(* threads and the watchdogs interleave.                                   *)
(*                                                                         *)
(* Time is abstract: a marker may go stale, and a watchdog wake up, at any *)
(* moment; of two watchdogs of a pin the older wakes up first.             *)
(***************************************************************************)
EXTENDS Naturals

CONSTANTS
    Broadcasts,  \* playouts; each has an identifier of its own
    Forwarded,   \* those whose marker says source "forwarded"
    Pins,        \* configured relay pins
    Matrix,      \* pin -> the behaviors assigned to it
    Buzzer,      \* the dead-air buzzer's pin
    Commanded,   \* pins an operator switches from the web page
    MaxEvents,   \* bound: faults, dumps, commands, incoming alerts and the like
    None

Behaviors == {"PTT", "FORWARDING_ALERT", "GATE_PENDING", "INCOMING_ALERT", "FIVE_SECONDS"}

ASSUME ConstantsAssumption ==
    /\ Forwarded \subseteq Broadcasts /\ None \notin Broadcasts
    /\ None \notin [of : Broadcasts, stale : BOOLEAN, clean : BOOLEAN]
    /\ Matrix \in [Pins -> SUBSET Behaviors]
    /\ Buzzer \in Pins /\ Commanded \subseteq Pins
    /\ MaxEvents \in Nat

VARIABLES
    marker,    \* eas:broadcast_active: whose it is, and whether its time has passed; "clean" is
               \* history: nobody was about to delete the key when it was written, and no other
               \* broadcast has failed to read whose it is
    phase,     \* where each playout is
    dump,      \* the dump input's thread
    incoming,  \* the incoming-alert marker
    pending,   \* alerts are in the Pending queue
    silent,    \* dead air, not acknowledged
    mon,       \* where the monitor's refresh is
    todo,      \* pins, with the behavior, it has yet to handle
    cur,       \* the one it is handling
    flags,     \* _broadcast_was_active, _incoming_was_active, _gate_pending_was_active
    managed,   \* relay_state["managed"]
    state,     \* the controller's state of each pin
    old,       \* pins with a watchdog thread of an activation that is over
    hold,      \* the behavior manager's _hold_map
    pulse,     \* pulse threads of a pin, by what they do next
    sounding,  \* buzzer_state["sounding"]
    byHand,    \* pins keyed by a command
    spent      \* events so far

redisVars == <<marker, incoming, pending, silent>>
monVars == <<mon, todo, cur, flags, managed, sounding>>
pinVars == <<state, old, byHand>>
mgrVars == <<hold, pulse>>
vars == <<redisVars, phase, dump, monVars, pinVars, mgrVars, spent>>

Holding == {"PTT", "FORWARDING_ALERT", "GATE_PENDING"}
Phases  == {"ready", "on", "cut", "clear", "delete", "over", "dead"}
Places  == {"idle", "drop", "hold", "refused", "adopt", "fallback", "release",
            "off", "gate", "buzzer"}

TypeOK ==
    /\ marker \in {None} \cup [of : Broadcasts, stale : BOOLEAN, clean : BOOLEAN]
    /\ phase \in [Broadcasts -> Phases]
    /\ dump \in {"idle", "cutting"}
    /\ {incoming, pending, silent, sounding} \subseteq BOOLEAN
    /\ mon \in Places
    /\ todo \subseteq Pins \X (Holding \cup {"ALL"})
    /\ cur \in {None} \cup (Pins \X Holding)
    /\ flags \in [broadcast : BOOLEAN, incoming : BOOLEAN, gate : BOOLEAN]
    /\ managed \in BOOLEAN
    /\ state \in [Pins -> {"INACTIVE", "ACTIVE", "WATCHDOG_TIMEOUT"}]
    /\ old \subseteq Pins
    /\ hold \in [Pins -> SUBSET Holding]
    /\ pulse \in [Pins -> [start : Nat, sleep : Nat, drop : Nat]]
    /\ byHand \subseteq Pins
    /\ spent \in 0..MaxEvents

Init ==
    /\ marker = None
    /\ phase = [b \in Broadcasts |-> "ready"]
    /\ dump = "idle"
    /\ incoming = FALSE /\ pending = FALSE /\ silent = FALSE /\ sounding = FALSE
    /\ mon = "idle" /\ todo = {} /\ cur = None
    /\ flags = [broadcast |-> FALSE, incoming |-> FALSE, gate |-> FALSE]
    /\ managed = FALSE
    /\ state = [p \in Pins |-> "INACTIVE"]
    /\ old = {}
    /\ hold = [p \in Pins |-> {}]
    /\ pulse = [p \in Pins |-> [start |-> 0, sleep |-> 0, drop |-> 0]]
    /\ byHand = {}
    /\ spent = 0

Event == spent < MaxEvents /\ spent' = spent + 1

-----------------------------------------------------------------------------
(* What the controller does to a pin, each under its lock.                 *)

Active(p) == state[p] = "ACTIVE"

\* activate(): the pin is on, and a watchdog thread goes to sleep.
Key(p) == state' = [state EXCEPT ![p] = "ACTIVE"] /\ UNCHANGED old

\* deactivate() with force: the watchdog's thread is forgotten, not stopped.
Unkey(p) ==
    /\ state' = [state EXCEPT ![p] = IF Active(p) THEN "INACTIVE" ELSE @]
    /\ old' = IF Active(p) THEN old \cup {p} ELSE old
    /\ byHand' = byHand \ {p}

Dropped(p) ==
    /\ state' = [state EXCEPT ![p] = IF Active(p) THEN "WATCHDOG_TIMEOUT" ELSE @]
    /\ byHand' = byHand \ {p}
    /\ UNCHANGED <<redisVars, phase, dump, monVars, mgrVars, spent>>

\* The watchdog of the activation the pin is in, the last to wake up.
Bite(p) == Active(p) /\ p \notin old /\ Dropped(p) /\ UNCHANGED old

\* One of an earlier activation: it drops the pin if it finds it active.
\* The pin may have more of them.
BiteLate(p) == p \in old /\ Dropped(p) /\ (old' = old \/ old' = old \ {p})

\* Buttons of the GPIO page.
SwitchOn(p) ==
    /\ Event
    /\ p \in Commanded /\ ~Active(p)
    /\ Key(p)
    /\ byHand' = byHand \cup {p}
    /\ UNCHANGED <<redisVars, phase, dump, monVars, mgrVars>>
SwitchOff(p) ==
    /\ Event
    /\ p \in Commanded /\ Active(p)
    /\ Unkey(p)
    /\ UNCHANGED <<redisVars, phase, dump, monVars, mgrVars>>

-----------------------------------------------------------------------------
(* The marker and those who write it.                                      *)

\* set_broadcast_active; it also takes the incoming-alert marker away.
SetActive(b) ==
    /\ phase[b] = "ready"
    /\ marker' = [of |-> b, stale |-> FALSE,
                  clean |-> mon # "drop" /\ \A c \in Broadcasts : phase[c] # "delete"]
    /\ incoming' = FALSE
    /\ phase' = [phase EXCEPT ![b] = "on"]
    /\ UNCHANGED <<pending, silent, dump, monVars, pinVars, mgrVars, spent>>

Goes(b, from, to) ==
    /\ phase[b] = from
    /\ phase' = [phase EXCEPT ![b] = to]
    /\ UNCHANGED <<pending, silent, incoming, dump, monVars, pinVars, mgrVars>>

\* The write may fail; the playout goes on all the same.
SetActiveFails(b) ==
    /\ Event
    /\ Goes(b, "ready", "on")
    /\ UNCHANGED marker

PlayoutOver(b) ==
    /\ Goes(b, "on", "clear") \/ Goes(b, "cut", "clear")
    /\ UNCHANGED <<marker, spent>>

ReadOwnerAnyway(b) ==                                      \* mutant
    /\ Goes(b, "clear", "delete")
    /\ UNCHANGED <<marker, spent>>
\* clear_broadcast_active: a newer broadcast's marker is left alone ...
ReadOwner(b) ==
    /\ Goes(b, "clear", IF marker # None /\ marker.of # b THEN "over" ELSE "delete")
    /\ UNCHANGED <<marker, spent>>
ReadOwnerFails(b) ==
    /\ Event
    /\ Goes(b, "clear", "delete")
    /\ marker' = IF marker = None THEN None ELSE [marker EXCEPT !.clean = @ /\ marker.of = b]
\* ... and else the key is deleted, whatever it holds by then.
DeleteMarker(b) ==
    /\ Goes(b, "delete", "over")
    /\ marker' = None
    /\ UNCHANGED spent

\* Its declared time, and the grace, have passed.
Age ==
    /\ marker # None /\ ~marker.stale
    /\ marker' = [marker EXCEPT !.stale = TRUE]
    /\ UNCHANGED <<incoming, pending, silent, phase, dump, monVars, pinVars, mgrVars, spent>>

\* The producer's process dies in mid-broadcast.
Die(b) ==
    /\ Event
    /\ Goes(b, "on", "dead")
    /\ UNCHANGED marker

\* abort_current_broadcast: the playout is killed; when the end-of-message has
\* been sent the marker is cleared without a look at whose it is.
DumpStart ==
    /\ Event
    /\ dump = "idle"
    /\ marker # None /\ ~marker.stale
    /\ phase' = [phase EXCEPT ![marker.of] = IF @ = "on" THEN "cut" ELSE @]
    /\ dump' = "cutting"
    /\ UNCHANGED <<redisVars, monVars, pinVars, mgrVars>>
DumpEnd ==
    /\ dump = "cutting"
    /\ marker' = None
    /\ dump' = "idle"
    /\ UNCHANGED <<incoming, pending, silent, phase, monVars, pinVars, mgrVars, spent>>

\* What else the monitor looks at comes and goes.
World ==
    /\ Event
    /\ \/ incoming' = ~incoming /\ UNCHANGED <<pending, silent>>
       \/ pending' = ~pending /\ UNCHANGED <<incoming, silent>>
       \/ silent' = ~silent /\ UNCHANGED <<incoming, pending>>
    /\ UNCHANGED <<marker, phase, dump, monVars, pinVars, mgrVars>>

-----------------------------------------------------------------------------
(* The monitor's refresh, under the monitor's lock.                        *)

At(place) == mon = place
Quiet == UNCHANGED <<incoming, pending, silent, phase, dump>>

\* What holds a pin for a broadcast, and what is released after any.
HoldsFor(b) == IF b \in Forwarded THEN {"PTT", "FORWARDING_ALERT"} ELSE {"PTT"}
ReleasableUnforwarded == {"PTT"}                           \* mutant
Releasable == {"PTT", "FORWARDING_ALERT"}
Assigned(kinds) == {t \in Pins \X Holding : t[2] \in kinds \cap Matrix[t[1]]}
WithBehavior(k) == {p \in Pins : k \in Matrix[p]}

\* The pulse threads that a behavior starts.
Pulsing(k) ==
    pulse' = [p \in Pins |-> IF p \in WithBehavior(k) THEN [pulse[p] EXCEPT !.start = @ + 1]
                             ELSE pulse[p]]

\* Broadcast seen is compared with the previous refresh, and so are the incoming
\* alert and the Pending queue: the edges say what there is to do.
Edges(seen) ==
    LET rising  == seen # None /\ ~flags.broadcast
        falling == seen = None /\ flags.broadcast
        gate    == IF pending # flags.gate THEN Assigned({"GATE_PENDING"}) ELSE {}
    IN /\ mon' = IF rising THEN "hold" ELSE IF falling THEN "release" ELSE "gate"
       /\ todo' = gate \cup (IF rising THEN Assigned(HoldsFor(seen))
                             ELSE IF falling THEN Assigned(Releasable)
                             ELSE {})
       /\ managed' = (managed /\ ~rising)
       /\ IF incoming /\ ~flags.incoming THEN Pulsing("INCOMING_ALERT") ELSE UNCHANGED pulse
       /\ flags' = [broadcast |-> seen # None, incoming |-> incoming, gate |-> pending]
       /\ Quiet /\ UNCHANGED <<cur, sounding, hold, pinVars>>

ReadMarkerTrusting ==                                      \* mutant
    /\ At("idle")
    /\ Edges(IF marker = None THEN None ELSE marker.of)
    /\ UNCHANGED <<marker, spent>>
\* get_broadcast_state: a marker judged stale ...
ReadMarker ==
    /\ At("idle")
    /\ IF marker = None \/ ~marker.stale
       THEN Edges(IF marker = None THEN None ELSE marker.of)
       ELSE mon' = "drop" /\ Quiet
            /\ UNCHANGED <<todo, cur, flags, managed, sounding, pinVars, mgrVars>>
    /\ UNCHANGED <<marker, spent>>
\* ... is deleted, whatever the key holds by then.
DropMarker ==
    /\ At("drop")
    /\ marker' = None
    /\ Edges(None)
    /\ UNCHANGED spent
\* A read that fails says that nothing is on the air.
ReadFails ==
    /\ At("idle")
    /\ Event
    /\ Edges(None)
    /\ UNCHANGED marker

\* What is left to do where the refresh is.
Work ==
    {t \in todo : CASE At("hold") \/ At("release") -> t[2] \notin {"GATE_PENDING", "ALL"}
                    [] At("fallback") \/ At("off") -> t[2] = "ALL"
                    [] At("gate") -> t[2] = "GATE_PENDING"
                    [] OTHER -> FALSE}

\* _add_hold: a pin that is active already is refused ...
TryHold ==
    /\ At("hold") \/ (At("gate") /\ flags.gate)
    /\ \E t \in Work :
        /\ todo' = todo \ {t}
        /\ IF t[2] \in hold[t[1]]
           THEN /\ managed' = (managed \/ At("hold"))
                /\ UNCHANGED <<mon, cur, state, old>>
           ELSE /\ cur' = t
                /\ mon' = IF Active(t[1]) THEN "refused" ELSE "adopt"
                /\ IF Active(t[1]) THEN UNCHANGED <<state, old>> ELSE Key(t[1])
                /\ UNCHANGED managed
    /\ Quiet /\ UNCHANGED <<marker, flags, sounding, byHand, mgrVars, spent>>

Back == IF cur[2] = "GATE_PENDING" THEN "gate" ELSE "hold"

\* ... looked at once more, and adopted when it is still active.
LookAgain ==
    /\ At("refused")
    /\ IF Active(cur[1]) THEN mon' = "adopt" /\ UNCHANGED cur ELSE mon' = Back /\ cur' = None
    /\ Quiet /\ UNCHANGED <<marker, todo, flags, managed, sounding, pinVars, mgrVars, spent>>
Adopt ==
    /\ At("adopt")
    /\ hold' = [hold EXCEPT ![cur[1]] = @ \cup {cur[2]}]
    /\ managed' = (managed \/ Back = "hold")
    /\ mon' = Back /\ cur' = None
    /\ Quiet /\ UNCHANGED <<marker, todo, flags, sounding, pulse, pinVars, spent>>

\* No hold: activate_all.
KeyNext ==
    /\ At("fallback")
    /\ \E t \in Work :
        /\ todo' = todo \ {t}
        /\ IF Active(t[1]) THEN UNCHANGED <<state, old>> ELSE Key(t[1])
    /\ Quiet /\ UNCHANGED <<marker, mon, cur, flags, managed, sounding, byHand, mgrVars, spent>>

\* _release_hold: the pin goes off with the last behavior that held it.
Release ==
    /\ At("release") \/ (At("gate") /\ ~flags.gate)
    /\ \E t \in Work :
        /\ todo' = todo \ {t}
        /\ hold' = [hold EXCEPT ![t[1]] = @ \ {t[2]}]
        /\ IF hold[t[1]] = {t[2]} THEN Unkey(t[1]) ELSE UNCHANGED pinVars
    /\ Quiet /\ UNCHANGED <<marker, mon, cur, flags, managed, sounding, pulse, spent>>

\* deactivate_all.
UnkeyNext ==
    /\ At("off")
    /\ \E t \in Work : todo' = todo \ {t} /\ Unkey(t[1])
    /\ Quiet /\ UNCHANGED <<marker, mon, cur, flags, managed, sounding, mgrVars, spent>>

All == Pins \X {"ALL"}

AdvanceManaged ==                                          \* mutant
    /\ Work = {} /\ mon \in {"hold", "fallback", "release", "off", "gate"}
    /\ mon' = CASE At("hold") -> IF managed THEN "gate" ELSE "fallback"
                [] At("gate") -> "buzzer"
                [] OTHER -> "gate"
    /\ todo' = IF ~managed /\ At("hold") THEN todo \cup All ELSE todo
    /\ IF At("hold") THEN Pulsing("FIVE_SECONDS") ELSE UNCHANGED pulse
    /\ Quiet /\ UNCHANGED <<marker, cur, flags, managed, sounding, hold, pinVars, spent>>
\* On to the next part of the refresh.  start_alert ends with the five-second
\* pulse; a broadcast that no hold handles is keyed, and released, pin by pin.
Advance ==
    /\ Work = {} /\ mon \in {"hold", "fallback", "release", "off", "gate"}
    /\ mon' = CASE At("hold") -> IF managed THEN "gate" ELSE "fallback"
                [] At("release") -> IF managed THEN "gate" ELSE "off"
                [] At("gate") -> "buzzer"
                [] OTHER -> "gate"
    /\ todo' = IF ~managed /\ mon \in {"hold", "release"} THEN todo \cup All ELSE todo
    /\ IF At("hold") THEN Pulsing("FIVE_SECONDS") ELSE UNCHANGED pulse
    /\ Quiet /\ UNCHANGED <<marker, cur, flags, managed, sounding, hold, pinVars, spent>>

\* _drive_silence_buzzer, and the refresh is over.
DriveBuzzer ==
    /\ At("buzzer")
    /\ CASE silent /\ ~sounding /\ ~Active(Buzzer) -> Key(Buzzer) /\ UNCHANGED byHand
         [] ~silent /\ sounding -> Unkey(Buzzer)
         [] OTHER -> UNCHANGED pinVars
    /\ sounding' = silent
    /\ mon' = "idle"
    /\ Quiet /\ UNCHANGED <<marker, todo, cur, flags, managed, mgrVars, spent>>

-----------------------------------------------------------------------------
(* The pulse threads of a pin.                                             *)

PulseStartAnyway(p) ==                                     \* mutant
    /\ pulse' = [pulse EXCEPT ![p].start = @ - 1, ![p].sleep = @ + (IF Active(p) THEN 0 ELSE 1)]
    /\ IF Active(p) THEN UNCHANGED <<state, old>> ELSE Key(p)
    /\ UNCHANGED <<redisVars, phase, dump, monVars, byHand, hold, spent>>
PulseStart(p) ==
    /\ pulse[p].start > 0
    /\ pulse' = [pulse EXCEPT ![p].start = @ - 1, ![p].sleep = @ + (IF Active(p) THEN 0 ELSE 1)]
    /\ IF Active(p) THEN UNCHANGED <<state, old>> ELSE Key(p)
    /\ UNCHANGED <<redisVars, phase, dump, monVars, byHand, hold, spent>>

\* A pin that a hold has adopted meanwhile is left to it.
PulseEnd(p) ==
    /\ pulse[p].sleep > 0
    /\ pulse' = [pulse EXCEPT ![p].sleep = @ - 1, ![p].drop = @ + (IF hold[p] = {} THEN 1 ELSE 0)]
    /\ UNCHANGED <<redisVars, phase, dump, monVars, pinVars, hold, spent>>

PulseDrop(p) ==
    /\ pulse[p].drop > 0
    /\ pulse' = [pulse EXCEPT ![p].drop = @ - 1]
    /\ Unkey(p)
    /\ UNCHANGED <<redisVars, phase, dump, monVars, hold, spent>>

-----------------------------------------------------------------------------
\* The GPIO service stops, which releases every pin, and comes up again.
Restart ==
    /\ Event
    /\ mon' = "idle" /\ todo' = {} /\ cur' = None
    /\ flags' = [broadcast |-> FALSE, incoming |-> FALSE, gate |-> FALSE]
    /\ managed' = FALSE /\ sounding' = FALSE
    /\ state' = [p \in Pins |-> "INACTIVE"]
    /\ old' = {} /\ hold' = [p \in Pins |-> {}]
    /\ pulse' = [p \in Pins |-> [start |-> 0, sleep |-> 0, drop |-> 0]]
    /\ byHand' = {}
    /\ UNCHANGED <<redisVars, phase, dump>>

Produce(b) == PlayoutOver(b) \/ ReadOwner(b) \/ DeleteMarker(b)
Refresh ==
    \/ ReadMarker \/ DropMarker \/ TryHold \/ LookAgain \/ Adopt \/ KeyNext
    \/ Release \/ UnkeyNext \/ Advance \/ DriveBuzzer
Pulse(p) == PulseStart(p) \/ PulseEnd(p) \/ PulseDrop(p)

Next ==
    \/ \E b \in Broadcasts : SetActive(b) \/ SetActiveFails(b) \/ Produce(b) \/ ReadOwnerFails(b) \/ Die(b)
    \/ Age \/ DumpStart \/ DumpEnd \/ World
    \/ Refresh \/ ReadFails
    \/ \E p \in Pins : Pulse(p) \/ Bite(p) \/ BiteLate(p) \/ SwitchOn(p) \/ SwitchOff(p)
    \/ Restart

Spec == Init /\ [][Next]_vars

\* The poll refreshes once a second, playouts end, time goes on.
FairSpec ==
    /\ Spec
    /\ WF_vars(Refresh) /\ WF_vars(Age)
    /\ \A b \in Broadcasts : WF_vars(Produce(b))

-----------------------------------------------------------------------------
\* No pin is left on with nobody but the watchdog to release it: the broadcast
\* that keyed it is still seen, the queue is not empty, a pulse thread has it,
\* an operator has, or it is the buzzer.
KeyHasOwner ==
    \A p \in Pins :
        Active(p) /\ At("idle") =>
            \/ flags.broadcast /\ (~managed \/ hold[p] \cap {"PTT", "FORWARDING_ALERT"} # {})
            \/ flags.gate /\ "GATE_PENDING" \in hold[p]
            \/ pulse[p].sleep + pulse[p].drop > 0
            \/ p \in byHand
            \/ p = Buzzer /\ sounding

\* A pin without pulses that is held for a broadcast is on, unless its watchdog
\* has put it off: nothing else un-keys the transmitter in between.
HeldIsKeyed ==
    \A p \in Pins \ (Commanded \cup {Buzzer}) :
        /\ Matrix[p] \cap {"INCOMING_ALERT", "FIVE_SECONDS"} = {}
        /\ hold[p] \cap {"PTT", "FORWARDING_ALERT"} # {}
        => state[p] # "INACTIVE"

\* Within the time it declared a marker is taken away by the end of its own broadcast
\* only, whatever earlier playouts end or have died meanwhile and whatever the monitor
\* reads (clear_broadcast_active, get_broadcast_state); unless someone is dumping, the
\* deletion had been decided before the marker was written, or another playout's end
\* failed to read whose it is.
MarkerOutlivesOthers ==
    [][/\ marker # None /\ ~marker.stale /\ marker.clean
       /\ dump = "idle" /\ marker' = None
       => phase[marker.of] = "delete"]_vars

\* In the end no broadcast holds a pin, whoever has died on the way.
RelayComesDown ==
    <>[](/\ ~flags.broadcast
         /\ \A p \in Pins : hold[p] \subseteq {"GATE_PENDING"})
-----------------------------------------------------------------------------
\* "force-released if it stays active longer" (docs/hardware/GPIO_GUIDE.md): no
\* watchdog but its own, which wakes up last, drops a pin.
WatchdogIsLate ==
    [][\A p \in old : Active(p) => state'[p] # "WATCHDOG_TIMEOUT"]_vars

\* "asserted for as long as the condition holds" (_drive_silence_buzzer).
BuzzerHeld == sounding => Active(Buzzer)

\* "only clear the marker if it still belongs to that broadcast" (clear_broadcast_active),
\* and a read drops the marker when "Broadcast is over" (get_broadcast_state): nobody takes
\* the marker of another that is in its time.
NewerMarkerSpared ==
    [][/\ marker # None /\ ~marker.stale
       /\ dump = "idle" /\ marker' = None
       => phase[marker.of] = "delete"]_vars

\* "keep the previous flags so the NeoPixel sees no false edge"
\* (update_alert_indicators): a falling edge means that the marker is gone.
NoFalseEdge ==
    [][~At("release") /\ At("release")' => marker = None \/ marker.stale]_vars
=============================================================================
