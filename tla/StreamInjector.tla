---------------------------- MODULE StreamInjector ----------------------------
(***************************************************************************)
(* How alert audio gets into one source's Icecast stream: the capture loop *)
(* publishes live chunks unless the gate is set, inject_eas_audio sets the *)
(* gate, flushes the queue and publishes the alert, abort_injected_audio   *)
(* opens the gate, clears the queue and injects an end-of-message instead, *)
(* and the IcecastStreamer moves chunks through a local buffer to FFmpeg.  *)
(*                                                                         *)
(* The decoder's thread and the sweeper inject side by side with the       *)
(* command thread, which takes one command after the other.  The queue is  *)
(* the streamer's; what happens when it is full is left to BroadcastQueue. *)
(***************************************************************************)
EXTENDS Naturals, Sequences, FiniteSets

CONSTANTS
    Forwarded,  \* alerts injected by a forwarding thread of their own
    Commanded,  \* alerts injected on a command: manual sends, resends, tests
    Signoffs,   \* end-of-message bursts injected by an abort command
    Chunks,     \* chunks of an alert; one more, of silence, follows
    MaxLive     \* bound: live chunks published

Alerts == Forwarded \cup Commanded \cup Signoffs
Live   == <<"live", 0>>

ASSUME ChunksAssumption == Chunks \in Nat \ {0} /\ MaxLive \in Nat
ASSUME AlertsAssumption ==
    /\ "live" \notin Alerts
    /\ Forwarded \cap Commanded = {} /\ Signoffs \cap (Forwarded \cup Commanded) = {}

VARIABLES
    queue,   \* the streamer's subscriber queue
    gate,    \* _eas_injection_active
    seq,     \* _eas_inject_seq
    base,    \* its value as an injection read it
    step,    \* where each injection is
    pos,     \* chunks of it that are published
    cap,     \* the capture loop reads, or holds a chunk it is about to publish
    live,    \* live chunks published
    saw,     \* the streamer's _last_eas_inject_seq
    buffer,  \* its local pre-buffer
    at,      \* where its loop is
    out,     \* history: what it wrote to FFmpeg, from the first alert on
    mixed    \* history: injections that began while another was under way, or were followed
             \* by another

capVars == <<cap, live>>
strVars == <<saw, buffer, at, out>>
injVars == <<gate, seq, base, step, pos, mixed>>
vars == <<queue, capVars, strVars, injVars>>

Steps == {"ready", "clear", "read", "count", "gate", "flush", "send", "release", "done"}
Audio == {Live} \cup (Alerts \X (1..Chunks + 1))

TypeOK ==
    /\ queue \in Seq(Audio) /\ buffer \in Seq(Audio) /\ out \in Seq(Audio)
    /\ gate \in BOOLEAN
    /\ seq \in Nat /\ saw \in Nat
    /\ base \in [Alerts -> Nat]
    /\ step \in [Alerts -> Steps]
    /\ pos \in [Alerts -> 0..Chunks + 1]
    /\ cap \in {"read", "publish"} /\ live \in 0..MaxLive
    /\ at \in {"check", "get", "feed"}
    /\ mixed \subseteq Alerts

Init ==
    /\ queue = <<>> /\ buffer = <<Live>> /\ out = <<>>
    /\ gate = FALSE
    /\ seq = 0 /\ saw = 0
    /\ base = [a \in Alerts |-> 0]
    /\ step = [a \in Alerts |-> "ready"]
    /\ pos = [a \in Alerts |-> 0]
    /\ cap = "read" /\ live = 0
    /\ at = "check"
    /\ mixed = {}

-----------------------------------------------------------------------------
(* The capture loop: read, look at the gate, publish.                      *)

CaptureRead ==
    /\ cap = "read" /\ ~gate /\ live < MaxLive
    /\ cap' = "publish"
    /\ UNCHANGED <<queue, live, strVars, injVars>>

CapturePublish ==
    /\ cap = "publish"
    /\ queue' = Append(queue, Live)
    /\ cap' = "read" /\ live' = live + 1
    /\ UNCHANGED <<strVars, injVars>>

-----------------------------------------------------------------------------
(* inject_eas_audio, one call per alert.                                   *)

Move(a, s) == step' = [step EXCEPT ![a] = s]

\* The command subscriber executes one command after the other.
Busy(a) == step[a] \notin {"ready", "done"}
CommandsIdle == \A a \in Commanded \cup Signoffs : ~Busy(a)

Begin(a) ==
    /\ step[a] = "ready"
    /\ a \in Forwarded \/ CommandsIdle
    /\ Move(a, IF a \in Signoffs THEN "clear" ELSE "read")
    /\ gate' = (gate /\ a \notin Signoffs)
    /\ mixed' = mixed \cup {b \in Alerts : step[b] # "ready"}
                       \cup {b \in {a} : \E c \in Alerts : Busy(c)}
    /\ UNCHANGED <<queue, seq, base, pos, capVars, strVars>>

\* abort_injected_audio has opened the gate; clear_subscriber_queue.
ClearQueue(a) ==
    /\ step[a] = "clear"
    /\ \/ queue # <<>> /\ queue' = Tail(queue) /\ UNCHANGED step
       \/ queue = <<>> /\ Move(a, "read") /\ UNCHANGED queue
    /\ UNCHANGED <<gate, seq, base, pos, mixed, capVars, strVars>>

\* "adapter._eas_inject_seq += 1" reads and writes; no lock covers it.
ReadSeq(a) ==
    /\ step[a] = "read"
    /\ base' = [base EXCEPT ![a] = seq]
    /\ Move(a, "count")
    /\ UNCHANGED <<queue, gate, seq, pos, mixed, capVars, strVars>>

Count(a) ==
    /\ step[a] = "count"
    /\ seq' = base[a] + 1
    /\ Move(a, "gate")
    /\ UNCHANGED <<queue, gate, base, pos, mixed, capVars, strVars>>

CloseGateNever(a) ==                                       \* mutant
    /\ step[a] = "gate"
    /\ Move(a, "flush")
    /\ UNCHANGED <<gate, queue, seq, base, pos, mixed, capVars, strVars>>
CloseGate(a) ==
    /\ step[a] = "gate"
    /\ gate' = TRUE
    /\ Move(a, "flush")
    /\ UNCHANGED <<queue, seq, base, pos, mixed, capVars, strVars>>

\* Get_nowait until the queue is found empty.
Flush(a) ==
    /\ step[a] = "flush"
    /\ \/ queue # <<>> /\ queue' = Tail(queue) /\ UNCHANGED step
       \/ queue = <<>> /\ Move(a, "send") /\ UNCHANGED queue
    /\ UNCHANGED <<gate, seq, base, pos, mixed, capVars, strVars>>

SendOneMore(a) ==                                          \* mutant
    /\ step[a] = "send"
    /\ queue' = Append(queue, <<a, pos[a] + 1>>)
    /\ pos' = [pos EXCEPT ![a] = @ + 1]
    /\ Move(a, IF pos[a] > Chunks THEN "release" ELSE "send")
    /\ UNCHANGED <<gate, seq, base, mixed, capVars, strVars>>
\* The next chunk; the one after the last of the alert is silence.
Send(a) ==
    /\ step[a] = "send"
    /\ queue' = Append(queue, <<a, pos[a] + 1>>)
    /\ pos' = [pos EXCEPT ![a] = @ + 1]
    /\ Move(a, IF pos[a] = Chunks THEN "release" ELSE "send")
    /\ UNCHANGED <<gate, seq, base, mixed, capVars, strVars>>

OpenGateNever(a) ==                                        \* mutant
    /\ step[a] = "release"
    /\ Move(a, "done")
    /\ UNCHANGED <<gate, queue, seq, base, pos, mixed, capVars, strVars>>
OpenGate(a) ==
    /\ step[a] = "release"
    /\ gate' = FALSE
    /\ Move(a, "done")
    /\ UNCHANGED <<queue, seq, base, pos, mixed, capVars, strVars>>

-----------------------------------------------------------------------------
(* The feed loop of IcecastStreamer.                                       *)

\* A sequence number it has not seen: its pre-buffer is dropped.
CheckForgetting ==                                         \* mutant
    /\ at = "check"
    /\ buffer' = IF seq # saw THEN <<>> ELSE buffer
    /\ at' = "get"
    /\ UNCHANGED <<saw, queue, out, capVars, injVars>>
Check ==
    /\ at = "check"
    /\ saw' = seq
    /\ buffer' = IF seq # saw THEN <<>> ELSE buffer
    /\ at' = "get"
    /\ UNCHANGED <<queue, out, capVars, injVars>>

\* _get_audio_from_subscription: a chunk, or none before the timeout.
Get ==
    /\ at = "get"
    /\ \/ queue # <<>> /\ buffer' = Append(buffer, Head(queue)) /\ queue' = Tail(queue)
       \/ queue = <<>> /\ UNCHANGED <<buffer, queue>>
    /\ at' = "feed"
    /\ UNCHANGED <<saw, out, capVars, injVars>>

\* The history leaves out what precedes the first alert.
Written(chunk) == IF out = <<>> /\ chunk = Live THEN out ELSE Append(out, chunk)

\* The write; on a broken pipe the chunk goes back and the encoder restarts.
FeedBehind ==                                              \* mutant
    /\ at = "feed"
    /\ \/ buffer # <<>> /\ out' = Written(Head(buffer)) /\ buffer' = Tail(buffer)
       \/ buffer # <<>> /\ buffer' = Append(Tail(buffer), Head(buffer)) /\ UNCHANGED out
       \/ buffer = <<>> /\ UNCHANGED <<out, buffer>>
    /\ at' = "check"
    /\ UNCHANGED <<saw, queue, capVars, injVars>>
Feed ==
    /\ at = "feed"
    /\ \/ buffer # <<>> /\ out' = Written(Head(buffer)) /\ buffer' = Tail(buffer)
       \/ UNCHANGED <<out, buffer>>
    /\ at' = "check"
    /\ UNCHANGED <<saw, queue, capVars, injVars>>

-----------------------------------------------------------------------------
Capture == CaptureRead \/ CapturePublish
Inject(a) ==
    \/ ClearQueue(a) \/ ReadSeq(a) \/ Count(a) \/ CloseGate(a)
    \/ Flush(a) \/ Send(a) \/ OpenGate(a)
Stream == Check \/ Get \/ Feed

Next == Capture \/ Stream \/ \E a \in Alerts : Begin(a) \/ Inject(a)

Spec == Init /\ [][Next]_vars

-----------------------------------------------------------------------------
\* What the listeners have been sent and what is on its way to them.
Air == out \o buffer \o queue
Places(a) == {i \in 1..Len(Air) : Air[i][1] = a}

\* Restarts of the encoder, flushes and clears may cost chunks of an alert, but
\* the rest reaches the listeners in order and once.
Sequenced == \A a \in Alerts : \A i, j \in Places(a) : i < j => Air[i][2] < Air[j][2]

Alone(a) == a \notin mixed

\* An injection that no other overlaps loses no chunk but its first, which the
\* streamer may have taken before it sees the new sequence number, until another
\* one follows (which empties the queue).
OnlyFirstLost ==
    \A a \in Alerts : Alone(a) =>
        \A k \in 2..pos[a] : \E i \in Places(a) : Air[i][2] = k

\* Of the live program no more than the chunk the capture loop held when the
\* gate closed gets in between the chunks of such an injection.
OneStray ==
    \A a \in Alerts : Alone(a) =>
        Cardinality({l \in Places("live") : \E i, j \in Places(a) : i < l /\ l < j}) <= 1

\* The program comes back: in every order of injections and aborts a closed gate
\* has an injection under way that has yet to open it.
GateHeld == gate => \E a \in Alerts : step[a] \in {"flush", "send", "release"}

-----------------------------------------------------------------------------
\* "listeners hear a clean uninterrupted EAS alert sequence" (inject_eas_audio):
\* its last burst, the end of message, is not taken out of the queue again.
NotCutShort ==
    \A a \in Forwarded : step[a] = "done" => \E i \in Places(a) : Air[i][2] = Chunks
=============================================================================
