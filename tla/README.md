# TLA+ models of the EAS station

This directory holds TLA+ modules that model the alert path of the EAS station, from the
audio sources to the transmitter's relay and the audit log, the TLC configurations that
check them on small instances, and proofs, checked by TLAPS, of some of their properties for
every value of the constants.

    tlc -config ForwardDedup.cfg AlertForwardingMC       # one run
    tlapm AlertForwarding_proofs.tla                     # the proofs,
    tlapm BroadcastQueue_proofs.tla                      # a file each

`PROJECT.json` lists the components, the runs, the source lines every definition
stands for, the findings, the hazards of the code and the theorems.

## 1. The system

The station is a set of Linux services (systemd units) that share one PostgreSQL
database and one Redis server; nothing else connects them.

| process | what it does | state it owns |
|---|---|---|
| `poller` (`poller/cap_poller.py`) | fetches the IPAWS/NOAA CAP feeds, stores alerts, decides on forwarding, sweeps held CAP alerts (second thread) | `CAPAlert` rows, result lists of its queries |
| `eas-station-audio` (`eas_monitoring_service.py`), the monitor | captures and fans out audio, streams it to Icecast and injects alerts into it; one thread decodes all sources and hands off-air SAME headers over for relay, one sweeps held relays, one executes Redis commands | queues in memory, decoded headers, the sweep's session |
| `web` (`webapp/`) | operators approve or cancel held alerts, send their own, configure | `GatedAlert` and settings rows |
| `gpio` (`services/gpio`) | keys the transmitter from the Redis broadcast marker once a second | pin states, behaviour timers |
| `sdr`, `demod`, `gps`, `displays`, `network`, `zigbee`, `endec_feeds`, `hwsetup` | devices | device state |

Every process may die at any instruction and is started again by systemd; what it
held in memory is lost, its database transactions are rolled back and its
transaction-level locks freed. The database runs at READ COMMITTED and no code in the
alert path locks rows: all the exclusion there is comes from one PostgreSQL advisory
lock around the duplicate check.

### Components, and what makes each one correct

1. **Alert forwarding pipeline** (`app_core/audio/auto_forward.py`). No state of its
   own: it reads and writes `CAPAlert.eas_forwarded/eas_forwarding_reason`,
   `GatedAlert` and `EASMessage`. Called by the poll thread, both sweepers, the decoder
   threads and web requests, at the same time. Correct when an issuance received from several
   sources is broadcast once, when nothing held is broadcast early and nothing cancelled is
   broadcast at all, and when each alert gets a decision.
2. **Hold-off gate** (`_models_gating.py`, `gating_scheduler.py`, the poller's sweeper,
   `webapp/admin/pending_alerts.py`). One row per held alert: pending, then approved,
   cancelled or released. Hard: four kinds of threads resolve the same row from copies they
   read earlier. Correct when every hold ends and the decision taken is the one obeyed.
3. **Poller ingest** (`cap_poller.py`). Insert, update on re-poll, supersede along VTEC chains
   and `<references>`, cancel by reference, catch-up of undecided alerts. Hard: each is
   a commit of its own and the feed repeats alerts in any order. Correct when an alert that was
   cancelled stays cancelled, and a crash between two commits is made good.
4. **EASBroadcaster** (`app_utils/eas.py`). Builds header and audio, commits the
   `EASMessage`, sets the broadcast marker, plays. Correct when a record stands
   for a broadcast.
5. **Broadcast marker and relay keying** (`app_utils/eas.py`, `services/gpio`,
   `app_utils/gpio`, `rwt_scheduler.py`, `webapp/eas/workflow.py`). One Redis key for all
   broadcasts, with a TTL; readers delete it when they judge it stale; the GPIO loop samples it at
   1 Hz. Hard: overlapping broadcasts, read-then-delete, a swap that shows no edge. Correct when
   the transmitter is keyed for as long as any broadcast plays, and released afterwards.
6. **Audio fan-out and injection** (`broadcast_queue.py`, `eas_stream_injector.py`,
   `icecast_output.py`). Bounded queue per subscriber that drops its oldest chunk; a gate that
   silences live audio during an injection. Correct when each subscriber gets an ordered
   subsequence of what was published, and no live audio is mixed into an alert.
7. **Audio sources** (`ingest.py`, `sources.py`, `eas_monitoring_service.py`). Adapters with a
   capture thread and a decoder process each. Hard: commands, the health monitor's recoveries and the
   source watchdog stop and start the same adapter without a lock. Correct when it has one
   capture loop, and none after its removal.
8. **Off-air monitor** (`eas_monitor*.py`, `streaming_same_decoder.py`). Parks a decoded header
   until its end-of-message, with the audio recorded since. Hard: bursts lost or faint, sources that
   stop, a timeout, a callback that blocks the only thread. Correct when each alert is handed over
   once, with its own recording, and none waits for ever for its EOM.
9. **Weekly-test scheduler** (`rwt_scheduler.py`), in every web worker: one test a week over
   restarts, workers that race and slots slept through.
10. **Operator broadcasts and GPIO abort** (`webapp/eas/workflow.py`,
    `gpio_input_actions.py`), which share the marker of 5 and the stream of 6.
11. **Audit log hash chain** (`app_core/auth/audit.py`): concurrent appends must form one chain,
    and nothing may be deleted without its entry.
12. **Worker coordination, Redis commands** (`worker_coordinator*.py`, `redis_commands.py`):
    the audio service executes one command after the other. The coordinator's election functions have
    no caller.
13. **Login protection, dead-air alarm, radio, retention, notifications, devices, web UI,
    text-to-speech**: counters, timers, device I/O and media. No
    module is planned for most of them; `PROJECT.json` gives the reason for each.

## 2. Plan

| # | module | models | state |
|---|---|---|---|
| 1 | `AlertForwarding`, `AlertForwardingMC`, `AlertForwarding_proofs` | components 1 to 4 composed: poller, monitor, web against one database | checked, proved |
| 2 | `BroadcastQueue` refining `LossyFanout`, `BroadcastQueueMC`, `BroadcastQueue_proofs` | fan-out that drops its oldest chunk | checked, proved |
| 3 | `StreamInjector`, `StreamInjectorMC`, `StreamInjector_proofs` | injections, abort and the Icecast feed loop around one gate | checked, proved |
| 4 | `RelayKeying`, `RelayKeyingMC`, `RelayKeying_proofs` | marker, its producers, the dump, the GPIO monitor, holds, pulses, watchdogs | checked, proved |
| 5 | `OffAirMonitor`, `OffAirMonitorMC`, `OffAirMonitor_proofs` | receive, record, park until EOM or timeout, dispatch; what it forwards is `Decode` of 1 | checked, proved |
| 6 | `AuditChain` refining `AppendOnlyLog`, `AuditChainMC`, `AuditChain_proofs` | concurrent writers, verifier, audited purge | checked, proved |
| 7 | `RwtScheduler`, `RwtSchedulerMC`, `RwtScheduler_proofs` | the workers' schedulers, the button, the weekly lock | checked, proved |
| 8 | `AudioSource`, `AudioSourceMC`, `AudioSource_proofs` | adapters, capture loops, and the threads that start and stop them | checked, proved |

Every safety property, action property and refinement of a run that is meant to pass is stated by a theorem (section 9). Left to
TLC are the liveness properties and the two counterexamples of section 10. A next step for the proofs is what `OriginalAired`
leaves out: the weaker statement that holds through crashes.

## 3. `AlertForwarding`

### State

| variable | in the code |
|---|---|
| `status`, `cancelledAt`, `superseded`, `reason` | `CAPAlert.status`, `.cancelled_at`, `.superseded_by_id`, `.eas_forwarding_reason` (with `eas_forwarded` true exactly for "forwarded") |
| `gate`, `due`, `gating` | `GatedAlert.status`, `hold_until <= now`, `AlertGatingSettings.enabled` |
| `recorded`, `fresh` | alerts with an `EASMessage`; those of the last 15 minutes |
| `expired`, `stale`, `bygone` | CAP alerts past their expiry; those stored after it; those past it by 24 hours |
| `aged` | alerts without a decision whose 60 minutes for another try have gone by |
| `pc`, `job`, `seen`, `verdict`, `todo`, `cached` | the program counters, locals and SQLAlchemy identity maps of the threads |
| `holds` | who holds `pg_advisory_xact_lock` for the key of its alert |
| `airings`, `lapsed`, `veto`, `heard`, `crashes` | history and bounds, read by no code |

### Actions

A step is one statement or commit on the database, one wait, or code whose reads are made
together. `Check`, `Gate`, `Lock`, `Dedup`, `Record` or `Refuse`, `Play` and
`Stamp` are the pipeline, in the order of the code: a CAP alert passes the gate and
then deduplicates, and takes the lock between; a relay deduplicates first and
passes the gate with the lock held. Committing the pending row and committing the
`EASMessage` each end the transaction and so the lock. Only CAP alerts have a row to stamp.

`Insert` and `Link` are the two halves of `_insert_new_alert` (there is a commit
between); `Repoll`, `CancelByReference` are what the next polls of the feed do to a stored
row; `StampMissed`, `RetryQuery`, `Retry` are `retry_unevaluated_forwards`. `Decode` is a relay
handed over by the decoder thread (the service runs one, `eas-unified-monitor`, for all sources). `SweepQuery`, `SweepTake`, `Release`, `Load` are the sweepers,
`Open`, `Approve`, `Cancel` the two web requests (read, then check, then commit).
`HoldElapses`, `Expire`, `HourPasses`, `DayPasses`, `WindowLapses` are time, `Crash(p)` the death of a process.

The constant `Undated` is the set of CAP alerts without an expiry (`CAPAlert.expires` is nullable). The catch-up's two queries
ask for one: `Missed`, what is stamped, is what expired without a decision in the last 24 hours, not counting what was stored
late; `Retriable`, what is tried again, is what was stored in the last 60 minutes and has yet to expire. An alert of `Undated`
whose pipeline died is found by neither (`NoneForgotten`, section 10).

The two sweepers differ, and the model keeps the difference: the CAP sweep takes each row of its
query's result as it is; the OTA sweep fetches each row again and skips those
resolved in the meantime, except while its session still holds the copy the
query made (`cached`), which the first commit of the sweep ends.

### What is abstracted

* A header is its event (`Event`), its originator, event and issue time (`Issue`) and its counties
  (`Fips`); the outgoing header's locations are the counties inside the coverage, or the coverage
  when there are none (`Sent`). State-wide and nation-wide codes are not told apart from counties.
* Scope, message type, weekly-test and allowlist filters are one set, `Filtered`.
* The 24 hours in which a header counts as broadcast are taken not to pass; the 15 minute window may lapse at any
  time. The catch-up's 60 minutes and 24 hours pass for alerts without a decision, the only ones they matter for, and
  while the poll thread is between two jobs.
* An alert without an expiry is treated as expired 30 days after it was sent; none that old arrives.
* A database error inside a step is seen only as the crash of its process. Playing with an error
  counts as on the air. `StampMissed` reads and commits in one step.
* The expiry of a relay's header is never read by the code, so relays have none.
* Records of operators' own broadcasts (`ManualEASActivation`) do not occur.

### Properties

| property | says | hazard |
|---|---|---|
| `CancelInTimeIsFinal` | once a cancel commits while no thread is bound to air the alert, it never airs | stale rows in sweeps, racing requests, repeated decodes |
| `HoldOffHonoured` | a gated alert airs neither while pending nor by a release before its time | catch-up or replay passing the gate |
| `LockedCheckStaysTrue` | after the duplicate check and until the record's commit, nobody records an alert of the same key | check-then-act between processes |
| `AiredOnce` | one issuance from several sources airs once | the same, over whole histories |
| `DuplicateHasOriginal` | an alert stamped duplicate has an original that was, or is being, aired | records without a broadcast |
| `EveryAlertDecided` | each alert that has an expiry and is stored before it gets a decision, unless no catch-up runs in the 24 hours after it | crash between commits |
| `HoldEnds`, `LockFreed` | no row is held for ever, no lock is kept | lost sweeps, lock without time limit |

`Committed` defines "bound to air": a sweep has listed the row, a thread is about to
overwrite it, or a thread is already past it. A cancel after that is "late", and
the run `ForwardLateCancel` shows that the code then airs the alert.

`AiredOnce` has the limits the code has, each visible in the code: both
copies must be deduplicated at all (no UPG), agree on their counties (the key and
the comparison use the set), name a covered county; a CAP copy must also lie within the
coverage (section 10 says why) and be decided before a record leaves the 15 minute window.

### Runs

All runs use `AlertForwardingMC`. Deadlock is not checked, because the system comes to
rest when the feed, the radio and the operators have nothing more to do.

| run | instance | shows |
|---|---|---|
| `ForwardOtaGate` | one relay decoded twice, its sweeper, two operators, one crash | types, `CancelInTimeIsFinal`, `HoldOffHonoured`, with the lock held through the gate |
| `ForwardDedup` | three CAP products of one chain and issuance, one a cancellation, and a relay | `LockedCheckStaysTrue` (`AiredOnce`, step by step), `DuplicateHasOriginal` |
| `ForwardLive` | a gated CAP alert and a gated relay of one issuance, one crash, `FairSpec` | `AiredOnce` through a crash, `EveryAlertDecided`, `HoldEnds`, `LockFreed` |
| `ForwardLateCancel` | one gated CAP alert, one operator | finding, section 10 |

**Bounds.** `MaxHeard` (how often one relay is decoded) is 2 where the gate is in question, since
the second decode meets the row of the first, and 1 elsewhere.
`MaxCrashes` is at most 1: a crash only forgets what a thread held, so a second one leads to states
of the same kind. Two operators are enough for every race on a row (one overwrites the
other); the decoder thread, the poll thread and the sweepers contend for one lock. `DuplicateHasOriginal`
is checked without crashes, because a crash between record and playout breaks it (section 10).
The theorems have no such bounds. Alerts, counties and issuances are model
values or single letters; operators and monitors are symmetric.

**Fairness.** `FairSpec` asks that each thread goes on with a job it has begun and that
each sweeper keeps sweeping (threads of services that systemd restarts),
that the catch-up runs again (`poll_and_process` calls it at the end of each
cycle), that operators' requests, once sent, are executed, and that hold-off deadlines pass.
Time passes, so that an alert with an expiry expires at last. It never asks that an operator acts, that an alert arrives or is
polled again, that the catch-up's hour or day goes by, or that a crash happens. All of it is weak fairness, also for the lock: in the checked instance a thread does not
wait behind others for ever.

## 4. Audio: `BroadcastQueue` and `StreamInjector`

Both belong to the monitor process (`eas-station-audio`), which runs the audio sources, registers the
injector's controller, relays what it decodes, sweeps held relays and executes the Redis audio
commands, each in threads of its own.

### `BroadcastQueue`, an implementation of `LossyFanout`

State: `subscribed` and `queue` are `_subscribers`; `targets`, `full`, `place` are where each
publisher is in the loop of `publish`; `clearing` the running `clear_subscriber_queue` calls;
`sent` and `got` number the chunks (`<<p, k>>` is the k-th of publisher `p`) and record the last
one heard. `Publish` takes the snapshot under the lock; `Put`, `DropOldest`, `PutAgain` are the
three calls on a `queue.Queue`, each a step, because nothing but the queue's own lock
covers them. Left out: the statistics counters and the log. Subscribers are
served in any order. A queue that leaves the table is forgotten, as nobody reads it.

`LossyFanout` is what a subscriber may rely on: each publisher's chunks in order, each at most once,
with gaps. `ImplementsFanout` shows it of the queues, under the identity mapping of
`sent` and `got`. `InOrder` says the same of what still waits. `PublishEnds`: no subscriber
holds up a publisher.

### `StreamInjector`

One source and one Icecast streamer. `CaptureRead`, `CapturePublish` are the capture loop before and
after it has looked at the gate; a chunk read behind a closed gate changes nothing here.
`Begin`, `ReadSeq`, `Count`, `CloseGate`, `Flush`, `Send`, `OpenGate` are
`inject_eas_audio` in its order (the increment of `_eas_inject_seq` is a read and a write, for no
lock covers it); an abort begins by opening the gate and
clearing the queue (`ClearQueue`), then injects its end-of-message. `Check`, `Get`, `Feed` are the feed
loop of the streamer: compare the sequence number and drop the pre-buffer, wait for a chunk, write one;
a broken pipe puts the chunk back. Relays and held relays (`Forwarded`) inject from
their own threads; manual sends and aborts (`Commanded`, `Signoffs`) come one at a time from the command
subscriber. Left out: the queue's overflow (10000 chunks; `BroadcastQueue` has it), decoding,
resampling, further sources, start and stop of the streamer, and the capture thread's own drain of `_inject_pending`
(`ingest.py:481-487`), which publishes what older callers left there without a look at the gate.

`mixed` is a history variable: the injections that began while another was under way, or that another has followed. All
others are `Alone`: earlier ones may have ended, and left what they like in queue, pre-buffer and gate.
`Air` is what was written, then what waits in the pre-buffer, then the queue. With it:

| property | says | hazard |
|---|---|---|
| `Sequenced` | chunks of an alert reach listeners in order and once, whatever overlaps | encoder restarts, clears and flushes under way |
| `OnlyFirstLost` | an injection that no other overlaps loses no chunk but its first, until another follows | compare-then-wait in the feed loop |
| `OneStray` | and has at most one chunk of the live program in it | look-then-publish in the capture loop |
| `GateHeld` | a closed gate has an injection under way that has yet to open it | abort and injections all moving it |

### Runs

| run | instance | shows |
|---|---|---|
| `Fanout` | two publishers, two subscribers, queues of 2, two chunks each, `FairSpec` | types, `InOrder`, `ImplementsFanout`, `PublishEnds` |
| `Inject` | a relay's injection and an abort, two chunks each and silence, two live chunks | types, `Sequenced`, `OnlyFirstLost`, `OneStray` of each while it is alone, `GateHeld` throughout |

**Bounds.** `MaxSize` 2 and more than two chunks in all make queues overflow while others wait in
them. `MaxChunks`, `MaxLive`, `Chunks` only end the history: an order is broken by two chunks, a gap
is seen with the silence as third, and one live chunk can be held across the closing of the gate. Deadlock is not
checked for the fan-out, which rests when its publishers stop; the streamer never rests.

**Fairness.** A publisher goes on with the chunk it has begun, because `publish` is straight-line code
without waits. No subscriber is assumed to run. The injector's run has only safety properties.

## 5. The way off the air and onto the air: `OffAirMonitor`, `RelayKeying`

### `OffAirMonitor`

`UnifiedEASMonitorService` polls all running sources in one thread. `Discover`, `Poll`, `EndPoll`,
`TimeOut` are the cycle of `_monitor_loop`: find the sources, take a chunk from each, append it to the
ring (`Kept` trims it) and give it to the decoder, then look for alerts that have waited too
long. A header burst is `Park` (`_handle_alert`), an EOM or a timeout `Dispatch` (`_on_eom_received`); the
callback (`Decide`) blocks the thread until it returns. `ring`, `added`, `anchor` are the ring, the count of
samples and the position of the header; `out` records each dispatch, the recording's first chunk, whether
it is whole, and what the FIPS filter made of it.

The stations (`Air`) are the environment: bursts, narration and EOM, alert after alert, whether or not the
source runs; a burst may be received well, faintly (below the confidence threshold) or not at all. Chunks stand for
stretches of audio, so the positions count chunks. Taken from the timing of the code: a chunk lasts longer
than a cycle, so chunks pile up only behind the callback (`KeptUp`), and five minutes are longer than a
transmission (`Wait`). `Discover` runs every cycle instead of every five seconds. `Steady` sources never stop. Stops of the whole
monitor are left out.

| property | says | hazard |
|---|---|---|
| `RecordingWhole` | while an alert is parked nothing received since its header is trimmed away | trimming while capturing |
| `StartsAtHeader` | a whole recording starts at a header of its own event | bursts, lost EOMs, outages moving the anchor |
| `ForwardedWasHeard` | an alert forwarded with a whole recording had a well received burst in it | confidence kept from another event |
| `OnceUnlessTimedOut` | a transmission is dispatched once, unless the thread gave up on its EOM | EOM and timeout both dispatching |
| `ParkedIsDispatched` | while some source runs, no alert stays parked, even if its own source has stopped | source lost between header and EOM |

Run `OffAir`: two stations, one with two alerts of different events in a row; two bursts, one bad chunk, one
outage. `PreRoll` 1 and `CaptureMax` 5 make both limits of the ring matter. `FairSpec`: the thread goes on, broadcasts end, stations
send and time passes.

### `RelayKeying`

| state | in the code |
|---|---|
| `marker` | the Redis key `eas:broadcast_active`, whether its declared time has passed, and (history) whether it is `clean`: nobody had a deletion of an older one still to carry out when it was written, and no end of another playout has failed to read whose it is |
| `phase`, `dump` | where each producer's playout, and the dump input, is |
| `mon`, `todo`, `cur`, `flags`, `managed` | the refresh under way, its edges, `relay_state["managed"]` |
| `state`, `old` | the controller's pin states, and pins with watchdog threads of activations that are over |
| `hold`, `pulse` | the behavior manager's `_hold_map` and pulse threads |
| `incoming`, `pending`, `silent`, `sounding`, `byHand` | incoming-alert marker, Pending queue, dead-air alarm, buzzer, commanded pins |

`SetActive`, `PlayoutOver`, `ReadOwner`, `DeleteMarker` are one producer's use of the marker
(`set_broadcast_active`, `clear_broadcast_active`: compare, then delete). `ReadMarker`, `DropMarker`,
`ReadFails` are `get_broadcast_state`; the steps from `TryHold` to `DriveBuzzer` the rest of
`update_alert_indicators`, in its order, one pin at a time, since only the controller's lock is held
around a pin. `PulseStart`, `PulseEnd`, `PulseDrop` are a pulse thread, `Bite` and `BiteLate` watchdogs, `Restart` the
GPIO service. `Matrix` gives each pin its behaviors; `PTT` stands for the four behaviors held for any
broadcast, which the code treats alike.

Time is abstract: a marker may go stale and a watchdog bite at any moment, of a pin's watchdogs the older first. Left
out: flashing, interlock groups, hardware errors of a pin, minimum hold times (broadcasts are released with force), the
key's time to live (longer than the staleness).

| property | says | hazard |
|---|---|---|
| `KeyHasOwner` | between refreshes each pin that is on has someone to release it: a broadcast seen, the queue, a pulse, an operator, the buzzer | lost edges, adopted pulses, the fallback that keys all pins |
| `HeldIsKeyed` | a pin without pulses that is held for a broadcast is on, or its watchdog has dropped it | release of somebody else's hold |
| `MarkerOutlivesOthers` | a clean marker in its time goes with its own broadcast only, whatever overlapping or dead playouts end and the monitor reads, unless someone dumps | one key for all, compare-then-delete, read-then-delete |
| `RelayComesDown` | in the end no broadcast holds a pin, whoever died | producers that die, stale markers |

`MarkerOutlivesOthers` leaves out what is not `clean`, because there the code does erase the newer marker (`NewerMarkerSpared`,
section 10). It covers both orders of two overlapping playouts, a playout that begins beside the stale marker of a dead one
before anybody has read it, and one that begins after it was deleted.

Run `Relay`: a forwarded playout and another, a relay held for forwarded alerts only, a lamp that pulses, shows the queue and
is the buzzer, and one event (fault, dump, command, restart, death, alert, alarm). Two playouts are every overlap of two; a
third would find the marker as the second did. `FairSpec`: the refresh, which runs every second, the passing of time, and
producers that have not died. The watchdogs are not assumed to bite.

## 6. `AuditChain`, an implementation of `AppendOnlyLog`

A writer's transaction is `Insert` (the flush, which takes an id), `Chain` (the advisory lock, then the
hash of the highest committed id), `Commit` or `Fail`. A hash covers its row's id, so `prev` is the id of the row
whose hash was copied. `Purge` is what `purge_manual_eas_events` does once its row is committed. `Verify` walks the rows by id as
`verify_chain` does, over all rows or the newest `limit` of them (`Scanned`, `Seed`); rows from before the
migration (`Legacy`) have no hash and are passed over. Signatures are left out.

| property | says | hazard |
|---|---|---|
| `InOrderIsIntact` | rows committed in the order of their ids verify, whatever failed in between | writers racing for the lock, gaps in the ids |
| `ScopeAgrees` | a limited scan reports just the first bad row in its range | where the scan's expected hash comes from |
| `DeletionIsRecorded` | a deleted activation has its row | audit write that fails |
| `ImplementsLog` | no row changes, and each names one committed before it | rolled-back rows |

Run `Audit`: three writers, five ids, one old row, one activation; a fork takes three rows and a gap one more id.
Writers are symmetric. `AuditFork` is a finding, section 10. Only safety is claimed.

## 7. `RwtScheduler`

Each web worker runs `_run_loop`: `Poll` is a check up to the lock (`Ran`, `Slots`, `InWindow`), `Acquire` the `SET NX`, `Send`
or `Fail` `trigger_rwt_broadcast`, which records the run before its audio plays. `Press` is the test button, which takes no
lock. `Crash`, `Restart`, `Redis` are the faults; `Tick` is the clock.

Time is counted in minutes, and a week has few. A worker that is up polls once within every minute, some
seconds into it, which is why the last minute of a window is out of reach. Sending may take any number of minutes. The schedule stays as it
is; the lock outlives its week (8 days).

`OncePerWeek`: one automatic test a week, in spite of restarts, slow and failing sends, unless a worker could not ask
Redis. `SentIfDue`: a week in which a worker polled in a window after the slot does not end without a try,
so a slot slept through is caught up. Run `Rwt`: two workers, the button, two weeks of four minutes with two windows, two faults; a
slot may fall into either window, and one worker may die at it while the other sends. Only safety: `SentIfDue` says at each
week's end what should have happened in it.

## 8. `AudioSource`

One configured stream in the audio service. Its adapters are numbered; adding it again makes a new one. Two
threads work on adapters step by step: the command thread (`Command`, from the web pages' `Press`, `Create`, `Delete`) and a recovery
thread, started by the health monitor (`Evaluate`, `SpawnRecovery`) or the source watchdog (`Rescue`), of which
`spawn_recovery` allows one at a time. `at[p].todo` is what the thread has left of
`stop`, `start` and `restart`: `Stop`, `Halt` (the join, with a limit, and the decoder's end), `Start`, `Calm`, `Open`,
`Spawn`, `Judge`. `Loop` and `Body` are a capture thread's turn: it looks at `_stop_event`, then reads or, if it finds no
decoder, `Relaunch`es one, which may be too soon after the last, fail or be refused, and which writes RUNNING whatever the status
has become in between. `DecoderExits` is a decoder that ends by itself, `Refused` the thread that reads its errors, `Stream` the
remote end.

Counters (failed restarts, stalls, back-off) are abstract: any failure may be the one that brings the quarantine, which may end at any
time. Assignments that follow each other at once are one step, and the watchdog's look and decision are another. The source
stays enabled, the service up, and no command is lost.

`OneLoop`: an adapter has at most one capture loop. `RemovedIsQuiet`: an adapter out of the registry captures no
more once its stop is over. Both leave out an adapter that is `tangled`: handled by two threads at once, or with a join that
ran out of time. `RemovedIsQuiet` also leaves out one that is `revived`: a restart that the health monitor had decided on
before the removal was begun after it. `OneLoop` does not. The code does nothing against these three and the model shows
what follows: a second loop on the same decoder, or a removed adapter that captures again (`RemovedStaysOff`, section 10). So the
properties say that these are the only ways to it. What remains in them are several threads in turn, the capture
thread, the decoder's own exits and the stream against one `stop` or `start`.

A relaunch that writes RUNNING over the `STOPPED` of `stop()` is in the model for every adapter. The loop ends all the same, so
the two properties hold; the status lies (`RunningHasLoop`, section 10).

Run `Source`: one request and one fault (a broken stream or a long join) against both watchers, with decoders that end, and
relaunches that fail, as often as they like, so that ERROR and restarts come again and again; two adapters, two
loops each, which is what the properties tell apart. Its state constraint `SomeStrict` ends a behaviour once every adapter is
tangled and no other can be made, because neither property says anything from there on. Only safety.

## 9. Proofs

Each `_proofs` module states its inductive invariant first, then one lemma per action or group of actions, then the
theorems. TLC checked the invariants on the runs' instances before they were proved. All holds for any values of the
constants that meet the named assumptions, where the runs have two or three of each.

`AlertForwarding_proofs`, for any sets of alerts, threads, operators and counties and any bounds:

* `TypeCorrect`: `Spec => []TypeOK`. The inductive form adds that only a thread with a job has
  left its idle place, which is what lets a step apply `Event` and `Fips` to an alert.
* `LockedCheckHolds`: `Spec => []LockedCheckStaysTrue`. The property is not inductive: it must be
  known that a new record is of another key, hence `LockExcludes` (two holders
  have different keys), that a holder is between the lock and the commit
  (`HoldersBusy`), and that a thread that records a county-bearing alert which
  deduplicates has the lock (`PastLockHolds`). The step that matters is another thread's `Record`:
  it either holds a lock of another key or records an upgrade, which the property leaves out.
* `CancelInTimeHolds`: `Spec => CancelInTimeIsFinal`. The invariant says that for
  an alert cancelled in time the row stays cancelled and no thread is bound to the alert (`VetoHolds`),
  which needs that a listed or requested row exists (`ListedHasRow`, `RequestHasRow`) and that
  an alert with a row is not one that bypasses the gate (`HeldNotBypassing`). It is
  preserved because every way of becoming bound reads the row: a sweep's query,
  an operator's `Open`, the gate itself (lemmas `MoveForms`, `PipelineBinds`, `OthersBind`).
* `IssuanceAiredOnce`: `Spec => []AiredOnce`. What is on the air is taken together with the threads that
  have recorded and are about to play (`OneAiring`, of every two copies of an issuance), all of it is
  recorded (`HeardRecorded`), and a record is still in the window or its alert counts as
  lapsed. The step that matters is `Record`: its thread holds the lock (`PastLockHolds`), so what the check
  found is still so (`LockedCheckStaysTrue`), so no copy is recorded (lemma `RecordSeen`), so none is on the air or about to be.
* `OriginalAired`: `Spec => [](crashes = 0 => DuplicateHasOriginal)`. Without a crash every record is heard or
  about to be, and a verdict of duplicate found a record. The condition is the run's (`ForwardDedup` has no crash):
  a crash between record and player leaves a record nobody heard, which section 10 counts among the findings.
* `HoldOffObserved`: `Spec => HoldOffHonoured`, if one decoder thread runs (`OneMonitor`, as in the
  service) or every relay the gate applies to names a county of the coverage (`RelaysCovered`: it was
  matched by such a county and not by a state-wide code).
  A replay works on a resolved row and saw it so (`RowResolved`), no row is pending for what a thread took past the gate (`NotHeld`),
  and timers release what was due when they listed it (`ReleasedDue`). `NotHeld` could fail where one thread takes a relay past a gate that
  is off, the gate is switched on, and another thread makes the relay's row. Two decoder threads do not get there with one relay, because the
  second waits for the lock or finds the record of the first (`OneDecoder`); with no county to lock on and to
  compare they do, and TLC shows it with two decoder threads and `Fips` empty.

`ThreadSteps` gives the last three their cases: what a step does to the thread that makes it and to the others.

`BroadcastQueue_proofs`, for any publishers, subscribers, queue sizes and numbers of chunks:

* `TypeCorrect`: `Spec => []TypeOK`, with it that no queue outgrows its size.
* `OrderKept`: `Spec => []InOrder`. Not inductive: a chunk that is yet to be put must be newer than
  all of its publisher in the queue (`Pending`), and nobody has heard a chunk not yet published
  (`TakenSent`). Each action then either appends such a chunk or takes away heads, and the lemmas
  `ServeOrder` and `DropOrder` say that both keep the order.
* `FanoutImplemented`: `Spec => ImplementsFanout`. A `Get` is a `Hear`, because the head of an ordered
  queue is newer than what was heard; a `Publish` is a `Publish`; everything else stutters.

`StreamInjector_proofs`, for any alerts, numbers of chunks and live audio: `TypeCorrect`, `GateIsHeld`
(`GateHeld`), `ChunksInOrder` (`Sequenced`), `FirstLostAtMost` (`OnlyFirstLost`), `StrayAtMost` (`OneStray`). What is
written, buffered, queued and in the encoder is one sequence, `Air`. An action thins it (a flush, a
dropped pre-buffer) or appends to it (`Thins`, with one lemma for each property that thinning keeps); moving a chunk
from one place to the next leaves it as it is. `Ordered`: the chunks of an alert ascend and none
is ahead of its injection. `Unmixed`: an injection
that is alone is the only one under way. `Kept`: of such an injection all from the second on are there, and while the streamer has not
seen the new sequence number it has taken the first at most. `Shut`: while such an injection
lasts, the gate is closed, and the capture loop has a chunk in hand or one published since, not both.

`RelayKeying_proofs`, for any broadcasts, pins and behavior matrix: `TypeCorrect`, `OwnerForEveryPin`
(`KeyHasOwner`), `HoldKeepsKeyed` (`HeldIsKeyed`), `MarkerKept` (`MarkerOutlivesOthers`). The properties look at
the monitor between two refreshes; a refresh takes many steps. The invariant gives a pin that is on an
owner at every one of them (`Owned`): a hold, a pulse, a hand, the buzzer, or the refresh, which has yet to
drop it (`todo`), is adopting it, or has seen a broadcast that nobody manages. The rest says
that where the refresh is fits what it saw (`PlaceFits`), that holds are of assigned behaviors and do not outlast
their broadcast (`BroadcastHolds`, `GateHolds`), and that while a clean marker is in its time the only
playout about to delete it is its own, and the monitor is not (`MarkersKnown`).

`OffAirMonitor_proofs`, for any stations and programmes: `TypeCorrect`, `RecordingKept` (`RecordingWhole`), `HeaderFirst`
(`StartsAtHeader`), `OnlyHeardForwarded` (`ForwardedWasHeard`), `DispatchedOnce` (`OnceUnlessTimedOut`).
The recording is followed from the end of its ring (`Back`, `Holds`): each chunk moves the header it began
with back by one place, until the ring is full. That an alert is dispatched once unless it timed out
follows from order: a queue keeps the order of its programme and the EOM is the last of its alert (`Queued`), nothing before a parked alert is still to
come (`Parked`), and after a dispatch on EOM nothing of the alert, or of one before, is (`Finished`).

`AuditChain_proofs`, for any writers, activations and numbers of rows: `TypeCorrect`, `DeletionsRecorded`
(`DeletionIsRecorded`), `LogImplemented` (`ImplementsLog`), `InOrderVerifies` (`InOrderIsIntact`),
`ScopesAgree` (`ScopeAgrees`). An id that was given out is not committed and is of one transaction (`IdsFresh`); a
writer that has copied the newest hash has the lock, so that the hash is still the newest when it
commits (`ChainedHolds`); hence, as long as commits are in the order of ids, every row links to the one before
(`LinkedIfInOrder`). The refinement: a commit is an `Add`, everything else stutters. `Verify` is a recursive function over the
ids; that there is such a function (`RecursionExists`), how far its walk gets (`WalkProgress`) and that it
reports the first broken row (`VerifyFindsFirst`) follow from the existence of a least id (`LeastExists`), which the library's
well-foundedness of `Nat` gives without the induction rules.

`RwtScheduler_proofs`, for any workers, requests, weeks and windows: `TypeCorrect`, `OneTestAWeek` (`OncePerWeek`),
`DueIsTried` (`SentIfDue`). A week whose test was sent has its key in Redis, and one scheduler at most,
which has the key too, is still to send it (`KeyGuards`). Like `OncePerWeek` that is said of the weeks in which Redis was there. A worker that has
polled in a window either found the week tried or is about to try it, and is still in the minute it saw (`PolledSees`, `DueIsNow`).

`AudioSource_proofs`, for any number of requests, faults and capture loops: `TypeCorrect`, `OneLoopEach`
(`OneLoop`), `RemovedStaysQuiet` (`RemovedIsQuiet`). A thread works off a list of steps, and `Orderly` says in which order
they come. Of an adapter that only one thread handles at a time (`Strict`), whether it captures, has a loop, has an old one
or is stopped follows from the step that thread is at (`Governed`), and one that is not in the registry is
either quiet or at the stop that makes it so (`Removed`), unless `revived`. `Requested`, that there are no more adapters than requests, keeps the types.

**Assumptions.** Those of the modules, each named where its constants are declared and evaluated by TLC in every run: the threads are different threads
(`ThreadsAssumption`); CAP alerts and relays are disjoint, upgrades and cancellations are CAP alerts
(`AlertsAssumption`); queues, windows and weeks are not empty, sizes and bounds are numbers (`BoundsAssumption`, the
`SizesAssumption`s, `ChunksAssumption`, `LegacyAssumption`); an alert is one transmission of one station
(`ProgrammeAssumption`); the matrix maps pins to behaviors (`RelayKeying`'s `ConstantsAssumption`);
each request can make one adapter (`AudioSource`'s); stand-in values such as `None`
are none of the values they stand beside. `HoldOffObserved` has a hypothesis of its own, and the formula
of `OriginalAired` a condition; both are explained above.

**Only model-checked.** The liveness properties: `EveryAlertDecided`, `HoldEnds`, `LockFreed`, `PublishEnds`,
`RelayComesDown`, `ParkedIsDispatched`. Fairness is stated with `ENABLED`, which the prover
cannot treat.

## 10. Findings

Each is a run that TLC refutes; `PROJECT.json` quotes the sentence the code contradicts.

* `ForwardLateCancel`: the CAP sweep releases every row it has listed, though a broadcast of an
  earlier one may take minutes; a cancel committed meanwhile is overwritten and the alert airs.
* `AuditFork`: ids are given out before the lock is taken. When the later id commits first, the earlier one links to
  it, and so does the next: a fork, which `verify_chain` reports as a mismatch of a log nobody touched.

Properties that the documents or comments promise and the code does not keep are stated at the end of their
modules; TLC refutes each when it is put into the configuration named, and none is among the runs:

* `ReleaseIsDecided` (`ForwardLive` without relays): the release commits before the replay; after a crash in between neither
  the sweep nor the catch-up finds the alert again, and it never airs.
* `NoRepeatAcrossSources` (`AlertForwarding`, with `Fips <- WideArea`): an alert wider than the coverage area, relayed first, is
  repeated by the CAP path, which compares the full county set with a header cut to the coverage.
* `CancelledStaysCancelled` (`ForwardDedup`): re-polling an alert cancelled by reference makes it `Actual`
  again, and the Cancel, polled again, skips it.
* `NoneForgotten` (`ForwardLive` with `Undated = {c1}`): the catch-up "for alerts that never received one" asks for rows that have an
  expiry, so an alert without one whose pipeline died after the insert is never decided.
* `NotCutShort` (`StreamInjector`, a relay and a manual send): an injection flushes the queues, and with them whatever the
  streamer has yet to take of an earlier alert, including its end-of-message.
* `NewerMarkerSpared` (`Relay`): a reader that has found a dead playout's marker stale, or a producer that has found its own,
  deletes the key afterwards, whatever it holds by then; so does a producer that could not read it. The relay drops under the newer broadcast.
* `RemovedStaysOff` (`Source`): the health monitor decides on a restart, a delete removes and stops the source, and the
  recovery then starts the adapter that nobody can reach any more.
* `RunningHasLoop` (`Source`): a capture loop past its look at `_stop_event` relaunches the decoder and writes RUNNING over the `STOPPED` of
  `stop()`, then ends; the source shows as running, and the health monitor may take it for stalled and start it again.
* `WatchdogIsLate` (`Relay`): the watchdog thread of an activation that is over is forgotten, not stopped, and drops a later one early.
* `BuzzerHeld` (`Relay`): a pin that the buzzer shares with another behavior is switched off by it and not on again.
* `NoFalseEdge` (`Relay`): a failed read of Redis counts as "no broadcast" and releases the relay in mid-broadcast; the code that would
  keep the previous state never sees the error, which `get_broadcast_state` has caught.
* `NeverDropped` (`OffAirMonitor`): after a lost EOM the next header of another event takes the parked alert's place, and one of the same event is
  taken for its repetition; the first alert is not forwarded.
* `NoWeekLost` (`Rwt`): a slot at the last minute of the week's last window is never reached, and the week passes without a test.

Reachable in the models too:

* A held original that an Update superseded airs when its timer ends: nothing on the release path
  reads `superseded_by_id` (`auto_forward.py:623-626` says the original is replaced).
* After a crash between record and playout, the retry takes its own `EASMessage` for an earlier broadcast, stamps
  the alert a duplicate and never airs it (`DuplicateHasOriginal` with `MaxCrashes = 1`).
* A streamer waiting for a chunk when an injection starts takes the alert's first chunk, then notices the
  injection and drops its pre-buffer with that chunk in it; hence "but its first" in `OnlyFirstLost`.
* Two injections share a gate without an owner: the first to end opens it for the live program under the second,
  and an abort does not stop an injection that is still publishing.
* Between dropping the oldest chunk and putting the new one, a second publisher can take the place; the new chunk
  is then lost as well (`GiveUp`).
* A dump clears the marker without naming a broadcast, long after it looked: one that has begun meanwhile loses its relay.
* An off-air alert whose broadcast takes long is dispatched by timeout when its EOM already waits in the queue; a last burst behind it is
  then taken for a new alert (hence "unless timed out").

## 11. Not modelled

The repository has some 220000 lines, most of them web pages and their handlers, device drivers, signal processing, reports
and migrations. The models cover the part where several actors share state, which is small. Left out, and why:

* Feed fetching, XML parsing, geographic filters and intersections, the VTEC repair sweeps: sequential data processing by
  the poll thread, whose results (`Filtered`, `Replaces`) are constants of the model.
* Audio synthesis, SAME demodulation, resampling, the quality check of narrations: signal processing.
* Priority failover, SDR receivers and other adapters: the adapters share the base class that
  is modelled; the rest is device I/O. Several sources per injection are left out, too.
* Composition of operators' messages, notifications, ENDEC feeds: I/O before or after the decision.
* Flashing and interlock groups of relays; GPIO input debouncing.
* Lost or repeated Redis commands and their answers.
* Login protection, dead-air detection, retention: counters, timers, one transaction each.
* Displays, GPS, Zigbee, network, hardware setup, web pages, analytics, migrations, text-to-speech.

The hazards the project works from are listed in `PROJECT.json`, with a note where no property covers one; of the parts in this section only those nearest to a modelled one are listed.
