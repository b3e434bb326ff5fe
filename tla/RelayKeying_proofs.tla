-------------------------- MODULE RelayKeying_proofs --------------------------
(***************************************************************************)
(* Proofs about RelayKeying, for any broadcasts, pins and behavior matrix. *)
(* A pin that is on has an owner at every point of the monitor's refresh,  *)
(* and not only between two refreshes; what the refresh has still to do    *)
(* stands in for the owner it is about to take away.                       *)
(***************************************************************************)
EXTENDS RelayKeying, TLAPS

-----------------------------------------------------------------------------
(* The inductive invariant.                                                *)

Holder(p) == hold[p] \cap Releasable # {}
Trying == mon \in {"refused", "adopt"}

\* The place of the refresh goes with the edge it has seen, and the pin it tries
\* to hold with a behavior that is assigned to it.
PlaceFits ==
    /\ Trying => /\ cur \in Pins \X Holding
                 /\ cur[2] \in Matrix[cur[1]]
                 /\ IF cur[2] = "GATE_PENDING" THEN flags.gate ELSE flags.broadcast
    /\ mon = "hold" => flags.broadcast
    /\ mon = "fallback" => flags.broadcast /\ ~managed
    /\ mon = "release" => ~flags.broadcast
    /\ mon = "off" => ~flags.broadcast /\ ~managed

\* Pins are held, or about to be, by behaviors that are assigned to them.
HoldsAssigned ==
    /\ \A p \in Pins : hold[p] \subseteq Matrix[p]
    /\ \A t \in todo : t[2] # "ALL" => t[2] \in Matrix[t[1]]

\* A hold for a broadcast makes the broadcast managed, and does not outlast it.
BroadcastHolds ==
    \A p \in Pins :
        /\ Holder(p) => managed
        /\ ~flags.broadcast =>
              \A k \in hold[p] \cap Releasable : mon = "release" /\ <<p, k>> \in todo

\* A hold for the Pending queue does not outlast it.
GateHolds ==
    \A p \in Pins :
        "GATE_PENDING" \in hold[p] /\ ~flags.gate =>
            <<p, "GATE_PENDING">> \in todo /\ mon \notin {"idle", "drop", "buzzer"}

\* A broadcast nobody manages has keyed the pin, or is about to be over for it.
KeyedUnmanaged(p) ==
    /\ ~managed
    /\ \/ /\ flags.broadcast /\ mon # "hold"
          /\ Trying => cur[2] = "GATE_PENDING"
       \/ mon = "release"
       \/ mon = "off" /\ <<p, "ALL">> \in todo

Owned(p) ==
    \/ hold[p] # {}
    \/ KeyedUnmanaged(p)
    \/ pulse[p].sleep + pulse[p].drop > 0
    \/ p \in byHand
    \/ p = Buzzer /\ sounding
    \/ mon = "adopt" /\ cur[1] = p

ActiveOwned == \A p \in Pins : Active(p) => Owned(p)

\* Pins that only a broadcast keys: held, or about to be, they are not off.
Steady(p) ==
    p \notin Commanded \cup {Buzzer} /\ Matrix[p] \cap {"INCOMING_ALERT", "FIVE_SECONDS"} = {}

NotPulsed(p) == pulse[p].start = 0 /\ pulse[p].sleep = 0 /\ pulse[p].drop = 0
KeyedIfHeld(p) ==
    Holder(p) \/ (mon = "adopt" /\ cur[1] = p) => state[p] # "INACTIVE"
SteadyKeyed == \A p \in Pins : Steady(p) => NotPulsed(p) /\ KeyedIfHeld(p)

\* A marker in its time that was written when nobody was about to delete one: none
\* but its own broadcast's end has come to that since.
Markers == [of : Broadcasts, stale : BOOLEAN, clean : BOOLEAN]
Secure == marker # None /\ ~marker.stale /\ marker.clean
MarkersKnown ==
    Secure => mon # "drop" /\ \A c \in Broadcasts : phase[c] = "delete" => c = marker.of

RefreshInv ==
    PlaceFits /\ HoldsAssigned /\ BroadcastHolds /\ GateHolds /\ ActiveOwned /\ SteadyKeyed
Inv == TypeOK /\ RefreshInv /\ MarkersKnown

LEMMA InitInv == Init => Inv
  <1> SUFFICES ASSUME Init PROVE Inv OBVIOUS
  <1> USE ConstantsAssumption
  <1>1. TypeOK
    <2>1. /\ state \in [Pins -> {"INACTIVE", "ACTIVE", "WATCHDOG_TIMEOUT"}]
          /\ hold \in [Pins -> SUBSET Holding]
          /\ pulse \in [Pins -> [start : Nat, sleep : Nat, drop : Nat]]
          /\ phase \in [Broadcasts -> Phases]
      BY DEF Init, Phases
    <2>2. /\ {incoming, pending, silent, sounding} \subseteq BOOLEAN /\ managed \in BOOLEAN
          /\ flags \in [broadcast : BOOLEAN, incoming : BOOLEAN, gate : BOOLEAN]
      BY DEF Init
    <2>3. spent \in 0..MaxEvents /\ old \subseteq Pins /\ byHand \subseteq Pins BY DEF Init
    <2>q. QED BY <2>1, <2>2, <2>3 DEF Init, TypeOK, Places
  <1>2. PlaceFits /\ HoldsAssigned /\ MarkersKnown
    BY DEF Init, PlaceFits, HoldsAssigned, MarkersKnown, Secure, Trying
  <1>3. BroadcastHolds /\ GateHolds BY DEF Init, BroadcastHolds, GateHolds, Holder
  <1>4. ActiveOwned /\ SteadyKeyed 
    BY DEF Init, ActiveOwned, SteadyKeyed, NotPulsed, KeyedIfHeld, Active, Holder
  <1>q. QED BY <1>1, <1>2, <1>3, <1>4 DEF Inv, RefreshInv

-----------------------------------------------------------------------------
(* The steps, by what they change.                                         *)

PinStep(p) == Pulse(p) \/ Bite(p) \/ BiteLate(p) \/ SwitchOn(p) \/ SwitchOff(p)

\* A reading of the marker finds what it finds, or goes on to drop it.
Reading ==
    /\ mon \in {"idle", "drop"}
    /\ \/ \E seen \in Broadcasts \cup {None} : Edges(seen)
       \/ mon = "idle" /\ mon' = "drop"
          /\ UNCHANGED <<todo, cur, flags, managed, sounding, pinVars, mgrVars>>

Handling == TryHold \/ LookAgain \/ Adopt \/ KeyNext \/ Release \/ UnkeyNext \/ Advance \/ DriveBuzzer

LEMMA StepKinds ==
    TypeOK /\ [Next]_vars =>
        \/ Reading \/ Handling \/ Restart
        \/ \E p \in Pins : PinStep(p)
        \/ UNCHANGED <<monVars, pinVars, mgrVars>>
  <1> SUFFICES ASSUME TypeOK, [Next]_vars
               PROVE  \/ Reading \/ Handling \/ Restart
                      \/ \E p \in Pins : PinStep(p)
                      \/ UNCHANGED <<monVars, pinVars, mgrVars>>
    OBVIOUS
  <1>1. ASSUME NEW b \in Broadcasts,
               SetActive(b) \/ SetActiveFails(b) \/ Produce(b) \/ ReadOwnerFails(b) \/ Die(b)
        PROVE  UNCHANGED <<monVars, pinVars, mgrVars>>
    BY <1>1 DEF SetActive, SetActiveFails, Produce, PlayoutOver, ReadOwner, DeleteMarker,
                ReadOwnerFails, Die, Goes
  <1>2. Age \/ DumpStart \/ DumpEnd \/ World => UNCHANGED <<monVars, pinVars, mgrVars>>
    BY DEF Age, DumpStart, DumpEnd, World
  <1>3. ReadMarker => Reading
    <2>1. marker # None => marker.of \in Broadcasts BY DEF TypeOK
    <2>q. QED BY <2>1 DEF ReadMarker, Reading, At
  <1>4. DropMarker \/ ReadFails => Reading BY DEF DropMarker, ReadFails, Reading, At
  <1>q. QED BY <1>1, <1>2, <1>3, <1>4 DEF Next, Refresh, Handling, PinStep, vars

LEMMA TypeNext == TypeOK /\ PlaceFits /\ [Next]_vars => TypeOK'
  <1> SUFFICES ASSUME TypeOK, PlaceFits, [Next]_vars PROVE TypeOK' OBVIOUS
  <1> USE ConstantsAssumption DEF Markers
  <1> DEFINE TypeRedis == /\ marker \in {None} \cup Markers
                          /\ phase \in [Broadcasts -> Phases]
                          /\ dump \in {"idle", "cutting"}
                          /\ {incoming, pending, silent} \subseteq BOOLEAN
             TypeMon == /\ mon \in Places /\ sounding \in BOOLEAN
                        /\ todo \subseteq Pins \X (Holding \cup {"ALL"})
                        /\ cur \in {None} \cup (Pins \X Holding)
                        /\ flags \in [broadcast : BOOLEAN, incoming : BOOLEAN, gate : BOOLEAN]
                        /\ managed \in BOOLEAN
             TypePins == /\ state \in [Pins -> {"INACTIVE", "ACTIVE", "WATCHDOG_TIMEOUT"}]
                         /\ old \subseteq Pins
                         /\ byHand \subseteq Pins
             TypeMgr == /\ hold \in [Pins -> SUBSET Holding]
                        /\ pulse \in [Pins -> [start : Nat, sleep : Nat, drop : Nat]]
  <1>a. TypeRedis /\ TypeMon /\ TypePins /\ TypeMgr /\ spent \in 0..MaxEvents BY DEF TypeOK, Markers
  <1>b. spent' \in 0..MaxEvents
    <2>1. Event \/ spent' = spent
      BY DEF Next, SetActive, SetActiveFails, Produce, PlayoutOver, ReadOwner, DeleteMarker,
             ReadOwnerFails, Die, Age, DumpStart, DumpEnd, World, Refresh, ReadMarker,
             DropMarker, ReadFails, TryHold, LookAgain, Adopt, KeyNext, Release, UnkeyNext, Advance,
             DriveBuzzer, Pulse, PulseStart, PulseEnd, PulseDrop, Bite, BiteLate, Dropped,
             SwitchOn, SwitchOff, Restart, vars
    <2>2. Event => spent' \in 0..MaxEvents BY <1>a DEF Event
    <2>q. QED BY <1>a, <2>1, <2>2
  <1>c. TypeRedis'
    <2> USE DEF Goes, Quiet, Edges, redisVars, Phases
    <2>1. ASSUME NEW b \in Broadcasts,
                 SetActive(b) \/ SetActiveFails(b) \/ Produce(b) \/ ReadOwnerFails(b) \/ Die(b)
          PROVE  TypeRedis'
      <3> USE DEF SetActive, SetActiveFails, Produce, PlayoutOver, ReadOwner, DeleteMarker,
                  ReadOwnerFails, Die
      <3>t. marker = None \/ marker \in Markers BY <1>a
      <3>1. SetActive(b) => marker' \in Markers OBVIOUS
      <3>o. ReadOwnerFails(b) => marker' = None \/ marker' \in Markers BY <3>t
      <3>0. marker' = marker \/ marker' = None \/ marker' \in Markers BY <2>1, <3>1, <3>o
      <3>2. UNCHANGED <<dump, pending, silent>> /\ incoming' \in {incoming, FALSE} BY <2>1
      <3>3. phase' \in [Broadcasts -> Phases] BY <1>a, <2>1
      <3> HIDE DEF SetActive, SetActiveFails, Produce, PlayoutOver, ReadOwner, DeleteMarker,
                  ReadOwnerFails, Die
      <3>4. marker' \in {None} \cup Markers BY <3>t, <3>0
      <3>5. dump' \in {"idle", "cutting"} /\ {incoming', pending', silent'} \subseteq BOOLEAN
        BY <1>a, <3>2
      <3>q. QED BY <3>3, <3>4, <3>5
    <2>2. CASE Age \/ DumpStart \/ DumpEnd \/ World
      <3>1. CASE Age
        <4>1. marker \in Markers BY <1>a, <3>1 DEF Age
        <4>2. marker' \in Markers BY <3>1, <4>1 DEF Age, Markers
        <4>q. QED BY <1>a, <3>1, <4>2 DEF Age
      <3>2. CASE DumpStart
        <4>1. marker.of \in Broadcasts BY <1>a, <3>2 DEF DumpStart, Markers
        <4>q. QED BY <1>a, <3>2, <4>1 DEF DumpStart
      <3>3. CASE DumpEnd BY <1>a, <3>3 DEF DumpEnd
      <3>4. CASE World
        <4>1. {incoming', pending', silent'} \subseteq BOOLEAN BY <1>a, <3>4 DEF World
        <4>q. QED BY <1>a, <3>4, <4>1 DEF World
      <3>q. QED BY <2>2, <3>1, <3>2, <3>3, <3>4
    <2>3. CASE ReadMarker \/ DropMarker \/ ReadFails
      <3>1. marker' \in {marker, None} BY <2>3 DEF ReadMarker, DropMarker, ReadFails
      <3>2. UNCHANGED <<phase, dump, incoming, pending, silent>>
        BY <2>3 DEF ReadMarker, DropMarker, ReadFails
      <3>q. QED BY <1>a, <3>1, <3>2
    <2>4. CASE Handling
      BY <1>a, <2>4 DEF Handling, TryHold, LookAgain, Adopt, KeyNext, Release, UnkeyNext, Advance,
                        DriveBuzzer
    <2>5. ASSUME NEW p \in Pins, PinStep(p) PROVE TypeRedis'
      BY <1>a, <2>5 DEF PinStep, Pulse, PulseStart, PulseEnd, PulseDrop, Bite, BiteLate, Dropped,
                        SwitchOn, SwitchOff
    <2>6. CASE Restart \/ UNCHANGED vars BY <1>a, <2>6 DEF Restart, vars
    <2>q. QED BY <2>1, <2>2, <2>3, <2>4, <2>5, <2>6 DEF Next, Refresh, Handling, PinStep
  <1>k. ASSUME NEW p \in Pins, Key(p) \/ Unkey(p), byHand' \subseteq Pins PROVE TypePins'
    BY <1>a, <1>k DEF Key, Unkey
  <1>p. ASSUME NEW k, Pulsing(k) PROVE pulse' \in [Pins -> [start : Nat, sleep : Nat, drop : Nat]]
    BY <1>a, <1>p DEF Pulsing
  <1>1. CASE Reading
    <2>1. ASSUME NEW seen \in Broadcasts \cup {None}, Edges(seen)
          PROVE  TypeMon' /\ TypePins' /\ TypeMgr'
      <3>1. TypePins' BY <1>a, <2>1 DEF Edges, pinVars
      <3>2. TypeMgr' BY <1>a, <1>p, <2>1 DEF Edges
      <3>3. flags' \in [broadcast : BOOLEAN, incoming : BOOLEAN, gate : BOOLEAN]
            /\ managed' \in BOOLEAN /\ sounding' \in BOOLEAN /\ mon' \in Places
        BY <1>a, <2>1 DEF Edges, Places
      <3>4. todo' \subseteq Pins \X (Holding \cup {"ALL"})
        <4>1. \A kinds : Assigned(kinds) \subseteq Pins \X (Holding \cup {"ALL"}) BY DEF Assigned
        <4>q. QED BY <2>1, <4>1 DEF Edges
      <3>q. QED BY <1>a, <2>1, <3>1, <3>2, <3>3, <3>4 DEF Edges
    <2>2. CASE /\ mon' = "drop"
               /\ UNCHANGED <<todo, cur, flags, managed, sounding, pinVars, mgrVars>>
      <3>1. TypeMon' BY <1>a, <2>2 DEF Places
      <3>q. QED BY <1>a, <1>b, <1>c, <2>2, <3>1 DEF pinVars, mgrVars, TypeOK
    <2>q. QED BY <1>1, <1>b, <1>c, <2>1, <2>2 DEF Reading, TypeOK
  <1>2. CASE Handling
    <2>w. Work \subseteq todo BY DEF Work
    <2>1. CASE TryHold
      <3>1. PICK t \in Work : todo' = todo \ {t}
            /\ IF t[2] \in hold[t[1]]
               THEN /\ managed' = (managed \/ At("hold"))
                    /\ UNCHANGED <<mon, cur, state, old>>
               ELSE /\ cur' = t
                    /\ mon' = IF Active(t[1]) THEN "refused" ELSE "adopt"
                    /\ IF Active(t[1]) THEN UNCHANGED <<state, old>> ELSE Key(t[1])
                    /\ UNCHANGED managed
        BY <2>1 DEF TryHold
      <3>2. t \in Pins \X Holding /\ t[1] \in Pins
        BY <1>a, <2>1, <2>w, <3>1 DEF TryHold, Work, At, Holding
      <3>3. TypePins'
        BY <1>a, <1>k, <2>1, <3>1, <3>2 DEF TryHold
      <3>4. TypeMon' BY <1>a, <2>1, <3>1, <3>2 DEF TryHold, Places, At
      <3>q. QED BY <1>a, <1>b, <1>c, <2>1, <3>3, <3>4 DEF TryHold, TypeOK, mgrVars
    <2>2. CASE LookAgain \/ Adopt
      <3>1. cur \in Pins \X Holding BY <1>a, <2>2 DEF LookAgain, Adopt, PlaceFits, Trying, At
      <3>2. Back \in Places BY DEF Back, Places
      <3>3. TypeMon' BY <1>a, <2>2, <3>2 DEF LookAgain, Adopt, Places
      <3>4. TypePins' /\ TypeMgr' BY <1>a, <2>2, <3>1 DEF LookAgain, Adopt, pinVars, mgrVars
      <3>q. QED BY <1>b, <1>c, <3>3, <3>4 DEF TypeOK
    <2>3. CASE KeyNext
      <3>1. PICK t \in Work : todo' = todo \ {t}
                              /\ IF Active(t[1]) THEN UNCHANGED <<state, old>> ELSE Key(t[1])
        BY <2>3 DEF KeyNext
      <3>2. t[1] \in Pins BY <1>a, <2>w, <3>1
      <3>3. TypePins' BY <1>a, <1>k, <2>3, <3>1, <3>2 DEF KeyNext
      <3>q. QED BY <1>a, <1>b, <1>c, <2>3, <3>1, <3>3 DEF KeyNext, TypeOK, mgrVars
    <2>4. CASE Release
      <3>1. PICK t \in Work : /\ todo' = todo \ {t}
                              /\ hold' = [hold EXCEPT ![t[1]] = @ \ {t[2]}]
                              /\ IF hold[t[1]] = {t[2]} THEN Unkey(t[1]) ELSE UNCHANGED pinVars
        BY <2>4 DEF Release
      <3>2. t[1] \in Pins BY <1>a, <2>w, <3>1
      <3>3. TypePins' BY <1>a, <1>k, <3>1, <3>2 DEF Unkey, pinVars
      <3>4. hold' \in [Pins -> SUBSET Holding] BY <1>a, <3>1, <3>2
      <3>q. QED BY <1>a, <1>b, <1>c, <2>4, <3>1, <3>3, <3>4 DEF Release, TypeOK
    <2>5. CASE UnkeyNext
      <3>1. PICK t \in Work : todo' = todo \ {t} /\ Unkey(t[1]) BY <2>5 DEF UnkeyNext
      <3>2. t[1] \in Pins BY <1>a, <2>w, <3>1
      <3>3. TypePins' BY <1>a, <1>k, <3>1, <3>2 DEF Unkey
      <3>q. QED BY <1>a, <1>b, <1>c, <2>5, <3>1, <3>3 DEF UnkeyNext, TypeOK, mgrVars
    <2>6. CASE Advance
      <3>1. mon' \in Places /\ todo' \subseteq Pins \X (Holding \cup {"ALL"})
        BY <1>a, <2>6 DEF Advance, All, At, Places
      <3>2. TypeMgr' BY <1>a, <1>p, <2>6 DEF Advance
      <3>q. QED BY <1>a, <1>b, <1>c, <2>6, <3>1, <3>2 DEF Advance, TypeOK, pinVars
    <2>7. CASE DriveBuzzer
      <3>1. TypePins' BY <1>a, <1>k, <2>7 DEF DriveBuzzer, Unkey, pinVars
      <3>2. TypeMon' /\ TypeMgr' BY <1>a, <2>7 DEF DriveBuzzer, mgrVars, Places
      <3>q. QED BY <1>b, <1>c, <3>1, <3>2 DEF TypeOK
    <2>q. QED BY <1>2, <2>1, <2>2, <2>3, <2>4, <2>5, <2>6, <2>7 DEF Handling
  <1>3. ASSUME NEW p \in Pins, PinStep(p) PROVE TypeOK'
    <2>1. TypeMon' BY <1>a, <1>3 DEF PinStep, Pulse, PulseStart, PulseEnd, PulseDrop, Bite, BiteLate,
                                     Dropped, SwitchOn, SwitchOff, monVars
    <2>2. CASE Pulse(p)
      <3>1. pulse[p] \in [start : Nat, sleep : Nat, drop : Nat] BY <1>a
      <3>2. pulse' \in [Pins -> [start : Nat, sleep : Nat, drop : Nat]]
        <4>1. pulse \in [Pins -> [start : Nat, sleep : Nat, drop : Nat]] BY <1>a
        <4> HIDE DEF TypeRedis, TypeMon, TypePins, TypeMgr, Markers
        <4>2. CASE PulseStart(p)
          <5>1. PICK n \in Nat : pulse' = [pulse EXCEPT ![p].start = @ - 1, ![p].sleep = @ + n]
            BY <4>2 DEF PulseStart
          <5>2. pulse[p].start - 1 \in Nat /\ pulse[p].sleep + n \in Nat
            BY <3>1, <4>2 DEF PulseStart
          <5>q. QED BY <3>1, <4>1, <5>1, <5>2
        <4>3. CASE PulseEnd(p)
          <5>1. PICK n \in Nat : pulse' = [pulse EXCEPT ![p].sleep = @ - 1, ![p].drop = @ + n]
            BY <4>3 DEF PulseEnd
          <5>2. pulse[p].sleep - 1 \in Nat /\ pulse[p].drop + n \in Nat
            BY <3>1, <4>3 DEF PulseEnd
          <5>q. QED BY <3>1, <4>1, <5>1, <5>2
        <4>4. CASE PulseDrop(p) BY <3>1, <4>1, <4>4 DEF PulseDrop
        <4>q. QED BY <2>2, <4>2, <4>3, <4>4 DEF Pulse
      <3>3. TypePins' BY <1>a, <1>k, <2>2 DEF Pulse, PulseStart, PulseEnd, PulseDrop, pinVars, Unkey
      <3>q. QED BY <1>a, <1>b, <1>c, <2>1, <2>2, <3>2, <3>3
                DEF Pulse, PulseStart, PulseEnd, PulseDrop, TypeOK
    <2>3. CASE Bite(p) \/ BiteLate(p)
      <3>1. TypePins' BY <1>a, <2>3 DEF Bite, BiteLate, Dropped
      <3>q. QED BY <1>a, <1>b, <1>c, <2>1, <2>3, <3>1 DEF Bite, BiteLate, Dropped, mgrVars, TypeOK
    <2>4. CASE SwitchOn(p) \/ SwitchOff(p)
      <3>1. TypePins' BY <1>a, <1>k, <2>4 DEF SwitchOn, SwitchOff, Unkey
      <3>q. QED BY <1>a, <1>b, <1>c, <2>1, <2>4, <3>1 DEF SwitchOn, SwitchOff, mgrVars, TypeOK
    <2>q. QED BY <1>3, <2>2, <2>3, <2>4 DEF PinStep
  <1>4. CASE Restart BY <1>a, <1>b, <1>c, <1>4 DEF Restart, TypeOK, Places
  <1>5. CASE UNCHANGED <<monVars, pinVars, mgrVars>>
    BY <1>a, <1>b, <1>c, <1>5 DEF monVars, pinVars, mgrVars, TypeOK
  <1>q. QED BY <1>1, <1>2, <1>3, <1>4, <1>5, StepKinds

-----------------------------------------------------------------------------
(* The places of the refresh, and the holds.                               *)

LEMMA WorkType ==
    ASSUME TypeOK, NEW t \in Work
    PROVE  t \in todo /\ t[1] \in Pins /\ t = <<t[1], t[2]>> /\ t[2] \in Holding \cup {"ALL"}
  <1>1. t \in todo BY DEF Work
  <1>q. QED BY <1>1 DEF TypeOK

LEMMA PlaceNext ==
    TypeOK /\ PlaceFits /\ HoldsAssigned /\ [Next]_vars => PlaceFits' /\ HoldsAssigned'
  <1> DEFINE G == PlaceFits' /\ HoldsAssigned'
  <1> SUFFICES ASSUME TypeOK, PlaceFits, HoldsAssigned, [Next]_vars PROVE G OBVIOUS
  <1> USE DEF Trying, At
  <1>1. CASE Reading
    <2>1. ASSUME NEW seen \in Broadcasts \cup {None}, Edges(seen) PROVE G
      <3>1. mon \in {"idle", "drop"} /\ cur' = cur BY <1>1, <2>1 DEF Reading, Edges
      <3>2. PlaceFits' BY <2>1, <3>1 DEF PlaceFits, Edges
      <3>3. \A kinds : \A t \in Assigned(kinds) : t[2] \in Matrix[t[1]] BY DEF Assigned
      <3>4. hold' = hold BY <2>1 DEF Edges
      <3>5. \A t \in todo' : t[2] \in Matrix[t[1]] BY <2>1, <3>3 DEF Edges
      <3>q. QED BY <3>2, <3>4, <3>5 DEF HoldsAssigned
    <2>2. CASE /\ mon = "idle" /\ mon' = "drop"
               /\ UNCHANGED <<todo, cur, flags, managed, sounding, pinVars, mgrVars>>
      BY <2>2 DEF PlaceFits, HoldsAssigned, mgrVars
    <2>q. QED BY <1>1, <2>1, <2>2 DEF Reading
  <1>2. CASE TryHold
    <2>1. PICK t \in Work : /\ todo' = todo \ {t}
                            /\ IF t[2] \in hold[t[1]]
                               THEN /\ managed' = (managed \/ At("hold"))
                                    /\ UNCHANGED <<mon, cur>>
                               ELSE /\ cur' = t /\ UNCHANGED managed
                                    /\ mon' = IF Active(t[1]) THEN "refused" ELSE "adopt"
      BY <1>2 DEF TryHold
    <2>2. hold' = hold /\ flags' = flags BY <1>2 DEF TryHold, mgrVars
    <2>3. t \in Pins \X Holding /\ t[2] \in Matrix[t[1]]
          /\ (mon = "hold" => t[2] # "GATE_PENDING") /\ (mon = "gate" => t[2] = "GATE_PENDING")
      <3>1. t \in todo /\ t[1] \in Pins BY WorkType
      <3>2. mon \in {"hold", "gate"} BY <1>2 DEF TryHold
      <3>3. t[2] # "ALL" /\ (mon = "hold" => t[2] # "GATE_PENDING") /\ (mon = "gate" => t[2] = "GATE_PENDING")
        BY <3>2 DEF Work
      <3>4. t \in Pins \X Holding BY <3>3, WorkType
      <3>q. QED BY <3>1, <3>3, <3>4 DEF HoldsAssigned
    <2>q. QED BY <1>2, <2>1, <2>2, <2>3 DEF TryHold, PlaceFits, HoldsAssigned
  <1>3. CASE LookAgain
    <2>1. /\ mon = "refused"
          /\ \/ mon' = "adopt" /\ cur' = cur
             \/ mon' = Back
          /\ UNCHANGED <<todo, flags, managed, hold>>
      BY <1>3 DEF LookAgain, mgrVars
    <2>q. QED BY <2>1 DEF Back, PlaceFits, HoldsAssigned
  <1>4. CASE Adopt
    <2>1. mon = "adopt" /\ mon' = Back /\ UNCHANGED <<todo, flags>>
          /\ hold' = [hold EXCEPT ![cur[1]] = @ \cup {cur[2]}]
      BY <1>4 DEF Adopt
    <2>2. \A p \in Pins : hold'[p] \subseteq hold[p] \cup (IF p = cur[1] THEN {cur[2]} ELSE {})
      BY <2>1 DEF TypeOK
    <2>3. \A p \in Pins : hold'[p] \subseteq Matrix[p] BY <2>1, <2>2 DEF PlaceFits, HoldsAssigned
    <2>q. QED BY <2>1, <2>3 DEF Back, PlaceFits, HoldsAssigned
  <1>5. CASE KeyNext \/ UnkeyNext
    <2>1. todo' \subseteq todo /\ UNCHANGED <<mon, cur, flags, managed, hold>>
      BY <1>5 DEF KeyNext, UnkeyNext, mgrVars
    <2>q. QED BY <2>1 DEF PlaceFits, HoldsAssigned
  <1>6. CASE Release
    <2>1. todo' \subseteq todo /\ UNCHANGED <<mon, cur, flags, managed>> BY <1>6 DEF Release
    <2>2. PICK t \in Work : hold' = [hold EXCEPT ![t[1]] = @ \ {t[2]}] BY <1>6 DEF Release
    <2>3. \A p \in Pins : hold'[p] \subseteq hold[p] BY <2>2 DEF TypeOK
    <2>q. QED BY <2>1, <2>3 DEF PlaceFits, HoldsAssigned
  <1>7. CASE Advance
    <2>1. /\ mon \in {"hold", "fallback", "release", "off", "gate"}
          /\ mon' = CASE mon = "hold" -> IF managed THEN "gate" ELSE "fallback"
                      [] mon = "release" -> IF managed THEN "gate" ELSE "off"
                      [] mon = "gate" -> "buzzer"
                      [] OTHER -> "gate"
          /\ todo' \subseteq todo \cup (Pins \X {"ALL"})
          /\ UNCHANGED <<cur, flags, managed, hold>>
      BY <1>7 DEF Advance, All
    <2>2. \A t \in todo' : t[2] # "ALL" => t[2] \in Matrix[t[1]]
      BY <2>1 DEF HoldsAssigned
    <2>q. QED BY <2>1, <2>2 DEF PlaceFits, HoldsAssigned
  <1>8. CASE DriveBuzzer
    <2>1. mon' = "idle" /\ UNCHANGED <<todo, cur, flags, managed, hold>>
      BY <1>8 DEF DriveBuzzer, mgrVars
    <2>q. QED BY <2>1 DEF PlaceFits, HoldsAssigned
  <1>9. CASE Restart BY <1>9 DEF Restart, PlaceFits, HoldsAssigned
  <1>10. ASSUME UNCHANGED monVars, hold' = hold PROVE G
    BY <1>10 DEF monVars, PlaceFits, HoldsAssigned
  <1>11. ASSUME NEW p \in Pins, PinStep(p) PROVE UNCHANGED monVars /\ hold' = hold
    BY <1>11 DEF PinStep, Pulse, PulseStart, PulseEnd, PulseDrop, Bite, BiteLate, Dropped, SwitchOn,
                 SwitchOff, mgrVars
  <1>q. QED
    BY <1>1, <1>2, <1>3, <1>4, <1>5, <1>6, <1>7, <1>8, <1>9, <1>10, <1>11, StepKinds
    DEF Handling, mgrVars

LEMMA HoldsNext ==
    TypeOK /\ PlaceFits /\ HoldsAssigned /\ BroadcastHolds /\ GateHolds /\ [Next]_vars
        => BroadcastHolds' /\ GateHolds'
  <1> DEFINE G == BroadcastHolds' /\ GateHolds'
  <1> SUFFICES ASSUME TypeOK, PlaceFits, HoldsAssigned, BroadcastHolds, GateHolds, [Next]_vars
               PROVE  G
    OBVIOUS
  <1> USE DEF Trying, At, Holder, Releasable
  <1>h. \A p \in Pins : hold[p] \subseteq Holding /\ hold[p] \subseteq Matrix[p]
    BY DEF TypeOK, HoldsAssigned
  <1>1. CASE Reading
    <2>1. ASSUME NEW seen \in Broadcasts \cup {None}, Edges(seen) PROVE G
      <3>1. mon \in {"idle", "drop"} /\ hold' = hold BY <1>1, <2>1 DEF Reading, Edges
      <3>2. ASSUME ~flags.broadcast, NEW p \in Pins PROVE ~Holder(p)
        BY <3>1, <3>2 DEF BroadcastHolds
      <3>3. ASSUME ~flags.gate, NEW p \in Pins PROVE "GATE_PENDING" \notin hold[p]
        BY <3>1, <3>3 DEF GateHolds
      <3>4. ASSUME NEW p \in Pins, Holder(p)
            PROVE  managed' /\ (~flags'.broadcast => mon' = "release" /\ Assigned(Releasable) \subseteq todo')
        BY <2>1, <3>2, <3>4 DEF Edges, BroadcastHolds
      <3>5. ASSUME NEW p \in Pins, NEW k \in hold[p] \cap Releasable PROVE <<p, k>> \in Assigned(Releasable)
        BY <1>h, <3>5 DEF Assigned, Holding
      <3>6. BroadcastHolds' BY <3>1, <3>4, <3>5 DEF BroadcastHolds
      <3>7. ASSUME NEW p \in Pins, "GATE_PENDING" \in hold[p], ~flags'.gate
            PROVE  Assigned({"GATE_PENDING"}) \subseteq todo' /\ mon' \notin {"idle", "drop", "buzzer"}
        BY <2>1, <3>3, <3>7 DEF Edges
      <3>o. ASSUME NEW p \in Pins, "GATE_PENDING" \in hold[p]
            PROVE  <<p, "GATE_PENDING">> \in Assigned({"GATE_PENDING"})
        BY <1>h, <3>o DEF Assigned, Holding
      <3>9. GateHolds' BY <3>1, <3>7, <3>o DEF GateHolds
      <3>q. QED BY <3>6, <3>9
    <2>2. CASE /\ mon = "idle" /\ mon' = "drop"
               /\ UNCHANGED <<todo, cur, flags, managed, sounding, pinVars, mgrVars>>
      BY <2>2 DEF BroadcastHolds, GateHolds, mgrVars
    <2>q. QED BY <1>1, <2>1, <2>2 DEF Reading
  <1>2. CASE TryHold
    <2>1. mon \in {"hold", "gate"} /\ mon' \in {mon, "refused", "adopt"} /\ UNCHANGED <<flags, hold>>
          /\ (managed => managed')
      BY <1>2 DEF TryHold, mgrVars
    <2>2. BroadcastHolds' BY <2>1 DEF BroadcastHolds, PlaceFits
    <2>3. PICK t \in Work : todo' = todo \ {t} BY <1>2 DEF TryHold
    <2>4. mon = "gate" => flags.gate BY <1>2 DEF TryHold
    <2>5. mon = "hold" => t[2] # "GATE_PENDING" BY DEF Work
    <2>6. \A p : flags.gate \/ t # <<p, "GATE_PENDING">> BY <2>1, <2>4, <2>5
    <2>q. QED BY <2>1, <2>2, <2>3, <2>6 DEF GateHolds
  <1>3. CASE LookAgain
    <2>1. mon = "refused" /\ mon' \in {"adopt", Back} /\ UNCHANGED <<todo, flags, hold, managed>>
      BY <1>3 DEF LookAgain, mgrVars
    <2>q. QED BY <2>1 DEF Back, BroadcastHolds, GateHolds
  <1>4. CASE Adopt
    <2>1. mon = "adopt" /\ mon' = Back /\ UNCHANGED <<todo, flags>>
          /\ hold' = [hold EXCEPT ![cur[1]] = @ \cup {cur[2]}]
          /\ managed' = (managed \/ Back = "hold")
      BY <1>4 DEF Adopt
    <2>2. \A p \in Pins : hold'[p] = hold[p] \cup (IF p = cur[1] THEN {cur[2]} ELSE {})
      BY <2>1 DEF TypeOK
    <2>3. CASE cur[2] = "GATE_PENDING"
      <3>1. flags.gate /\ Back = "gate" BY <2>1, <2>3 DEF PlaceFits, Back
      <3>2. \A p \in Pins : hold'[p] \cap Releasable = hold[p] \cap Releasable BY <2>2, <2>3
      <3>3. ~flags.broadcast => \A p \in Pins : hold[p] \cap Releasable = {}
        BY <2>1 DEF BroadcastHolds
      <3>4. BroadcastHolds' BY <2>1, <3>2, <3>3 DEF BroadcastHolds
      <3>q. QED BY <2>1, <3>1, <3>4 DEF GateHolds
    <2>4. CASE cur[2] # "GATE_PENDING"
      <3>1. flags.broadcast /\ Back = "hold" BY <2>1, <2>4 DEF PlaceFits, Back
      <3>2. BroadcastHolds' BY <2>1, <3>1 DEF BroadcastHolds
      <3>3. \A p \in Pins : "GATE_PENDING" \in hold'[p] => "GATE_PENDING" \in hold[p] BY <2>2, <2>4
      <3>q. QED BY <2>1, <3>1, <3>2, <3>3 DEF GateHolds
    <2>q. QED BY <2>3, <2>4
  <1>5. CASE KeyNext \/ UnkeyNext
    <2>1. /\ UNCHANGED <<mon, flags, managed, hold>> /\ mon \in {"fallback", "off"}
          /\ \E t \in Work : todo' = todo \ {t}
      BY <1>5 DEF KeyNext, UnkeyNext, mgrVars
    <2>2. \A t \in Work : t[2] = "ALL" BY <2>1 DEF Work
    <2>3. \A p, k : k # "ALL" /\ <<p, k>> \in todo => <<p, k>> \in todo' BY <2>1, <2>2
    <2>q. QED BY <2>1, <2>3 DEF BroadcastHolds, GateHolds
  <1>6. CASE Release
    <2>1. PICK t \in Work : todo' = todo \ {t} /\ hold' = [hold EXCEPT ![t[1]] = @ \ {t[2]}]
      BY <1>6 DEF Release
    <2>2. UNCHANGED <<mon, flags, managed>> BY <1>6 DEF Release
    <2>3. \A p \in Pins : hold'[p] = hold[p] \ (IF p = t[1] THEN {t[2]} ELSE {}) BY <2>1 DEF TypeOK
    <2>4. \A p \in Pins : \A k \in hold'[p] : k \in hold[p] /\ t # <<p, k>> BY <2>3
    <2>q. QED BY <2>1, <2>2, <2>4 DEF BroadcastHolds, GateHolds
  <1>7. CASE Advance
    <2>1. /\ Work = {}
          /\ mon' = CASE mon = "hold" -> IF managed THEN "gate" ELSE "fallback"
                      [] mon = "release" -> IF managed THEN "gate" ELSE "off"
                      [] mon = "gate" -> "buzzer"
                      [] OTHER -> "gate"
          /\ todo \subseteq todo'
          /\ UNCHANGED <<flags, managed, hold>>
      BY <1>7 DEF Advance
    <2>2. ASSUME mon = "release", NEW p, NEW k \in Releasable PROVE <<p, k>> \notin todo
      <3>1. <<p, k>>[2] \notin {"GATE_PENDING", "ALL"} OBVIOUS
      <3>q. QED BY <2>1, <2>2, <3>1 DEF Work
    <2>3. ASSUME mon = "gate", NEW p PROVE <<p, "GATE_PENDING">> \notin todo
      <3>1. <<p, "GATE_PENDING">>[2] = "GATE_PENDING" OBVIOUS
      <3>q. QED BY <2>1, <2>3, <3>1 DEF Work
    <2>4. BroadcastHolds' BY <2>1, <2>2 DEF BroadcastHolds
    <2>5. GateHolds' BY <2>1, <2>3 DEF GateHolds
    <2>q. QED BY <2>4, <2>5
  <1>8. CASE DriveBuzzer
    <2>1. mon = "buzzer" /\ UNCHANGED <<todo, cur, flags, managed, hold>>
      BY <1>8 DEF DriveBuzzer, mgrVars
    <2>q. QED BY <2>1 DEF BroadcastHolds, GateHolds
  <1>9. CASE Restart
    <2>1. \A p \in Pins : hold'[p] = {} BY <1>9 DEF Restart
    <2>q. QED BY <2>1 DEF BroadcastHolds, GateHolds
  <1>10. ASSUME UNCHANGED monVars, hold' = hold PROVE G
    BY <1>10 DEF monVars, BroadcastHolds, GateHolds
  <1>11. ASSUME NEW p \in Pins, PinStep(p) PROVE UNCHANGED monVars /\ hold' = hold
    BY <1>11 DEF PinStep, Pulse, PulseStart, PulseEnd, PulseDrop, Bite, BiteLate, Dropped, SwitchOn,
                 SwitchOff, mgrVars
  <1>q. QED
    BY <1>1, <1>2, <1>3, <1>4, <1>5, <1>6, <1>7, <1>8, <1>9, <1>10, <1>11, StepKinds
    DEF Handling, mgrVars

-----------------------------------------------------------------------------
(* The owners of a pin.                                                    *)

LEMMA PulsingStarts ==
    ASSUME TypeOK, NEW k, Pulsing(k), NEW p \in Pins
    PROVE  /\ pulse'[p].sleep = pulse[p].sleep /\ pulse'[p].drop = pulse[p].drop
           /\ k \notin Matrix[p] => pulse'[p] = pulse[p]
  BY DEF Pulsing, TypeOK, WithBehavior

LEMMA OwnedNext ==
    TypeOK /\ PlaceFits /\ ActiveOwned /\ [Next]_vars => ActiveOwned'
  <1> SUFFICES ASSUME TypeOK, PlaceFits, ActiveOwned, [Next]_vars, NEW p \in Pins, Active(p)'
               PROVE  Owned(p)'
    BY DEF ActiveOwned
  <1> USE DEF Trying, At
  <1>t. /\ state \in [Pins -> {"INACTIVE", "ACTIVE", "WATCHDOG_TIMEOUT"}]
        /\ pulse[p].sleep \in Nat /\ pulse[p].drop \in Nat
        /\ pulse \in [Pins -> [start : Nat, sleep : Nat, drop : Nat]]
    BY DEF TypeOK
  <1>o. Active(p) => Owned(p) BY DEF ActiveOwned
  <1>k. ASSUME NEW q \in Pins, Key(q) PROVE q = p \/ Active(p)
    BY <1>k, <1>t DEF Key, Active
  <1>u. ASSUME NEW q \in Pins, Unkey(q) PROVE q # p /\ Active(p) /\ (p \in byHand => p \in byHand')
    BY <1>u, <1>t DEF Unkey, Active
  <1>s. state' = state => Active(p) BY DEF Active
  <1>1. CASE Reading
    <2>1. ASSUME NEW seen \in Broadcasts \cup {None}, Edges(seen) PROVE Owned(p)'
      <3>1. mon \in {"idle", "drop"} /\ UNCHANGED <<hold, state, byHand, sounding>>
        BY <1>1, <2>1 DEF Reading, Edges, pinVars
      <3>2. pulse'[p].sleep = pulse[p].sleep /\ pulse'[p].drop = pulse[p].drop
        BY <2>1, PulsingStarts DEF Edges
      <3>3. KeyedUnmanaged(p) => KeyedUnmanaged(p)'
        BY <2>1, <3>1 DEF KeyedUnmanaged, Edges
      <3>q. QED BY <1>o, <1>s, <3>1, <3>2, <3>3 DEF Owned
    <2>2. CASE /\ mon = "idle" /\ mon' = "drop"
               /\ UNCHANGED <<todo, cur, flags, managed, sounding, pinVars, mgrVars>>
      BY <1>o, <1>s, <2>2 DEF Owned, KeyedUnmanaged, pinVars, mgrVars
    <2>q. QED BY <1>1, <2>1, <2>2 DEF Reading
  <1>2. CASE TryHold
    <2>1. PICK t \in Work : /\ todo' = todo \ {t}
                            /\ IF t[2] \in hold[t[1]]
                               THEN /\ managed' = (managed \/ At("hold"))
                                    /\ UNCHANGED <<mon, cur, state, old>>
                               ELSE /\ cur' = t /\ UNCHANGED managed
                                    /\ mon' = IF Active(t[1]) THEN "refused" ELSE "adopt"
                                    /\ IF Active(t[1]) THEN UNCHANGED <<state, old>> ELSE Key(t[1])
      BY <1>2 DEF TryHold
    <2>2. mon \in {"hold", "gate"} /\ UNCHANGED <<hold, pulse, byHand, sounding, flags>>
      BY <1>2 DEF TryHold, mgrVars
    <2>3. t[1] \in Pins BY WorkType
    <2>4. mon = "gate" => t[2] = "GATE_PENDING" BY DEF Work
    <2>5. KeyedUnmanaged(p) => KeyedUnmanaged(p)'
      BY <2>1, <2>2, <2>4 DEF KeyedUnmanaged, PlaceFits
    <2>6. CASE Active(p) BY <1>o, <2>1, <2>2, <2>5, <2>6 DEF Owned
    <2>7. CASE ~Active(p)
      <3>1. t[1] = p /\ mon' = "adopt" /\ cur' = t BY <1>k, <1>s, <2>1, <2>3, <2>7
      <3>q. QED BY <3>1 DEF Owned
    <2>q. QED BY <2>6, <2>7
  <1>3. CASE LookAgain
    <2>1. /\ mon = "refused" /\ UNCHANGED <<todo, flags, hold, managed, state, byHand, sounding, pulse>>
          /\ \/ mon' = "adopt" /\ cur' = cur
             \/ mon' = Back
      BY <1>3 DEF LookAgain, mgrVars, pinVars
    <2>2. KeyedUnmanaged(p) => KeyedUnmanaged(p)' BY <2>1 DEF KeyedUnmanaged, Back
    <2>q. QED BY <1>o, <1>s, <2>1, <2>2 DEF Owned
  <1>4. CASE Adopt
    <2>1. mon = "adopt" /\ mon' = Back /\ UNCHANGED <<todo, flags, state, byHand, sounding, pulse>>
          /\ hold' = [hold EXCEPT ![cur[1]] = @ \cup {cur[2]}]
          /\ managed' = (managed \/ Back = "hold")
      BY <1>4 DEF Adopt, pinVars
    <2>2. hold'[p] = hold[p] \cup (IF p = cur[1] THEN {cur[2]} ELSE {}) BY <2>1 DEF TypeOK
    <2>3. KeyedUnmanaged(p) => KeyedUnmanaged(p)' BY <2>1 DEF KeyedUnmanaged, Back
    <2>q. QED BY <1>o, <1>s, <2>1, <2>2, <2>3 DEF Owned
  <1>5. CASE KeyNext
    <2>1. mon = "fallback" /\ UNCHANGED <<mon, flags, managed>> BY <1>5 DEF KeyNext
    <2>2. KeyedUnmanaged(p)' BY <2>1 DEF KeyedUnmanaged, PlaceFits
    <2>q. QED BY <2>2 DEF Owned
  <1>6. CASE UnkeyNext
    <2>1. PICK t \in Work : todo' = todo \ {t} /\ Unkey(t[1]) BY <1>6 DEF UnkeyNext
    <2>2. mon = "off" /\ UNCHANGED <<mon, cur, flags, managed, sounding, hold, pulse>>
      BY <1>6 DEF UnkeyNext, mgrVars
    <2>3. t[1] # p /\ Active(p) /\ (p \in byHand => p \in byHand') BY <1>u, <2>1, WorkType
    <2>4. t # <<p, "ALL">> BY <2>3
    <2>5. KeyedUnmanaged(p) => KeyedUnmanaged(p)' BY <2>1, <2>2, <2>4 DEF KeyedUnmanaged
    <2>q. QED BY <1>o, <2>2, <2>3, <2>5 DEF Owned
  <1>7. CASE Release
    <2>1. PICK t \in Work : /\ todo' = todo \ {t} /\ hold' = [hold EXCEPT ![t[1]] = @ \ {t[2]}]
                            /\ IF hold[t[1]] = {t[2]} THEN Unkey(t[1]) ELSE UNCHANGED pinVars
      BY <1>7 DEF Release
    <2>2. mon \in {"release", "gate"} /\ UNCHANGED <<mon, cur, flags, managed, sounding, pulse>>
      BY <1>7 DEF Release
    <2>3. t[1] \in Pins BY WorkType
    <2>4. Active(p) /\ (p \in byHand => p \in byHand') BY <1>s, <1>u, <2>1, <2>3 DEF pinVars
    <2>5. hold[p] # {} => hold'[p] # {}
      <3>1. hold'[p] = hold[p] \ (IF p = t[1] THEN {t[2]} ELSE {}) BY <2>1, <2>3 DEF TypeOK
      <3>2. p = t[1] => hold[p] # {t[2]} BY <1>u, <2>1, <2>3
      <3>q. QED BY <3>1, <3>2
    <2>6. KeyedUnmanaged(p) => KeyedUnmanaged(p)' BY <2>2 DEF KeyedUnmanaged
    <2>q. QED BY <1>o, <2>2, <2>4, <2>5, <2>6 DEF Owned
  <1>8. CASE Advance
    <2>1. /\ Work = {} /\ mon \in {"hold", "fallback", "release", "off", "gate"}
          /\ mon' = CASE mon = "hold" -> IF managed THEN "gate" ELSE "fallback"
                      [] mon = "release" -> IF managed THEN "gate" ELSE "off"
                      [] mon = "gate" -> "buzzer"
                      [] OTHER -> "gate"
          /\ todo' = IF ~managed /\ mon \in {"hold", "release"} THEN todo \cup All ELSE todo
          /\ UNCHANGED <<cur, flags, managed, hold, sounding, state, byHand>>
      BY <1>8 DEF Advance, pinVars
    <2>2. pulse'[p].sleep = pulse[p].sleep /\ pulse'[p].drop = pulse[p].drop
      BY <1>8, PulsingStarts DEF Advance
    <2>3. mon = "off" => <<p, "ALL">> \notin todo
      <3>1. <<p, "ALL">>[2] = "ALL" OBVIOUS
      <3>q. QED BY <2>1, <3>1 DEF Work
    <2>4. <<p, "ALL">> \in All BY DEF All
    <2>5. KeyedUnmanaged(p) => KeyedUnmanaged(p)' BY <2>1, <2>3, <2>4 DEF KeyedUnmanaged
    <2>q. QED BY <1>o, <1>s, <2>1, <2>2, <2>5 DEF Owned
  <1>9. CASE DriveBuzzer
    <2>1. mon = "buzzer" /\ mon' = "idle" /\ sounding' = silent
          /\ UNCHANGED <<todo, cur, flags, managed, hold, pulse>>
      BY <1>9 DEF DriveBuzzer, mgrVars
    <2>2. \/ Key(Buzzer) /\ silent /\ UNCHANGED byHand
          \/ Unkey(Buzzer)
          \/ UNCHANGED pinVars /\ (sounding => silent)
      BY <1>9 DEF DriveBuzzer
    <2>3. KeyedUnmanaged(p) => KeyedUnmanaged(p)' BY <2>1 DEF KeyedUnmanaged
    <2>4. Buzzer \in Pins BY ConstantsAssumption
    <2>5. CASE Key(Buzzer) /\ silent /\ UNCHANGED byHand
      BY <1>k, <1>o, <2>1, <2>3, <2>4, <2>5 DEF Owned
    <2>6. CASE Unkey(Buzzer) BY <1>u, <1>o, <2>1, <2>3, <2>4, <2>6 DEF Owned
    <2>7. CASE UNCHANGED pinVars /\ (sounding => silent)
      BY <1>s, <1>o, <2>1, <2>3, <2>7 DEF Owned, pinVars
    <2>q. QED BY <2>2, <2>5, <2>6, <2>7
  <1>10. ASSUME NEW q \in Pins, PinStep(q) PROVE Owned(p)'
    <2>1. UNCHANGED <<monVars, hold>>
      BY <1>10 DEF PinStep, Pulse, PulseStart, PulseEnd, PulseDrop, Bite, BiteLate, Dropped, SwitchOn,
                   SwitchOff, mgrVars
    <2>2. KeyedUnmanaged(p)' = KeyedUnmanaged(p) BY <2>1 DEF KeyedUnmanaged, monVars
    <2>3. CASE PulseStart(q)
      <3>1. UNCHANGED byHand /\ IF Active(q) THEN UNCHANGED <<state, old>> ELSE Key(q)
        BY <2>3 DEF PulseStart
      <3>2. pulse'[p] = IF p = q THEN [pulse[q] EXCEPT !.start = @ - 1,
                                                       !.sleep = @ + (IF Active(q) THEN 0 ELSE 1)]
                        ELSE pulse[p]
        BY <1>t, <2>3 DEF PulseStart
      <3>3. pulse'[p].sleep = pulse[p].sleep + (IF p = q /\ ~Active(q) THEN 1 ELSE 0)
            /\ pulse'[p].drop = pulse[p].drop
        BY <1>t, <3>2
      <3>4. CASE Active(p) BY <1>t, <1>o, <2>1, <2>2, <3>1, <3>3, <3>4 DEF Owned, monVars
      <3>5. CASE ~Active(p)
        <4>1. p = q BY <1>k, <1>s, <3>1, <3>5
        <4>2. pulse'[p].sleep + pulse'[p].drop > 0 BY <1>t, <3>3, <3>5, <4>1
        <4>q. QED BY <4>2 DEF Owned
      <3>q. QED BY <3>4, <3>5
    <2>4. CASE PulseEnd(q)
      <3>1. UNCHANGED <<state, byHand>> BY <2>4 DEF PulseEnd, pinVars
      <3>2. pulse'[p] = IF p = q THEN [pulse[q] EXCEPT !.sleep = @ - 1,
                                                       !.drop = @ + (IF hold[q] = {} THEN 1 ELSE 0)]
                        ELSE pulse[p]
        BY <1>t, <2>4 DEF PulseEnd
      <3>3. hold[p] = {} => pulse'[p].sleep + pulse'[p].drop = pulse[p].sleep + pulse[p].drop
        BY <1>t, <3>2
      <3>q. QED BY <1>o, <1>s, <2>1, <2>2, <3>1, <3>3 DEF Owned, monVars
    <2>5. CASE PulseDrop(q)
      <3>1. q # p /\ Active(p) /\ (p \in byHand => p \in byHand') BY <1>u, <2>5 DEF PulseDrop
      <3>2. pulse'[p] = pulse[p] BY <1>t, <2>5, <3>1 DEF PulseDrop
      <3>q. QED BY <1>o, <2>1, <2>2, <3>1, <3>2 DEF Owned, monVars
    <2>6. CASE Bite(q) \/ BiteLate(q)
      <3>1. q # p /\ Active(p) /\ (p \in byHand => p \in byHand') /\ pulse' = pulse
        BY <1>t, <2>6 DEF Bite, BiteLate, Dropped, Active, mgrVars
      <3>q. QED BY <1>o, <2>1, <2>2, <3>1 DEF Owned, monVars
    <2>7. CASE SwitchOn(q)
      <3>1. Key(q) /\ byHand' = byHand \cup {q} /\ pulse' = pulse BY <2>7 DEF SwitchOn, mgrVars
      <3>q. QED BY <1>k, <1>o, <2>1, <2>2, <3>1 DEF Owned, monVars
    <2>8. CASE SwitchOff(q)
      <3>1. Unkey(q) /\ pulse' = pulse BY <2>8 DEF SwitchOff, mgrVars
      <3>q. QED BY <1>u, <1>o, <2>1, <2>2, <3>1 DEF Owned, monVars
    <2>q. QED BY <1>10, <2>3, <2>4, <2>5, <2>6, <2>7, <2>8 DEF PinStep, Pulse
  <1>11. CASE Restart BY <1>11 DEF Restart, Active
  <1>12. CASE UNCHANGED <<monVars, pinVars, mgrVars>>
    BY <1>o, <1>s, <1>12 DEF monVars, pinVars, mgrVars, Owned, KeyedUnmanaged
  <1>q. QED
    BY <1>1, <1>2, <1>3, <1>4, <1>5, <1>6, <1>7, <1>8, <1>9, <1>10, <1>11, <1>12, StepKinds
    DEF Handling

LEMMA SteadyNext ==
    TypeOK /\ PlaceFits /\ BroadcastHolds /\ SteadyKeyed /\ [Next]_vars => SteadyKeyed'
  <1> SUFFICES ASSUME TypeOK, PlaceFits, BroadcastHolds, SteadyKeyed, [Next]_vars,
                      NEW p \in Pins, Steady(p)
               PROVE  NotPulsed(p)' /\ KeyedIfHeld(p)'
    BY DEF SteadyKeyed, Steady
  <1> USE DEF At, Holder
  <1>t. /\ state \in [Pins -> {"INACTIVE", "ACTIVE", "WATCHDOG_TIMEOUT"}]
        /\ pulse \in [Pins -> [start : Nat, sleep : Nat, drop : Nat]]
        /\ p \notin Commanded /\ p # Buzzer
        /\ "INCOMING_ALERT" \notin Matrix[p] /\ "FIVE_SECONDS" \notin Matrix[p]
    BY DEF TypeOK, Steady
  <1>o. NotPulsed(p) /\ KeyedIfHeld(p) BY DEF SteadyKeyed
  <1>k. ASSUME NEW q \in Pins, Key(q) PROVE state'[p] = "ACTIVE" \/ (q # p /\ state'[p] = state[p])
    BY <1>k, <1>t DEF Key
  <1>u. ASSUME NEW q \in Pins, Unkey(q), q # p PROVE state'[p] = state[p]
    BY <1>u, <1>t DEF Unkey
  <1>p. \/ pulse' = pulse
        \/ Pulsing("INCOMING_ALERT") \/ Pulsing("FIVE_SECONDS")
        => NotPulsed(p)'
    BY <1>o, <1>t, PulsingStarts DEF NotPulsed
  <1>1. CASE Reading
    <2>1. ASSUME NEW seen \in Broadcasts \cup {None}, Edges(seen) PROVE NotPulsed(p)' /\ KeyedIfHeld(p)'
      <3>1. mon' # "adopt" /\ UNCHANGED <<hold, state>> BY <2>1 DEF Edges, pinVars
      <3>2. NotPulsed(p)' BY <1>p, <2>1 DEF Edges
      <3>q. QED BY <1>o, <3>1, <3>2 DEF KeyedIfHeld
    <2>2. CASE /\ mon' = "drop"
               /\ UNCHANGED <<todo, cur, flags, managed, sounding, pinVars, mgrVars>>
      BY <1>o, <1>p, <2>2 DEF KeyedIfHeld, pinVars, mgrVars
    <2>q. QED BY <1>1, <2>1, <2>2 DEF Reading
  <1>2. CASE TryHold
    <2>1. PICK t \in Work : IF t[2] \in hold[t[1]]
                            THEN UNCHANGED <<mon, cur, state, old>>
                            ELSE /\ cur' = t
                                 /\ mon' = IF Active(t[1]) THEN "refused" ELSE "adopt"
                                 /\ IF Active(t[1]) THEN UNCHANGED <<state, old>> ELSE Key(t[1])
      BY <1>2 DEF TryHold
    <2>2. mon # "adopt" /\ UNCHANGED <<hold, pulse>> BY <1>2 DEF TryHold, mgrVars
    <2>3. t[1] \in Pins BY WorkType
    <2>q. QED BY <1>o, <1>k, <1>p, <2>1, <2>2, <2>3 DEF KeyedIfHeld
  <1>3. CASE LookAgain
    <2>1. /\ UNCHANGED <<hold, state, pulse>>
          /\ \/ Active(cur[1]) /\ cur' = cur
             \/ mon' = Back
      BY <1>3 DEF LookAgain, mgrVars, pinVars
    <2>q. QED BY <1>o, <1>p, <2>1 DEF KeyedIfHeld, Back, Active
  <1>4. CASE Adopt
    <2>1. mon = "adopt" /\ mon' = Back /\ UNCHANGED <<state, pulse>>
          /\ hold' = [hold EXCEPT ![cur[1]] = @ \cup {cur[2]}]
      BY <1>4 DEF Adopt, pinVars
    <2>2. hold'[p] = hold[p] \cup (IF p = cur[1] THEN {cur[2]} ELSE {}) BY <2>1 DEF TypeOK
    <2>q. QED BY <1>o, <1>p, <2>1, <2>2 DEF KeyedIfHeld, Back
  <1>5. CASE KeyNext
    <2>1. PICK t \in Work : IF Active(t[1]) THEN UNCHANGED <<state, old>> ELSE Key(t[1])
      BY <1>5 DEF KeyNext
    <2>2. mon' # "adopt" /\ UNCHANGED <<hold, pulse>> BY <1>5 DEF KeyNext, mgrVars
    <2>3. t[1] \in Pins BY WorkType
    <2>q. QED BY <1>o, <1>k, <1>p, <2>1, <2>2, <2>3 DEF KeyedIfHeld
  <1>6. CASE UnkeyNext
    <2>1. mon = "off" /\ mon' = mon /\ UNCHANGED <<hold, pulse>> BY <1>6 DEF UnkeyNext, mgrVars
    <2>2. ~Holder(p) BY <2>1 DEF PlaceFits, BroadcastHolds
    <2>q. QED BY <1>p, <2>1, <2>2 DEF KeyedIfHeld
  <1>7. CASE Release
    <2>1. PICK t \in Work : /\ hold' = [hold EXCEPT ![t[1]] = @ \ {t[2]}]
                            /\ IF hold[t[1]] = {t[2]} THEN Unkey(t[1]) ELSE UNCHANGED pinVars
      BY <1>7 DEF Release
    <2>2. mon' # "adopt" /\ pulse' = pulse BY <1>7 DEF Release
    <2>3. t[1] \in Pins BY WorkType
    <2>4. hold'[p] = hold[p] \ (IF p = t[1] THEN {t[2]} ELSE {}) BY <2>1, <2>3 DEF TypeOK
    <2>5. CASE hold'[p] = {} BY <1>p, <2>2, <2>5 DEF KeyedIfHeld
    <2>6. CASE hold'[p] # {}
      <3>1. state'[p] = state[p] BY <1>u, <2>1, <2>3, <2>4, <2>6 DEF pinVars
      <3>q. QED BY <1>o, <1>p, <2>2, <2>4, <3>1 DEF KeyedIfHeld
    <2>q. QED BY <2>5, <2>6
  <1>8. CASE Advance
    <2>1. mon' # "adopt" /\ UNCHANGED <<hold, state>> BY <1>8 DEF Advance, pinVars
    <2>2. NotPulsed(p)' BY <1>p, <1>8 DEF Advance
    <2>q. QED BY <1>o, <2>1, <2>2 DEF KeyedIfHeld
  <1>9. CASE DriveBuzzer
    <2>1. mon' = "idle" /\ UNCHANGED <<hold, pulse>> /\ (Key(Buzzer) \/ Unkey(Buzzer) \/ UNCHANGED pinVars)
      BY <1>9 DEF DriveBuzzer, mgrVars
    <2>2. state'[p] = state[p] BY <1>k, <1>u, <1>t, <2>1, ConstantsAssumption DEF pinVars, Key
    <2>q. QED BY <1>o, <1>p, <2>1, <2>2 DEF KeyedIfHeld
  <1>10. ASSUME NEW q \in Pins, PinStep(q) PROVE NotPulsed(p)' /\ KeyedIfHeld(p)'
    <2>1. UNCHANGED <<monVars, hold>>
      BY <1>10 DEF PinStep, Pulse, PulseStart, PulseEnd, PulseDrop, Bite, BiteLate, Dropped, SwitchOn,
                   SwitchOff, mgrVars
    <2>2. CASE Pulse(q)
      <3>1. q # p BY <1>o, <2>2 DEF NotPulsed, Pulse, PulseStart, PulseEnd, PulseDrop
      <3>2. state'[p] = state[p]
        BY <1>t, <2>2, <3>1 DEF Pulse, PulseStart, PulseEnd, PulseDrop, Key, Unkey, pinVars
      <3>3. pulse'[p] = pulse[p]
        BY <1>t, <2>2, <3>1 DEF Pulse, PulseStart, PulseEnd, PulseDrop
      <3>q. QED BY <1>o, <2>1, <3>2, <3>3 DEF NotPulsed, KeyedIfHeld, monVars
    <2>3. CASE Bite(q) \/ BiteLate(q)
      <3>1. pulse' = pulse /\ (state'[p] = state[p] \/ state'[p] = "WATCHDOG_TIMEOUT")
        BY <1>t, <2>3 DEF Bite, BiteLate, Dropped, mgrVars
      <3>q. QED BY <1>o, <1>p, <2>1, <3>1 DEF KeyedIfHeld, monVars
    <2>4. CASE SwitchOn(q) \/ SwitchOff(q)
      <3>1. pulse' = pulse /\ state'[p] = state[p]
        BY <1>t, <2>4 DEF SwitchOn, SwitchOff, Key, Unkey, mgrVars
      <3>q. QED BY <1>o, <1>p, <2>1, <3>1 DEF KeyedIfHeld, monVars
    <2>q. QED BY <1>10, <2>2, <2>3, <2>4 DEF PinStep
  <1>11. CASE Restart
    <2>1. hold'[p] = {} /\ mon' = "idle" /\ NotPulsed(p)' BY <1>11 DEF Restart, NotPulsed
    <2>q. QED BY <2>1 DEF KeyedIfHeld
  <1>12. CASE UNCHANGED <<monVars, pinVars, mgrVars>>
    BY <1>o, <1>p, <1>12 DEF monVars, pinVars, mgrVars, KeyedIfHeld
  <1>q. QED
    BY <1>1, <1>2, <1>3, <1>4, <1>5, <1>6, <1>7, <1>8, <1>9, <1>10, <1>11, <1>12, StepKinds
    DEF Handling

-----------------------------------------------------------------------------
(* The markers.                                                            *)

\* Nobody comes to delete the marker but by a look at whose it is.
LEMMA NewDeletes ==
    TypeOK /\ [Next]_vars =>
        \A c \in Broadcasts :
            phase[c] # "delete" /\ phase'[c] = "delete" => ReadOwner(c) \/ ReadOwnerFails(c)
  <1> SUFFICES ASSUME TypeOK, [Next]_vars, NEW c \in Broadcasts,
                      phase[c] # "delete", phase'[c] = "delete"
               PROVE  ReadOwner(c) \/ ReadOwnerFails(c)
    OBVIOUS
  <1>1. ASSUME NEW b \in Broadcasts,
               SetActive(b) \/ SetActiveFails(b) \/ Produce(b) \/ ReadOwnerFails(b) \/ Die(b)
        PROVE  ReadOwner(c) \/ ReadOwnerFails(c)
    <2>1. c = b
      BY <1>1 DEF TypeOK, SetActive, SetActiveFails, Produce, PlayoutOver, ReadOwner, DeleteMarker,
                  ReadOwnerFails, Die, Goes
    <2>2. ~SetActive(c) /\ ~SetActiveFails(c) /\ ~PlayoutOver(c) /\ ~DeleteMarker(c) /\ ~Die(c)
      BY DEF TypeOK, SetActive, SetActiveFails, PlayoutOver, DeleteMarker, Die, Goes
    <2>q. QED BY <1>1, <2>1, <2>2 DEF Produce
  <1>2. ~DumpStart
    <2>1. DumpStart => marker.of \in Broadcasts BY DEF TypeOK, DumpStart, Markers
    <2>q. QED BY <2>1 DEF TypeOK, DumpStart
  <1>3. ~UNCHANGED phase OBVIOUS
  <1>4. Refresh \/ ReadFails \/ Age \/ DumpEnd \/ World \/ Restart => UNCHANGED phase
    BY DEF Refresh, ReadMarker, DropMarker, ReadFails, Edges, Quiet, TryHold, LookAgain, Adopt, KeyNext,
           Release, UnkeyNext, Advance, DriveBuzzer, Age, DumpEnd, World, Restart
  <1>5. \A p \in Pins : PinStep(p) => UNCHANGED phase
    BY DEF PinStep, Pulse, PulseStart, PulseEnd, PulseDrop, Bite, BiteLate, Dropped, SwitchOn, SwitchOff
  <1>q. QED BY <1>1, <1>2, <1>3, <1>4, <1>5 DEF Next, PinStep, vars

\* Whoever takes the marker away, puts one there or writes on it.
LEMMA MarkerSteps ==
    TypeOK /\ [Next]_vars =>
        \/ marker' = marker
        \/ \E b \in Broadcasts : SetActive(b) \/ DeleteMarker(b) \/ ReadOwnerFails(b)
        \/ Age \/ DumpEnd \/ DropMarker
  <1> SUFFICES ASSUME TypeOK, [Next]_vars, marker' # marker
               PROVE  \/ \E b \in Broadcasts : SetActive(b) \/ DeleteMarker(b) \/ ReadOwnerFails(b)
                      \/ Age \/ DumpEnd \/ DropMarker
    OBVIOUS
  <1>1. \A b \in Broadcasts : ~SetActiveFails(b) /\ ~PlayoutOver(b) /\ ~ReadOwner(b) /\ ~Die(b)
    BY DEF SetActiveFails, PlayoutOver, ReadOwner, Die
  <1>2. ~DumpStart /\ ~World /\ ~Restart BY DEF DumpStart, World, Restart, redisVars
  <1>3. ~ReadMarker /\ ~ReadFails /\ ~Handling
    BY DEF Handling, ReadMarker, ReadFails, TryHold, LookAgain, Adopt, KeyNext, Release, UnkeyNext, Advance,
           DriveBuzzer
  <1>4. \A p \in Pins : ~PinStep(p)
    BY DEF PinStep, Pulse, PulseStart, PulseEnd, PulseDrop, Bite, BiteLate, Dropped, SwitchOn, SwitchOff,
           redisVars
  <1>q. QED BY <1>1, <1>2, <1>3, <1>4 DEF Next, Refresh, Handling, PinStep, Produce, vars, redisVars

\* The monitor comes to drop a marker only over one that is stale.
LEMMA DropsStale ==
    ASSUME TypeOK, [Next]_vars, mon' = "drop"
    PROVE  mon = "drop" \/ (marker' = marker /\ marker # None /\ marker.stale)
  <1>1. ReadMarker => marker' = marker /\ marker # None /\ marker.stale BY DEF ReadMarker, Edges
  <1>2. ~DropMarker /\ ~ReadFails BY DEF DropMarker, ReadFails, Edges
  <1>3. Handling => mon = "drop"
    BY DEF Handling, TryHold, LookAgain, Adopt, KeyNext, Release, UnkeyNext, Advance, DriveBuzzer,
           Back, At
  <1>4. ~Restart BY DEF Restart
  <1>5. ASSUME NEW p \in Pins, PinStep(p) PROVE mon' = mon
    BY <1>5 DEF PinStep, Pulse, PulseStart, PulseEnd, PulseDrop, Bite, BiteLate, Dropped, SwitchOn,
                SwitchOff, monVars
  <1>6. ASSUME NEW b \in Broadcasts,
               SetActive(b) \/ SetActiveFails(b) \/ Produce(b) \/ ReadOwnerFails(b) \/ Die(b)
        PROVE  mon' = mon
    BY <1>6 DEF SetActive, SetActiveFails, Produce, PlayoutOver, ReadOwner, DeleteMarker,
                ReadOwnerFails, Die, Goes, monVars
  <1>7. Age \/ DumpStart \/ DumpEnd \/ World \/ UNCHANGED vars => mon' = mon
    BY DEF Age, DumpStart, DumpEnd, World, monVars, vars
  <1>q. QED BY <1>1, <1>2, <1>3, <1>4, <1>5, <1>6, <1>7 DEF Next, Refresh, Handling, PinStep

LEMMA MarkersNext == TypeOK /\ MarkersKnown /\ [Next]_vars => MarkersKnown'
  <1> SUFFICES ASSUME TypeOK, MarkersKnown, [Next]_vars, Secure'
               PROVE  mon' # "drop" /\ \A c \in Broadcasts : phase'[c] = "delete" => c = marker'.of
    BY DEF MarkersKnown
  <1>m. marker # None => marker \in Markers BY DEF TypeOK, Markers
  \* The marker has stayed, but for a failed look at whose it is.
  <1>1. ASSUME Secure, marker'.of = marker.of,
               \A c \in Broadcasts : ReadOwnerFails(c) => c = marker.of
        PROVE  mon' # "drop" /\ \A c \in Broadcasts : phase'[c] = "delete" => c = marker'.of
    <2>1. mon' # "drop" BY <1>1, DropsStale DEF MarkersKnown, Secure
    <2>2. ASSUME NEW c \in Broadcasts, phase'[c] = "delete" PROVE c = marker.of
      <3>1. CASE phase[c] = "delete" BY <1>1, <3>1 DEF MarkersKnown
      <3>2. CASE ReadOwner(c) BY <1>1, <2>2, <3>2 DEF ReadOwner, Goes, TypeOK, Secure
      <3>q. QED BY <1>1, <2>2, <3>1, <3>2, NewDeletes
    <2>q. QED BY <1>1, <2>1, <2>2
  <1>2. ASSUME NEW b \in Broadcasts, ReadOwnerFails(b) PROVE Secure /\ marker'.of = marker.of /\ b = marker.of
    BY <1>2, <1>m DEF ReadOwnerFails, Secure, Markers
  <1>3. CASE \E b \in Broadcasts : ReadOwnerFails(b) BY <1>1, <1>2, <1>3
  <1>4. CASE marker' = marker BY <1>1, <1>2, <1>4 DEF Secure
  <1>5. ASSUME NEW b \in Broadcasts, SetActive(b)
        PROVE  mon' # "drop" /\ \A c \in Broadcasts : phase'[c] = "delete" => c = marker'.of
    <2>1. mon # "drop" /\ \A c \in Broadcasts : phase[c] # "delete" BY <1>5 DEF SetActive, Secure
    <2>2. mon' = mon /\ phase' = [phase EXCEPT ![b] = "on"] BY <1>5 DEF SetActive, monVars
    <2>q. QED BY <2>1, <2>2 DEF TypeOK
  <1>6. ~Age BY <1>m DEF Age, Secure, Markers
  <1>7. ~DumpEnd /\ ~DropMarker /\ \A b \in Broadcasts : ~DeleteMarker(b)
    BY DEF DumpEnd, DropMarker, DeleteMarker, Secure
  <1>q. QED BY <1>3, <1>4, <1>5, <1>6, <1>7, MarkerSteps

-----------------------------------------------------------------------------
(* The theorems.                                                           *)

LEMMA Invariance == Spec => []Inv
  <1>1. Inv /\ [Next]_vars => Inv'
    BY TypeNext, PlaceNext, HoldsNext, OwnedNext, SteadyNext, MarkersNext DEF Inv, RefreshInv
  <1>q. QED BY InitInv, <1>1, PTL DEF Spec

\* Pins, markers, playouts and threads keep to their places; the monitor works on
\* configured pins only.
THEOREM TypeCorrect == Spec => []TypeOK
  <1>1. Inv => TypeOK BY DEF Inv
  <1>q. QED BY <1>1, Invariance, PTL

\* Between two refreshes of the monitor (update_alert_indicators) every pin that is
\* on has something that will release it, whatever edges the refreshes have seen.
THEOREM OwnerForEveryPin == Spec => []KeyHasOwner
  <1>1. ASSUME Inv, NEW p \in Pins, Active(p), At("idle")
        PROVE  \/ flags.broadcast /\ (~managed \/ hold[p] \cap {"PTT", "FORWARDING_ALERT"} # {})
               \/ flags.gate /\ "GATE_PENDING" \in hold[p]
               \/ pulse[p].sleep + pulse[p].drop > 0
               \/ p \in byHand
               \/ p = Buzzer /\ sounding
    <2>1. mon = "idle" /\ Owned(p) BY <1>1 DEF Inv, RefreshInv, ActiveOwned, At
    <2>2. ASSUME hold[p] # {}
          PROVE  \/ flags.broadcast /\ hold[p] \cap {"PTT", "FORWARDING_ALERT"} # {}
                 \/ flags.gate /\ "GATE_PENDING" \in hold[p]
      <3>1. PICK k \in hold[p] : k \in Holding BY <1>1, <2>2 DEF Inv, TypeOK
      <3>2. CASE k = "GATE_PENDING" BY <1>1, <2>1, <3>1, <3>2 DEF Inv, RefreshInv, GateHolds
      <3>3. CASE k \in Releasable
        BY <1>1, <2>1, <3>1, <3>3 DEF Inv, RefreshInv, BroadcastHolds, Releasable
      <3>q. QED BY <3>1, <3>2, <3>3 DEF Holding, Releasable
    <2>q. QED BY <2>1, <2>2 DEF Owned, KeyedUnmanaged
  <1>2. Inv => KeyHasOwner BY <1>1 DEF KeyHasOwner
  <1>q. QED BY <1>2, Invariance, PTL

\* What a broadcast holds, nothing un-keys in between but a watchdog.
THEOREM HoldKeepsKeyed == Spec => []HeldIsKeyed
  <1>1. Inv => HeldIsKeyed
    BY DEF Inv, RefreshInv, SteadyKeyed, Steady, KeyedIfHeld, Holder, Releasable, HeldIsKeyed
  <1>q. QED BY <1>1, Invariance, PTL

\* A marker is taken away in its time by the end of its own broadcast only: no end of
\* another playout that reads whose it is (clear_broadcast_active), whether it overlaps or
\* not, and no read of the monitor (get_broadcast_state) takes it, unless that deletion had
\* been decided before the marker was written.
THEOREM MarkerKept == Spec => MarkerOutlivesOthers
  <1>1. Inv /\ [Next]_vars =>
            [/\ marker # None /\ ~marker.stale /\ marker.clean
             /\ dump = "idle" /\ marker' = None
             => phase[marker.of] = "delete"]_vars
    <2> SUFFICES ASSUME Inv, [Next]_vars, Secure, dump = "idle", marker' = None
                 PROVE  phase[marker.of] = "delete"
      BY DEF Secure
    <2>t. TypeOK /\ MarkersKnown BY DEF Inv
    <2>m. marker \in Markers BY <2>t DEF TypeOK, Secure, Markers
    <2>n. None \notin Markers BY ConstantsAssumption DEF Markers
    <2>1. ASSUME NEW c \in Broadcasts, DeleteMarker(c) PROVE phase[marker.of] = "delete"
      <3>1. phase[c] = "delete" BY <2>1 DEF DeleteMarker, Goes
      <3>q. QED BY <2>t, <3>1 DEF MarkersKnown
    <2>2. ~DropMarker BY <2>t DEF DropMarker, At, MarkersKnown
    <2>3. ASSUME NEW c \in Broadcasts, SetActive(c) PROVE FALSE
      <3>1. marker' \in Markers BY <2>3 DEF SetActive, Markers
      <3>q. QED BY <2>n, <3>1
    <2>4. ASSUME NEW c \in Broadcasts, ReadOwnerFails(c) PROVE FALSE
      <3>1. marker' = [marker EXCEPT !.clean = @ /\ marker.of = c] BY <2>4 DEF ReadOwnerFails, Secure
      <3>2. marker' \in Markers BY <2>m, <3>1 DEF Markers
      <3>q. QED BY <2>n, <3>2
    <2>5. ~Age
      <3>1. Age => marker' \in Markers BY <2>m DEF Age, Markers
      <3>q. QED BY <2>n, <3>1
    <2>6. ~DumpEnd BY DEF DumpEnd
    <2>q. QED BY <2>t, <2>1, <2>2, <2>3, <2>4, <2>5, <2>6, MarkerSteps DEF Secure
  <1>q. QED BY <1>1, Invariance, PTL DEF Spec, MarkerOutlivesOthers
=============================================================================
