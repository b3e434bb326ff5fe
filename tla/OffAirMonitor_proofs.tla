------------------------- MODULE OffAirMonitor_proofs --------------------------
(***************************************************************************)
(* Proofs about OffAirMonitor, for any stations and programmes.  The       *)
(* recording of a parked alert is followed from the end of its ring: the   *)
(* header it began with moves back by one place with every chunk, until    *)
(* the ring is full.  That an alert is dispatched once follows from the    *)
(* order in which the stations send and the queues keep their chunks.      *)
(***************************************************************************)
EXTENDS OffAirMonitor, SequenceTheorems, TLAPS

-----------------------------------------------------------------------------
(* The inductive invariant.                                                *)

\* The chunk n places from the end.
Back(q, n) == q[Len(q) - n + 1]

\* The ring q has kept what was added since the header of a, n chunks ago, up to its limit.
Holds(q, n, a, strong) ==
    /\ n \in Nat \ {0} /\ Len(q) >= 1 /\ (Len(q) >= n \/ Len(q) >= CaptureMax)
    /\ n <= Len(q) => /\ Back(q, n).kind \in {"header", "faint"}
                      /\ Event[Back(q, n).of] = Event[a]
                      /\ strong => \E m \in 1..n : Back(q, m).kind = "header"

Recorded ==
    \A s \in Sources : pending[s] # NoAlert =>
        s \in capturing /\ Holds(ring[s], added[s] - anchor[s], pending[s], s \in sound)

\* What was dispatched.
Honest(d) ==
    /\ d.whole => /\ d.start.kind \in {"header", "faint"} /\ Event[d.start.of] = Event[d.of]
                  /\ d.sound => d.strong
    /\ d.verdict = "forwarded" => d.sound

Dispatched == /\ \A i \in DOMAIN out : Honest(out[i])
              /\ calling => out # <<>>

\* The place of an alert in a programme.
Sends(s) == {Programme[s][i] : i \in DOMAIN Programme[s]}
Turn(s, a) == CHOOSE i \in DOMAIN Programme[s] : Programme[s][i] = a

\* The alert has begun, or is over, after n chunks.
Begun(s, a, n) == a \in Sends(s) /\ Span * (Turn(s, a) - 1) < n
Ended(s, a, n) == Span * Turn(s, a) <= n

\* Queues keep the order of the programme; the EOM is the last of its alert.
Queued ==
    \A s \in Sources :
        /\ aired[s] <= Span * Len(Programme[s])
        /\ \A k \in DOMAIN queue[s] :
              /\ Begun(s, queue[s][k].of, aired[s])
              /\ queue[s][k].kind = "eom" => Ended(s, queue[s][k].of, aired[s])
        /\ \A k, l \in DOMAIN queue[s] : k < l =>
              /\ Turn(s, queue[s][k].of) <= Turn(s, queue[s][l].of)
              /\ queue[s][k].kind = "eom" => Turn(s, queue[s][k].of) < Turn(s, queue[s][l].of)

\* Nothing before the parked alert is still to come.
Parked ==
    \A s \in Sources : pending[s] # NoAlert =>
        /\ Begun(s, pending[s], aired[s])
        /\ \A k \in DOMAIN queue[s] : Turn(s, pending[s]) <= Turn(s, queue[s][k].of)

\* Nothing of an alert that its EOM, or a later one, dispatched.
Past(s, a) ==
    /\ Ended(s, a, aired[s])
    /\ \A k \in DOMAIN queue[s] : Turn(s, a) < Turn(s, queue[s][k].of)
    /\ pending[s] # NoAlert => Turn(s, a) < Turn(s, pending[s])
Finished ==
    \A i \in DOMAIN out : out[i].why = "eom" =>
        \A s \in Sources : out[i].of \in Sends(s) => Past(s, out[i].of)

Inv == TypeOK /\ Recorded /\ Dispatched /\ Queued /\ Parked /\ Finished /\ OnceUnlessTimedOut

-----------------------------------------------------------------------------
(* The end of a recording.                                                 *)

LEMMA SuffixIs ==
    ASSUME NEW S, NEW q \in Seq(S), NEW n \in Nat
    PROVE  /\ Suffix(q, n) \in Seq(S)
           /\ Len(Suffix(q, n)) = IF n < Len(q) THEN n ELSE Len(q)
           /\ \A m \in 1..Len(Suffix(q, n)) : Back(Suffix(q, n), m) = Back(q, m)
  <1>1. CASE n < Len(q)
    <2>1. Suffix(q, n) = SubSeq(q, Len(q) - n + 1, Len(q)) BY <1>1 DEF Suffix
    <2>2. Suffix(q, n) \in Seq(S) /\ Len(Suffix(q, n)) = n
          /\ \A i \in 1..n : Suffix(q, n)[i] = q[Len(q) - n + i]
      BY <1>1, <2>1
    <2>3. ASSUME NEW m \in 1..n PROVE Back(Suffix(q, n), m) = Back(q, m)
      <3>1. n - m + 1 \in 1..n OBVIOUS
      <3>2. Suffix(q, n)[n - m + 1] = q[Len(q) - n + (n - m + 1)] BY <2>2, <3>1
      <3>3. Len(q) - n + (n - m + 1) = Len(q) - m + 1 OBVIOUS
      <3>q. QED BY <2>2, <3>2, <3>3 DEF Back
    <2>q. QED BY <1>1, <2>2, <2>3
  <1>2. CASE ~(n < Len(q))
    <2>1. Suffix(q, n) = SubSeq(q, 1, Len(q)) BY <1>2 DEF Suffix
    <2>2. SubSeq(q, 1, Len(q)) = q OBVIOUS
    <2>q. QED BY <1>2, <2>1, <2>2
  <1>q. QED BY <1>1, <1>2

\* The ring with one more chunk, trimmed.
LEMMA RingIs ==
    ASSUME NEW q \in Seq(Chunk), NEW c \in Chunk, NEW n \in Nat \ {0}
    PROVE  /\ Suffix(Append(q, c), n) \in Seq(Chunk)
           /\ Len(Suffix(Append(q, c), n)) = IF n < Len(q) + 1 THEN n ELSE Len(q) + 1
           /\ Back(Suffix(Append(q, c), n), 1) = c
           /\ \A m \in 1..Len(q) : m + 1 <= Len(Suffix(Append(q, c), n)) =>
                 Back(Suffix(Append(q, c), n), m + 1) = Back(q, m)
  <1> DEFINE u == Append(q, c)
             r == Suffix(u, n)
  <1>1. u \in Seq(Chunk) /\ Len(u) = Len(q) + 1 /\ u[Len(q) + 1] = c
        /\ \A i \in 1..Len(q) : u[i] = q[i]
    OBVIOUS
  <1>2. Len(q) \in Nat OBVIOUS
  <1> HIDE DEF u
  <1>3. r \in Seq(Chunk) /\ Len(r) = (IF n < Len(u) THEN n ELSE Len(u))
        /\ \A m \in 1..Len(r) : Back(r, m) = Back(u, m)
    BY <1>1, SuffixIs
  <1> HIDE DEF r
  <1>4. Len(r) = IF n < Len(q) + 1 THEN n ELSE Len(q) + 1 BY <1>1, <1>3
  <1>5. 1 \in 1..Len(r) BY <1>2, <1>4
  <1>6. Back(u, 1) = c BY <1>1, <1>2 DEF Back
  <1>7. ASSUME NEW m \in 1..Len(q), m + 1 <= Len(r) PROVE Back(r, m + 1) = Back(q, m)
    <2>1. m + 1 \in 1..Len(r) BY <1>7, <1>2, <1>4
    <2>2. Len(u) - (m + 1) + 1 = Len(q) - m + 1 /\ Len(q) - m + 1 \in 1..Len(q) BY <1>1, <1>2
    <2>3. Back(u, m + 1) = q[Len(q) - m + 1] BY <1>1, <2>2 DEF Back
    <2>q. QED BY <1>3, <2>1, <2>3 DEF Back
  <1>q. QED BY <1>3, <1>4, <1>5, <1>6, <1>7 DEF r, u

LEMMA Sizes ==
    /\ PreRoll \in Nat \ {0} /\ CaptureMax \in Nat \ {0} /\ Bursts \in Nat \ {0}
    /\ Span \in Nat /\ Span >= 3
  BY SizesAssumption DEF Span

\* A chunk more on the recording of a parked alert.
LEMMA HoldsKept ==
    ASSUME NEW q \in Seq(Chunk), NEW c \in Chunk, NEW n, NEW a, NEW strong \in BOOLEAN, Holds(q, n, a, strong)
    PROVE  LET r == Suffix(Append(q, c), CaptureMax) IN
           /\ \A b : Event[b] = Event[a] => Holds(r, n + 1, b, strong)
           /\ \A b : Event[b] = Event[a] /\ c.kind = "header" => Holds(r, n + 1, b, TRUE)
  <1> DEFINE r == Suffix(Append(q, c), CaptureMax)
  <1>1. /\ r \in Seq(Chunk) /\ Len(r) = IF CaptureMax < Len(q) + 1 THEN CaptureMax ELSE Len(q) + 1
        /\ Back(r, 1) = c
        /\ \A m \in 1..Len(q) : m + 1 <= Len(r) => Back(r, m + 1) = Back(q, m)
    BY Sizes, RingIs
  <1>2. n \in Nat \ {0} /\ Len(q) >= 1 /\ (Len(q) >= n \/ Len(q) >= CaptureMax) BY DEF Holds
  <1>3. Len(q) \in Nat /\ CaptureMax \in Nat \ {0} BY Sizes
  <1> HIDE DEF r
  <1>4. n + 1 \in Nat \ {0} /\ Len(r) >= 1 /\ (Len(r) >= n + 1 \/ Len(r) >= CaptureMax) BY <1>1, <1>2, <1>3
  <1>5. ASSUME n + 1 <= Len(r)
        PROVE  /\ Back(r, n + 1).kind \in {"header", "faint"} /\ Event[Back(r, n + 1).of] = Event[a]
               /\ strong => \E m \in 1..n + 1 : Back(r, m).kind = "header"
               /\ c.kind = "header" => \E m \in 1..n + 1 : Back(r, m).kind = "header"
    <2>1. n \in 1..Len(q) BY <1>1, <1>2, <1>3, <1>5
    <2>2. Back(r, n + 1) = Back(q, n) BY <1>1, <1>5, <2>1
    <2>3. ASSUME strong PROVE \E m \in 1..n + 1 : Back(r, m).kind = "header"
      <3>1. PICK m \in 1..n : Back(q, m).kind = "header" BY <2>1, <2>3 DEF Holds
      <3>2. m \in 1..Len(q) /\ m + 1 <= Len(r) /\ m + 1 \in 1..n + 1 BY <1>2, <1>3, <1>5, <2>1
      <3>3. Back(r, m + 1).kind = "header" BY <1>1, <3>1, <3>2
      <3>q. QED BY <3>2, <3>3
    <2>4. 1 \in 1..n + 1 BY <1>2
    <2>q. QED BY <1>1, <2>1, <2>2, <2>3, <2>4 DEF Holds
  <1>q. QED BY <1>4, <1>5 DEF Holds, r

\* The recording of a header just decoded.
LEMMA HoldsNew ==
    ASSUME NEW q \in Seq(Chunk), NEW c \in Chunk, c.kind \in {"header", "faint"}, NEW n \in Nat \ {0},
           NEW strong \in BOOLEAN, strong => c.kind = "header"
    PROVE  Holds(Suffix(Append(q, c), n), 1, c.of, strong)
  <1> DEFINE r == Suffix(Append(q, c), n)
  <1>1. Len(r) = (IF n < Len(q) + 1 THEN n ELSE Len(q) + 1) /\ Back(r, 1) = c BY RingIs
  <1>2. Len(q) \in Nat OBVIOUS
  <1> HIDE DEF r
  <1>3. Len(r) >= 1 /\ 1 \in 1..1 BY <1>1, <1>2
  <1>q. QED BY <1>1, <1>3 DEF Holds, r

\* A clip of n chunks for the alert a, if it is whole.
Tells(clip, n, a, strong) ==
    /\ clip \in Seq(Chunk) /\ clip[1] \in Chunk
    /\ Len(clip) = n => /\ clip[1].kind \in {"header", "faint"} /\ Event[clip[1].of] = Event[a]
                        /\ strong => \E i \in DOMAIN clip : clip[i].kind = "header"

\* The clip that goes with a dispatched alert.
LEMMA ClipIs ==
    ASSUME NEW q \in Seq(Chunk), NEW n, NEW a, NEW strong \in BOOLEAN, Holds(q, n, a, strong)
    PROVE  Tells(Suffix(q, n), n, a, strong)
  <1> DEFINE clip == Suffix(q, n)
  <1>1. n \in Nat \ {0} /\ Len(q) >= 1 /\ Len(q) \in Nat BY DEF Holds
  <1>2. /\ clip \in Seq(Chunk) /\ Len(clip) = IF n < Len(q) THEN n ELSE Len(q)
        /\ \A m \in 1..Len(clip) : Back(clip, m) = Back(q, m)
    BY <1>1, SuffixIs
  <1> HIDE DEF clip
  <1>3. clip[1] \in Chunk /\ DOMAIN clip = 1..Len(clip)
    <2>1. Len(clip) >= 1 BY <1>1, <1>2
    <2>q. QED BY <1>2, <2>1
  <1>4. ASSUME Len(clip) = n
        PROVE  /\ clip[1].kind \in {"header", "faint"} /\ Event[clip[1].of] = Event[a]
               /\ strong => \E i \in DOMAIN clip : clip[i].kind = "header"
    <2>1. n <= Len(q) /\ n \in 1..Len(clip) /\ n - n + 1 = 1 BY <1>1, <1>2, <1>4
    <2>2. clip[1] = Back(q, n) BY <1>2, <1>4, <2>1 DEF Back
    <2>3. ASSUME strong PROVE \E i \in DOMAIN clip : clip[i].kind = "header"
      <3>1. PICK m \in 1..n : Back(q, m).kind = "header" BY <2>1, <2>3 DEF Holds
      <3>2. Back(clip, m).kind = "header" BY <1>2, <1>4, <3>1
      <3>3. n - m + 1 \in 1..Len(clip) BY <1>1, <1>4
      <3>4. clip[n - m + 1].kind = "header" BY <1>4, <3>2 DEF Back
      <3>q. QED BY <1>3, <3>3, <3>4
    <2>q. QED BY <2>1, <2>2, <2>3 DEF Holds
  <1>q. QED BY <1>2, <1>3, <1>4 DEF clip, Tells

-----------------------------------------------------------------------------
(* The programme.                                                          *)

\* The alert the n-th chunk is of.
Slot(n) == (n - 1) \div Span + 1

LEMMA SlotIs ==
    ASSUME NEW n \in Nat \ {0}
    PROVE  /\ Slot(n) \in Nat \ {0}
           /\ Span * (Slot(n) - 1) < n /\ n <= Span * Slot(n)
           /\ (n - 1) % Span \in 0..Span - 1
           /\ (n - 1) % Span = Span - 1 => n = Span * Slot(n)
  <1> DEFINE q == (n - 1) \div Span
             r == (n - 1) % Span
  <1>1. Span \in Nat /\ Span > 0 /\ n - 1 \in Nat BY Sizes
  <1>2. q \in Nat /\ r \in 0..Span - 1 /\ n - 1 = Span * q + r BY <1>1
  <1> HIDE DEF q, r
  <1>3. Span * (q + 1) = Span * q + Span /\ Span * q \in Nat BY <1>1, <1>2
  <1>4. Slot(n) = q + 1 BY DEF Slot, q
  <1>5. Slot(n) - 1 = q BY <1>2, <1>4
  <1>6. Span * q < n /\ n <= Span * (q + 1) BY <1>1, <1>2, <1>3
  <1>7. r = Span - 1 => n = Span * (q + 1) BY <1>1, <1>2, <1>3
  <1>q. QED BY <1>2, <1>4, <1>5, <1>6, <1>7 DEF r

LEMMA SpanGrows ==
    ASSUME NEW i \in Int, NEW j \in Int
    PROVE  (i <= j <=> Span * i <= Span * j) /\ Span * i \in Int
  BY Sizes

\* What has begun comes no later than the next chunk, what is over comes before it.
LEMMA SlotAfter ==
    ASSUME NEW n \in Nat, NEW i \in Nat \ {0}
    PROVE  /\ Span * (i - 1) < n => i <= Slot(n + 1)
           /\ Span * i <= n => i < Slot(n + 1)
  <1> DEFINE k == Slot(n + 1)
  <1>1. k \in Nat \ {0} /\ Span * (k - 1) < n + 1 /\ n + 1 <= Span * k BY SlotIs
  <1> HIDE DEF k
  <1>2. Span * (i - 1) \in Int /\ Span * i \in Int /\ Span * k \in Int
    <2>1. i - 1 \in Int /\ i \in Int /\ k \in Int BY <1>1
    <2>q. QED BY <2>1, SpanGrows
  <1>3. ASSUME Span * (i - 1) < n PROVE i <= k
    <2>1. Span * (i - 1) < Span * k BY <1>1, <1>2, <1>3
    <2>2. ~(k <= i - 1) BY <1>1, <2>1, SpanGrows, <1>2
    <2>q. QED BY <1>1, <2>2
  <1>4. ASSUME Span * i <= n PROVE i < k
    <2>1. Span * i < Span * k BY <1>1, <1>2, <1>4
    <2>2. ~(k <= i) BY <1>1, <2>1, SpanGrows, <1>2
    <2>q. QED BY <1>1, <2>2
  <1>q. QED BY <1>3, <1>4 DEF k

LEMMA TurnIs ==
    ASSUME NEW s \in Sources
    PROVE  /\ Len(Programme[s]) \in Nat /\ DOMAIN Programme[s] = 1..Len(Programme[s])
           /\ \A i \in 1..Len(Programme[s]) : /\ Programme[s][i] \in Alerts \cap Sends(s)
                                              /\ Turn(s, Programme[s][i]) = i
           /\ \A a \in Sends(s) : a \in Alerts /\ Turn(s, a) \in Nat \ {0} /\ Turn(s, a) <= Len(Programme[s])
           /\ \A a \in Sends(s) : \A t \in Sources : a \in Sends(t) => s = t
  <1>1. Programme[s] \in Seq(Alerts) BY ProgrammeAssumption
  <1>2. Len(Programme[s]) \in Nat /\ DOMAIN Programme[s] = 1..Len(Programme[s]) BY <1>1
  <1>3. ASSUME NEW i \in 1..Len(Programme[s])
        PROVE  Programme[s][i] \in Alerts \cap Sends(s) /\ Turn(s, Programme[s][i]) = i
    <2>1. Programme[s][i] \in Alerts BY <1>1
    <2>2. \A j \in DOMAIN Programme[s] : Programme[s][j] = Programme[s][i] => j = i
      BY <1>2, ProgrammeAssumption
    <2>3. Turn(s, Programme[s][i]) = i BY <1>2, <2>2 DEF Turn
    <2>q. QED BY <1>2, <2>1, <2>3 DEF Sends
  <1>4. \A a \in Sends(s) : \E i \in 1..Len(Programme[s]) : a = Programme[s][i] BY <1>2 DEF Sends
  <1>5. \A a \in Sends(s) : a \in Alerts /\ Turn(s, a) \in Nat \ {0} /\ Turn(s, a) <= Len(Programme[s])
    BY <1>2, <1>3, <1>4
  <1>6. \A a \in Sends(s) : \A t \in Sources : a \in Sends(t) => s = t
    BY ProgrammeAssumption DEF Sends
  <1>q. QED BY <1>2, <1>3, <1>5, <1>6

\* The next chunk a station sends.
LEMMA SentIs ==
    ASSUME NEW s \in Sources, NEW n \in Nat \ {0}, n <= Span * Len(Programme[s])
    PROVE  /\ Sent(s, n) \in Chunk /\ Sent(s, n).of \in Sends(s) /\ Turn(s, Sent(s, n).of) = Slot(n)
           /\ Sent(s, n).kind \in {"header", "voice", "eom"}
           /\ Sent(s, n).kind = "eom" => n = Span * Slot(n)
  <1>1. /\ Slot(n) \in Nat \ {0} /\ Span * (Slot(n) - 1) < n /\ n <= Span * Slot(n)
        /\ (n - 1) % Span \in 0..Span - 1
        /\ (n - 1) % Span = Span - 1 => n = Span * Slot(n)
    BY SlotIs
  <1>2. Len(Programme[s]) \in Nat BY TurnIs
  <1>3. Slot(n) <= Len(Programme[s])
    <2>1. Span * (Slot(n) - 1) < Span * Len(Programme[s]) BY <1>1, <1>2, Sizes
    <2>2. Len(Programme[s]) \in Int /\ Slot(n) - 1 \in Int BY <1>1, <1>2
    <2>3. /\ Len(Programme[s]) <= Slot(n) - 1 <=> Span * Len(Programme[s]) <= Span * (Slot(n) - 1)
          /\ Span * Len(Programme[s]) \in Int /\ Span * (Slot(n) - 1) \in Int
      BY <2>2, SpanGrows
    <2>4. ~(Len(Programme[s]) <= Slot(n) - 1) BY <2>1, <2>3
    <2>q. QED BY <1>1, <1>2, <2>4
  <1>4. Slot(n) \in 1..Len(Programme[s]) BY <1>1, <1>2, <1>3
  <1>5. Sent(s, n) = [of |-> Programme[s][Slot(n)],
                      kind |-> IF (n - 1) % Span < Bursts THEN "header"
                               ELSE IF (n - 1) % Span = Bursts THEN "voice" ELSE "eom"]
    BY DEF Sent, Slot
  <1>6. Sent(s, n).kind = "eom" => (n - 1) % Span = Span - 1 BY <1>1, <1>5, Sizes DEF Span
  <1>7. Sent(s, n).of = Programme[s][Slot(n)] /\ Sent(s, n).kind \in {"header", "voice", "eom"} BY <1>5
  <1>q. QED BY <1>1, <1>4, <1>5, <1>6, <1>7, TurnIs DEF Chunk, Kinds

-----------------------------------------------------------------------------
(* The initial states.                                                     *)

Notes == [of : Alerts, why : Reasons, start : Chunk, whole : BOOLEAN,
          strong : BOOLEAN, sound : BOOLEAN, verdict : Verdicts]

LEMMA InitInv == Init => Inv
  <1> SUFFICES ASSUME Init PROVE Inv OBVIOUS
  <1> USE DEF Init
  <1>1. <<>> \in Seq(Chunk) /\ DOMAIN <<>> = {} OBVIOUS
  <1>2. MaxOutages \in Nat /\ MaxBad \in Nat BY SizesAssumption
  <1>3. TypeOK
    <2>1. out \in Seq(Notes) OBVIOUS
    <2>2. queue \in [Sources -> Seq(Chunk)] /\ ring \in [Sources -> Seq(Chunk)] BY <1>1
    <2>3. aired \in [Sources -> Nat] /\ added \in [Sources -> Nat] /\ anchor \in [Sources -> Nat] OBVIOUS
    <2>4. pending \in [Sources -> Alerts \cup {NoAlert}] /\ at \in {"poll", "timeout"} /\ calling \in BOOLEAN
      OBVIOUS
    <2>5. /\ running \subseteq Sources /\ watched \subseteq Sources /\ todo \subseteq Sources
          /\ capturing \subseteq Sources /\ sound \subseteq Sources /\ overdue \subseteq Sources
      OBVIOUS
    <2>6. outages \in 0..MaxOutages /\ bad \in 0..MaxBad BY <1>2
    <2> HIDE DEF Init
    <2>q. QED BY <2>1, <2>2, <2>3, <2>4, <2>5, <2>6 DEF TypeOK, Notes
  <1>4. Recorded BY DEF Recorded
  <1>5. Dispatched BY <1>1 DEF Dispatched
  <1>6. Queued
    <2> SUFFICES ASSUME NEW s \in Sources PROVE 0 <= Span * Len(Programme[s])
      BY <1>1 DEF Queued
    <2>1. Len(Programme[s]) \in Int /\ 0 \in Int /\ 0 <= Len(Programme[s]) BY TurnIs
    <2>2. Span * 0 <= Span * Len(Programme[s]) BY <2>1, SpanGrows
    <2>q. QED BY <2>2, Sizes
  <1>7. Parked BY DEF Parked
  <1>8. Finished BY <1>1 DEF Finished
  <1>9. OnceUnlessTimedOut BY <1>1 DEF OnceUnlessTimedOut
  <1>q. QED BY <1>3, <1>4, <1>5, <1>6, <1>7, <1>8, <1>9 DEF Inv

-----------------------------------------------------------------------------
(* The stations.                                                           *)

Lines == Queued /\ Parked /\ Finished

LEMMA AirNext ==
    ASSUME Inv, NEW s \in Sources, Air(s)
    PROVE  Inv'
  <1> DEFINE n == aired[s] + 1
             c == Sent(s, n)
  <1>0. TypeOK /\ Lines BY DEF Inv, Lines
  <1>1. /\ aired' = [aired EXCEPT ![s] = aired[s] + 1] /\ aired[s] < Span * Len(Programme[s])
        /\ running' = running /\ outages' = outages /\ UNCHANGED <<loopVars, calling, ringVars, heldVars, out>>
    BY DEF Air
  <1>2. aired \in [Sources -> Nat] /\ queue \in [Sources -> Seq(Chunk)] /\ bad \in 0..MaxBad
    BY <1>0 DEF TypeOK
  <1>3. aired'[s] = n /\ n \in Nat \ {0} /\ aired' \in [Sources -> Nat]
        /\ \A t \in Sources \ {s} : aired'[t] = aired[t]
    BY <1>1, <1>2
  <1>4. n <= Span * Len(Programme[s])
    <2>1. Len(Programme[s]) \in Int BY TurnIs
    <2>2. Span * Len(Programme[s]) \in Int BY <2>1, SpanGrows
    <2>q. QED BY <1>1, <1>2, <2>2
  <1>5. /\ c \in Chunk /\ c.of \in Sends(s) /\ Turn(s, c.of) = Slot(n)
        /\ c.kind \in {"header", "voice", "eom"} /\ (c.kind = "eom" => n = Span * Slot(n))
    BY <1>3, <1>4, SentIs
  <1>6. Slot(n) \in Nat \ {0} /\ Span * (Slot(n) - 1) < n BY <1>3, SlotIs
  <1> HIDE DEF c, n
  <1>7. \/ queue' = queue /\ bad' = bad
        \/ \E d \in Chunk : /\ d.of = c.of /\ (d.kind = "eom" => c.kind = "eom")
                            /\ queue' = [queue EXCEPT ![s] = Append(queue[s], d)]
                            /\ bad' \in 0..MaxBad
    <2>1. CASE s \notin running /\ UNCHANGED <<queue, bad>> BY <2>1
    <2>2. CASE \E k \in Received(s, c.kind) :
                  /\ queue' = [queue EXCEPT ![s] = Append(@, [c EXCEPT !.kind = k])]
                  /\ bad' = IF k = c.kind THEN bad ELSE bad + 1
                  /\ bad' <= MaxBad
      <3>1. PICK k \in Received(s, c.kind) :
                  /\ queue' = [queue EXCEPT ![s] = Append(queue[s], [c EXCEPT !.kind = k])]
                  /\ bad' = IF k = c.kind THEN bad ELSE bad + 1
                  /\ bad' <= MaxBad
        BY <2>2
      <3>2. k \in {c.kind, "faint", "noise"} BY DEF Received
      <3>3. k \in Kinds BY <1>5, <3>2 DEF Kinds
      <3> DEFINE d == [c EXCEPT !.kind = k]
      <3>4. d \in Chunk /\ d.of = c.of /\ d.kind = k BY <1>5, <3>3 DEF Chunk
      <3>5. bad' \in 0..MaxBad
        <4>1. bad' = bad \/ bad' = bad + 1 BY <3>1
        <4>q. QED BY <1>2, <3>1, <4>1, SizesAssumption
      <3>6. queue' = [queue EXCEPT ![s] = Append(queue[s], d)] BY <3>1
      <3> HIDE DEF d
      <3>q. QED BY <3>2, <3>4, <3>5, <3>6
    <2>q. QED BY <1>1, <1>3, <2>1, <2>2 DEF Air, c
  <1>8. queue' \in [Sources -> Seq(Chunk)] /\ bad' \in 0..MaxBad
    <2>1. \A d \in Chunk : Append(queue[s], d) \in Seq(Chunk) BY <1>2
    <2>q. QED BY <1>2, <1>7, <2>1
  <1>9. TypeOK' BY <1>0, <1>1, <1>3, <1>8 DEF TypeOK, loopVars, ringVars, heldVars
  <1>10. \A t \in Sources \ {s} : queue'[t] = queue[t] BY <1>2, <1>7
  <1>11. \A k \in DOMAIN queue'[s] :
            \/ k \in DOMAIN queue[s] /\ queue'[s][k] = queue[s][k]
            \/ /\ k = Len(queue[s]) + 1 /\ queue'[s][k].of = c.of
               /\ queue'[s][k].kind = "eom" => c.kind = "eom"
    <2>1. queue[s] \in Seq(Chunk) BY <1>2
    <2>2. CASE queue' = queue BY <2>2
    <2>3. CASE \E d \in Chunk : /\ d.of = c.of /\ (d.kind = "eom" => c.kind = "eom")
                                /\ queue' = [queue EXCEPT ![s] = Append(queue[s], d)]
      <3>1. PICK d \in Chunk : /\ d.of = c.of /\ (d.kind = "eom" => c.kind = "eom")
                               /\ queue' = [queue EXCEPT ![s] = Append(queue[s], d)]
        BY <2>3
      <3>2. queue'[s] = Append(queue[s], d) BY <1>2, <3>1
      <3>q. QED BY <2>1, <3>1, <3>2
    <2>q. QED BY <1>7, <2>2, <2>3
  <1>12. DOMAIN queue[s] = 1..Len(queue[s]) /\ Len(queue[s]) \in Nat BY <1>2
  <1>13. ASSUME NEW a \in Sends(s), Begun(s, a, aired[s]) PROVE Begun(s, a, n) /\ Turn(s, a) <= Slot(n)
    <2>1. Turn(s, a) \in Nat \ {0} BY TurnIs
    <2>2. Turn(s, a) - 1 \in Int BY <2>1
    <2>3. Span * (Turn(s, a) - 1) \in Int BY <2>2, SpanGrows
    <2>4. Span * (Turn(s, a) - 1) < n /\ Span * (Turn(s, a) - 1) < aired[s]
      BY <1>2, <1>13, <2>3 DEF Begun, n
    <2>5. Turn(s, a) <= Slot(aired[s] + 1) BY <1>2, <2>1, <2>4, SlotAfter
    <2>q. QED BY <1>3, <2>4, <2>5 DEF Begun, n
  <1>14. ASSUME NEW a \in Sends(s), Ended(s, a, aired[s]) PROVE Ended(s, a, n) /\ Turn(s, a) < Slot(n)
    <2>1. Turn(s, a) \in Nat \ {0} BY TurnIs
    <2>2. Turn(s, a) \in Int BY <2>1
    <2>3. Span * Turn(s, a) \in Int BY <2>2, SpanGrows
    <2>4. Span * Turn(s, a) <= aired[s] BY <1>14 DEF Ended
    <2>5. Turn(s, a) < Slot(aired[s] + 1) BY <1>2, <2>1, <2>4, SlotAfter
    <2>6. Span * Turn(s, a) <= n BY <1>2, <2>3, <2>4 DEF n
    <2>q. QED BY <1>3, <2>5, <2>6 DEF Ended, n
  <1>15. Begun(s, c.of, n) /\ (c.kind = "eom" => Ended(s, c.of, n))
    BY <1>3, <1>5, <1>6 DEF Begun, Ended
  <1>16. \A k \in DOMAIN queue[s] : queue[s][k].of \in Sends(s) /\ Begun(s, queue[s][k].of, aired[s])
    BY <1>0 DEF Lines, Queued, Begun
  <1>17. Queued'
    <2>1. ASSUME NEW k \in DOMAIN queue'[s]
          PROVE  /\ Begun(s, queue'[s][k].of, n)
                 /\ queue'[s][k].kind = "eom" => Ended(s, queue'[s][k].of, n)
      <3>1. CASE k \in DOMAIN queue[s] /\ queue'[s][k] = queue[s][k]
        BY <1>0, <1>13, <1>14, <1>16, <3>1 DEF Lines, Queued
      <3>2. CASE queue'[s][k].of = c.of /\ (queue'[s][k].kind = "eom" => c.kind = "eom")
        BY <1>15, <3>2
      <3>q. QED BY <1>11, <3>1, <3>2
    <2>2. ASSUME NEW k \in DOMAIN queue'[s], NEW l \in DOMAIN queue'[s], k < l
          PROVE  /\ Turn(s, queue'[s][k].of) <= Turn(s, queue'[s][l].of)
                 /\ queue'[s][k].kind = "eom" => Turn(s, queue'[s][k].of) < Turn(s, queue'[s][l].of)
      <3>1. k \in DOMAIN queue[s] /\ queue'[s][k] = queue[s][k]
        <4>1. CASE l \in DOMAIN queue[s] BY <1>11, <1>12, <2>2, <4>1
        <4>2. CASE l = Len(queue[s]) + 1 BY <1>11, <1>12, <2>2, <4>2
        <4>q. QED BY <1>11, <4>1, <4>2
      <3>2. CASE l \in DOMAIN queue[s] /\ queue'[s][l] = queue[s][l]
        BY <1>0, <2>2, <3>1, <3>2 DEF Lines, Queued
      <3>3. CASE queue'[s][l].of = c.of
        <4>1. Turn(s, queue[s][k].of) <= Slot(n) BY <1>13, <1>16, <3>1
        <4>2. queue[s][k].kind = "eom" => Turn(s, queue[s][k].of) < Slot(n)
          BY <1>0, <1>14, <1>16, <3>1 DEF Lines, Queued
        <4>q. QED BY <1>5, <3>1, <3>3, <4>1, <4>2
      <3>q. QED BY <1>11, <3>2, <3>3
    <2>3. ASSUME NEW t \in Sources \ {s}
          PROVE  /\ aired'[t] <= Span * Len(Programme[t])
                 /\ \A k \in DOMAIN queue'[t] :
                       /\ Begun(t, queue'[t][k].of, aired'[t])
                       /\ queue'[t][k].kind = "eom" => Ended(t, queue'[t][k].of, aired'[t])
                 /\ \A k, l \in DOMAIN queue'[t] : k < l =>
                       /\ Turn(t, queue'[t][k].of) <= Turn(t, queue'[t][l].of)
                       /\ queue'[t][k].kind = "eom" => Turn(t, queue'[t][k].of) < Turn(t, queue'[t][l].of)
      BY <1>0, <1>3, <1>10 DEF Lines, Queued, Begun, Ended
    <2>q. QED BY <1>3, <1>4, <2>1, <2>2, <2>3 DEF Queued
  <1>18. pending' = pending /\ out' = out BY <1>1 DEF heldVars
  <1>19. Parked'
    <2> SUFFICES ASSUME NEW t \in Sources, pending[t] # NoAlert
                 PROVE  /\ Begun(t, pending[t], aired'[t])
                        /\ \A k \in DOMAIN queue'[t] : Turn(t, pending[t]) <= Turn(t, queue'[t][k].of)
      BY <1>18 DEF Parked
    <2>1. CASE t = s
      <3>1. pending[s] \in Sends(s) /\ Begun(s, pending[s], aired[s]) BY <1>0, <2>1 DEF Lines, Parked, Begun
      <3>2. Begun(s, pending[s], n) /\ Turn(s, pending[s]) <= Slot(n)
        BY <1>13, <1>18, <3>1 DEF Begun
      <3>3. \A k \in DOMAIN queue[s] : Turn(s, pending[s]) <= Turn(s, queue[s][k].of)
        BY <1>0, <2>1 DEF Lines, Parked
      <3>4. \A k \in DOMAIN queue'[s] : Turn(s, pending[s]) <= Turn(s, queue'[s][k].of)
        BY <1>5, <1>11, <3>2, <3>3
      <3>q. QED BY <1>3, <2>1, <3>2, <3>4
    <2>2. CASE t # s
      <3>1. aired'[t] = aired[t] /\ queue'[t] = queue[t] BY <1>3, <1>10, <2>2
      <3>q. QED BY <1>0, <3>1 DEF Lines, Parked
    <2>q. QED BY <2>1, <2>2
  <1>20. Finished'
    <2> SUFFICES ASSUME NEW i \in DOMAIN out, out[i].why = "eom", NEW t \in Sources, NEW a, a = out[i].of,
                        a \in Sends(t)
                 PROVE  Past(t, a)'
      BY <1>18 DEF Finished, Past
    <2>1. Past(t, a) BY <1>0 DEF Lines, Finished
    <2>2. CASE t = s
      <3>1. Ended(s, a, aired[s]) /\ a \in Sends(s) BY <2>1, <2>2 DEF Past
      <3>2. Ended(s, a, n) /\ Turn(s, a) < Slot(n) BY <1>14, <1>18, <3>1 DEF Ended
      <3>3. \A k \in DOMAIN queue'[s] : Turn(s, a) < Turn(s, queue'[s][k].of)
        BY <1>5, <1>11, <2>1, <2>2, <3>2 DEF Past
      <3>q. QED BY <1>3, <1>18, <2>1, <2>2, <3>2, <3>3 DEF Past
    <2>3. CASE t # s
      <3>1. aired'[t] = aired[t] /\ queue'[t] = queue[t] BY <1>3, <1>10, <2>3
      <3>q. QED BY <1>18, <2>1, <3>1 DEF Past
    <2>q. QED BY <2>2, <2>3
  <1>21. Recorded' BY <1>1 DEF Inv, Recorded, heldVars, ringVars
  <1>22. Dispatched' /\ OnceUnlessTimedOut' BY <1>1 DEF Inv, Dispatched, OnceUnlessTimedOut
  <1>q. QED BY <1>9, <1>17, <1>19, <1>20, <1>21, <1>22 DEF Inv

\* What leaves the queues, the parked alerts and the recordings alone.
LEMMA QuietNext ==
    ASSUME Inv, (\E s \in Sources : Outage(s) \/ Recover(s) \/ Wait(s)) \/ Discover \/ EndPoll
                \/ UNCHANGED vars
    PROVE  Inv'
  <1>0. TypeOK BY DEF Inv
  <1>1. aired' = aired /\ queue' = queue /\ ring' = ring /\ added' = added /\ capturing' = capturing
        /\ pending' = pending /\ sound' = sound /\ anchor' = anchor /\ out' = out /\ calling' = calling
        /\ bad' = bad
    BY DEF Outage, Recover, Wait, Discover, EndPoll, vars, airVars, loopVars, ringVars, heldVars
  <1>2. TypeOK'
    <2>1. overdue' \subseteq Sources
      BY <1>0 DEF TypeOK, Outage, Recover, Wait, Discover, EndPoll, vars, heldVars
    <2>2. running' \subseteq Sources
      BY <1>0 DEF TypeOK, Outage, Recover, Wait, Discover, EndPoll, vars, airVars
    <2>3. outages' \in 0..MaxOutages
      <3>1. outages' = outages \/ (outages < MaxOutages /\ outages' = outages + 1)
        BY DEF Outage, Recover, Wait, Discover, EndPoll, vars, airVars
      <3>q. QED BY <1>0, <3>1, SizesAssumption DEF TypeOK
    <2>4. watched' \subseteq Sources /\ todo' \subseteq Sources /\ at' \in {"poll", "timeout"}
      BY <1>0 DEF TypeOK, Outage, Recover, Wait, Discover, EndPoll, TimedOut, vars, loopVars
    <2>q. QED BY <1>0, <1>1, <2>1, <2>2, <2>3, <2>4 DEF TypeOK
  <1>3. Recorded' /\ Dispatched' BY <1>1 DEF Inv, Recorded, Dispatched
  <1>4. Queued' /\ Parked' BY <1>1 DEF Inv, Queued, Parked
  <1>5. Finished' /\ OnceUnlessTimedOut' BY <1>1 DEF Inv, Finished, Past, OnceUnlessTimedOut
  <1>q. QED BY <1>2, <1>3, <1>4, <1>5 DEF Inv

\* The callback's verdict.
LEMMA DecideNext ==
    ASSUME Inv, NEW v \in Verdicts, Decide(v)
    PROVE  Inv'
  <1> DEFINE k == Len(out)
             d == out[k]
             e == [d EXCEPT !.verdict = v]
  <1>0. TypeOK /\ Dispatched BY DEF Inv
  <1>1. out \in Seq(Notes) /\ out # <<>> BY <1>0 DEF TypeOK, Notes, Dispatched, Decide
  <1>2. k \in DOMAIN out /\ DOMAIN out = 1..k /\ k \in Nat BY <1>1
  <1>3. d \in Notes BY <1>1, <1>2
  <1>4. e \in Notes /\ e.of = d.of /\ e.why = d.why /\ e.whole = d.whole /\ e.start = d.start
        /\ e.sound = d.sound /\ e.strong = d.strong /\ e.verdict = v
    BY <1>3 DEF Notes
  <1>5. out' = [out EXCEPT ![k] = e] /\ calling' = FALSE BY DEF Decide
  <1>6. UNCHANGED <<aired, running, outages, bad, queue, watched, at, todo, ring, added,
                    capturing, pending, sound, overdue, anchor>>
    BY DEF Decide, airVars, loopVars, ringVars, heldVars
  <1>7. v = "forwarded" => d.sound BY DEF Decide
  <1> HIDE DEF e, d
  <1>8. out' \in Seq(Notes) /\ DOMAIN out' = DOMAIN out /\ out' # <<>> /\ out'[k] = e
        /\ \A i \in DOMAIN out : i # k => out'[i] = out[i]
    BY <1>1, <1>2, <1>4, <1>5
  <1>9. TypeOK'
    <2>1. calling' \in BOOLEAN BY <1>5
    <2>2. aired' \in [Sources -> Nat] /\ added' \in [Sources -> Nat] /\ anchor' \in [Sources -> Nat]
          /\ queue' \in [Sources -> Seq(Chunk)] /\ ring' \in [Sources -> Seq(Chunk)]
          /\ pending' \in [Sources -> Alerts \cup {NoAlert}]
      BY <1>0, <1>6 DEF TypeOK
    <2>3. /\ running' \subseteq Sources /\ watched' \subseteq Sources /\ todo' \subseteq Sources
          /\ capturing' \subseteq Sources /\ sound' \subseteq Sources /\ overdue' \subseteq Sources
          /\ outages' \in 0..MaxOutages /\ bad' \in 0..MaxBad /\ at' \in {"poll", "timeout"}
      BY <1>0, <1>6 DEF TypeOK
    <2>q. QED BY <1>8, <2>1, <2>2, <2>3 DEF TypeOK, Notes
  <1>10. \A i \in DOMAIN out : out'[i].of = out[i].of /\ out'[i].why = out[i].why
    BY <1>4, <1>8 DEF d
  <1>11. Dispatched'
    <2>1. Honest(d) BY <1>0, <1>2 DEF Dispatched, d
    <2>2. Honest(e) BY <1>4, <1>7, <2>1 DEF Honest
    <2>3. \A i \in DOMAIN out' : Honest(out'[i]) BY <1>0, <1>8, <2>2 DEF Dispatched
    <2>q. QED BY <1>8, <2>3 DEF Dispatched
  <1>12. Recorded' BY <1>6 DEF Inv, Recorded
  <1>13. Queued' /\ Parked' BY <1>6 DEF Inv, Queued, Parked
  <1>14. Finished'
    <2> SUFFICES ASSUME NEW i \in DOMAIN out, out[i].why = "eom", NEW t \in Sources, NEW a, a = out[i].of,
                        a \in Sends(t)
                 PROVE  Past(t, a)'
      BY <1>8, <1>10 DEF Finished, Past
    <2>1. Past(t, a) BY DEF Inv, Finished
    <2>q. QED BY <1>6, <2>1 DEF Past
  <1>15. OnceUnlessTimedOut' BY <1>8, <1>10 DEF Inv, OnceUnlessTimedOut
  <1>q. QED BY <1>9, <1>11, <1>12, <1>13, <1>14, <1>15 DEF Inv

-----------------------------------------------------------------------------
(* A dispatch.                                                             *)

LEMMA DispatchIs ==
    ASSUME TypeOK, NEW s \in Sources, NEW why \in Reasons, Dispatch(s, why), ring'[s] \in Seq(Chunk),
           pending[s] # NoAlert =>
              Holds(ring'[s], added'[s] - anchor[s], pending[s], s \in sound)
    PROVE  /\ pending' = [pending EXCEPT ![s] = NoAlert] /\ anchor' = [anchor EXCEPT ![s] = 0]
           /\ capturing' = capturing \ {s} /\ sound' = sound \ {s} /\ overdue' = overdue \ {s}
           /\ pending[s] = NoAlert => out' = out /\ calling' = calling
           /\ pending[s] # NoAlert =>
                 /\ calling' = TRUE
                 /\ \E d \in Notes : out' = Append(out, d) /\ d.of = pending[s] /\ d.why = why /\ Honest(d)
  <1>1. CASE pending[s] = NoAlert BY <1>1 DEF Dispatch
  <1>2. CASE pending[s] # NoAlert
    <2> DEFINE n == added'[s] - anchor[s]
               clip == Suffix(ring'[s], n)
               strong == \E i \in DOMAIN clip : clip[i].kind = "header"
               snd == s \in sound
               d == [of |-> pending[s], why |-> why, start |-> clip[1], whole |-> Len(clip) = n,
                     strong |-> strong, sound |-> snd, verdict |-> "deciding"]
    <2>1. out' = Append(out, d) /\ calling' = TRUE BY <1>2 DEF Dispatch
    <2>2. snd \in BOOLEAN /\ strong \in BOOLEAN OBVIOUS
    <2>3. Holds(ring'[s], n, pending[s], snd) BY <1>2
    <2>4. /\ clip[1] \in Chunk
          /\ Len(clip) = n => /\ clip[1].kind \in {"header", "faint"} /\ Event[clip[1].of] = Event[pending[s]]
                              /\ snd => strong
      <3>1. Tells(clip, n, pending[s], snd) BY <2>2, <2>3, ClipIs
      <3>q. QED BY <3>1 DEF Tells
    <2> HIDE DEF clip, strong, snd, n
    <2>5. pending[s] \in Alerts BY <1>2 DEF TypeOK
    <2>6. d \in Notes BY <2>2, <2>4, <2>5 DEF Notes, Verdicts
    <2>7. Honest(d) BY <2>4 DEF Honest
    <2>8. d.of = pending[s] /\ d.why = why OBVIOUS
    <2> HIDE DEF d
    <2>q. QED BY <1>2, <2>1, <2>6, <2>7, <2>8 DEF Dispatch
  <1>q. QED BY <1>1, <1>2

\* What an appended note leaves of the earlier ones.
LEMMA NoteIs ==
    ASSUME NEW o \in Seq(Notes), NEW d \in Notes
    PROVE  /\ Append(o, d) \in Seq(Notes) /\ DOMAIN Append(o, d) = DOMAIN o \cup {Len(o) + 1}
           /\ Append(o, d)[Len(o) + 1] = d /\ Append(o, d) # <<>>
           /\ \A i \in DOMAIN o : i < Len(o) + 1 /\ i \in Nat /\ Append(o, d)[i] = o[i]
           /\ Len(o) \in Nat
  OBVIOUS

LEMMA HonestGoes ==
    ASSUME out \in Seq(Notes), Dispatched, NEW d \in Notes, Honest(d), out' = Append(out, d)
    PROVE  out' \in Seq(Notes) /\ Dispatched'
  <1>1. /\ out' \in Seq(Notes) /\ out' # <<>> /\ DOMAIN out' = DOMAIN out \cup {Len(out) + 1}
        /\ out'[Len(out) + 1] = d /\ \A i \in DOMAIN out : out'[i] = out[i]
    BY NoteIs
  <1>2. ASSUME NEW i \in DOMAIN out' PROVE Honest(out'[i])
    <2>1. CASE i \in DOMAIN out
      <3>1. out'[i] = out[i] /\ Honest(out[i]) BY <1>1, <2>1 DEF Dispatched
      <3>q. QED BY <3>1 DEF Honest
    <2>2. CASE i = Len(out) + 1
      <3>1. out'[i] = d BY <1>1, <2>2
      <3>q. QED BY <3>1 DEF Honest
    <2>q. QED BY <1>1, <2>1, <2>2
  <1>q. QED BY <1>1, <1>2 DEF Dispatched

\* Chunks only leave the queues, and an alert is parked only from a queue.
Shorter == /\ aired' = aired
           /\ \A t \in Sources : \A k \in DOMAIN queue'[t] :
                 \E l \in DOMAIN queue[t] : queue'[t][k] = queue[t][l]

LEMMA PastKept ==
    ASSUME Shorter, NEW t \in Sources, NEW a, Past(t, a),
           \/ pending'[t] \in {pending[t], NoAlert}
           \/ \E l \in DOMAIN queue[t] : pending'[t] = queue[t][l].of
    PROVE  Past(t, a)'
  BY DEF Shorter, Past

LEMMA DispatchLines ==
    ASSUME Inv, NEW s \in Sources, NEW why, Shorter, pending' = [pending EXCEPT ![s] = NoAlert],
           \/ out' = out
           \/ pending[s] # NoAlert /\ \E d \in Notes : out' = Append(out, d) /\ d.of = pending[s] /\ d.why = why,
           why = "eom" /\ pending[s] # NoAlert =>
              /\ Ended(s, pending[s], aired[s])
              /\ \A k \in DOMAIN queue'[s] : Turn(s, pending[s]) < Turn(s, queue'[s][k].of)
    PROVE  Parked' /\ Finished' /\ OnceUnlessTimedOut'
  <1>0. TypeOK BY DEF Inv
  <1>1. pending'[s] = NoAlert /\ \A t \in Sources : t # s => pending'[t] = pending[t] BY <1>0 DEF TypeOK
  <1>2. Parked' BY <1>1 DEF Inv, Parked, Shorter
  <1>3. ASSUME NEW i \in DOMAIN out, out[i].why = "eom", NEW t \in Sources, NEW a, a = out[i].of, a \in Sends(t)
        PROVE  Past(t, a)'
    <2>1. Past(t, a) BY <1>3 DEF Inv, Finished
    <2>2. pending'[t] \in {pending[t], NoAlert} BY <1>1
    <2>q. QED BY <2>1, <2>2, PastKept
  <1>4. CASE out' = out
    <2>1. Finished' BY <1>3, <1>4 DEF Finished
    <2>2. OnceUnlessTimedOut' BY <1>4 DEF Inv, OnceUnlessTimedOut
    <2>q. QED BY <1>2, <2>1, <2>2
  <1>5. CASE pending[s] # NoAlert /\ \E d \in Notes : out' = Append(out, d) /\ d.of = pending[s] /\ d.why = why
    <2>1. PICK d \in Notes : out' = Append(out, d) /\ d.of = pending[s] /\ d.why = why BY <1>5
    <2>2. out \in Seq(Notes) BY <1>0 DEF TypeOK, Notes
    <2>3. /\ DOMAIN out' = DOMAIN out \cup {Len(out) + 1} /\ out'[Len(out) + 1] = d
          /\ \A i \in DOMAIN out : i < Len(out) + 1 /\ i \in Nat /\ out'[i] = out[i]
          /\ Len(out) \in Nat
      BY <2>1, <2>2, NoteIs
    <2>4. pending[s] \in Sends(s) BY <1>5 DEF Inv, Parked, Begun
    <2>6. ASSUME NEW a, a = pending[s], why = "eom", NEW t \in Sources, a \in Sends(t) PROVE Past(t, a)'
      <3>1. t = s BY <2>4, <2>6, TurnIs
      <3>2. Ended(s, a, aired'[s]) BY <1>5, <2>6 DEF Shorter
      <3>3. \A k \in DOMAIN queue'[s] : Turn(s, a) < Turn(s, queue'[s][k].of) BY <1>5, <2>6
      <3>q. QED BY <1>1, <3>1, <3>2, <3>3 DEF Past
    <2>7. Finished'
      <3> SUFFICES ASSUME NEW i \in DOMAIN out', out'[i].why = "eom", NEW t \in Sources,
                          NEW a, a = out'[i].of, a \in Sends(t)
                   PROVE  Past(t, a)'
        BY DEF Finished
      <3>1. CASE i \in DOMAIN out BY <1>3, <2>3, <3>1
      <3>2. CASE i = Len(out) + 1 BY <2>1, <2>3, <2>6, <3>2
      <3>q. QED BY <2>3, <3>1, <3>2
    <2>8. OnceUnlessTimedOut'
      <3> SUFFICES ASSUME NEW i \in DOMAIN out', NEW j \in DOMAIN out', i < j, out'[i].of = out'[j].of
                   PROVE  out'[i].why = "timeout"
        BY DEF OnceUnlessTimedOut
      <3>1. i \in DOMAIN out BY <2>3
      <3>2. CASE j \in DOMAIN out BY <2>3, <3>1, <3>2 DEF Inv, OnceUnlessTimedOut
      <3>3. CASE j = Len(out) + 1
        <4>1. out[i].of = pending[s] /\ out'[i] = out[i] BY <2>1, <2>3, <3>1, <3>3
        <4>2. out[i].why # "eom"
          <5> SUFFICES ASSUME out[i].why = "eom" PROVE FALSE OBVIOUS
          <5>1. Past(s, pending[s]) BY <2>4, <3>1, <4>1 DEF Inv, Finished
          <5>2. Turn(s, pending[s]) < Turn(s, pending[s]) BY <1>5, <5>1 DEF Past
          <5>3. Turn(s, pending[s]) \in Nat BY <2>4, TurnIs
          <5>q. QED BY <5>2, <5>3
        <4>3. out[i] \in Notes BY <2>2, <3>1
        <4>4. out[i].why \in Reasons BY <4>3 DEF Notes
        <4>q. QED BY <4>1, <4>2, <4>4 DEF Reasons
      <3>q. QED BY <2>3, <3>2, <3>3
    <2>q. QED BY <1>2, <2>7, <2>8
  <1>q. QED BY <1>4, <1>5

\* Recordings of the other sources go on as they are.
LEMMA OthersRecorded ==
    ASSUME Inv, NEW s \in Sources,
           \A t \in Sources : t # s => /\ ring'[t] = ring[t] /\ added'[t] = added[t] /\ anchor'[t] = anchor[t]
                                       /\ pending'[t] = pending[t] /\ (t \in capturing => t \in capturing')
                                       /\ (t \in sound' <=> t \in sound),
           pending'[s] # NoAlert =>
              s \in capturing' /\ Holds(ring'[s], added'[s] - anchor'[s], pending'[s], s \in sound')
    PROVE  Recorded'
  <1> SUFFICES ASSUME NEW t \in Sources, pending'[t] # NoAlert
               PROVE  t \in capturing' /\ Holds(ring'[t], added'[t] - anchor'[t], pending'[t], t \in sound')
    BY DEF Recorded
  <1>1. CASE t = s BY <1>1
  <1>2. CASE t # s
    <2>1. t \in capturing /\ Holds(ring[t], added[t] - anchor[t], pending[t], t \in sound)
      BY <1>2 DEF Inv, Recorded
    <2>2. ring'[t] = ring[t] /\ added'[t] = added[t] /\ anchor'[t] = anchor[t] /\ pending'[t] = pending[t]
          /\ t \in capturing'
      BY <1>2, <2>1
    <2>3. (t \in sound') = (t \in sound) BY <1>2
    <2>q. QED BY <2>1, <2>2, <2>3
  <1>q. QED BY <1>1, <1>2

LEMMA TimeOutNext ==
    ASSUME Inv, NEW s \in Sources, TimeOut(s)
    PROVE  Inv'
  <1>0. TypeOK BY DEF Inv
  <1>1. /\ todo' = todo \ {s} /\ ring' = ring /\ added' = added /\ Dispatch(s, "timeout")
        /\ aired' = aired /\ running' = running /\ outages' = outages /\ bad' = bad
        /\ queue' = queue /\ watched' = watched /\ at' = at
    BY DEF TimeOut, ringVars, airVars
  <1>2. "timeout" \in Reasons /\ ring'[s] \in Seq(Chunk) BY <1>0, <1>1 DEF Reasons, TypeOK
  <1>3. pending[s] # NoAlert => Holds(ring'[s], added'[s] - anchor[s], pending[s], s \in sound)
    BY <1>1 DEF Inv, Recorded
  <1>4. /\ pending' = [pending EXCEPT ![s] = NoAlert] /\ anchor' = [anchor EXCEPT ![s] = 0]
        /\ capturing' = capturing \ {s} /\ sound' = sound \ {s} /\ overdue' = overdue \ {s}
        /\ pending[s] = NoAlert => out' = out /\ calling' = calling
        /\ pending[s] # NoAlert =>
              /\ calling' = TRUE
              /\ \E d \in Notes : out' = Append(out, d) /\ d.of = pending[s] /\ d.why = "timeout" /\ Honest(d)
    BY <1>0, <1>1, <1>2, <1>3, DispatchIs
  <1>5. Shorter BY <1>1 DEF Shorter
  <1>6. Parked' /\ Finished' /\ OnceUnlessTimedOut' BY <1>4, <1>5, DispatchLines
  <1>7. Queued' BY <1>1 DEF Inv, Queued
  <1>8. out \in Seq(Notes) BY <1>0 DEF TypeOK, Notes
  <1>9. out' \in Seq(Notes) /\ calling' \in BOOLEAN /\ Dispatched'
    <2>1. CASE pending[s] = NoAlert BY <1>0, <1>4, <1>8, <2>1 DEF TypeOK, Inv, Dispatched
    <2>2. CASE pending[s] # NoAlert
      <3>1. PICK d \in Notes : out' = Append(out, d) /\ Honest(d) BY <1>4, <2>2
      <3>2. Dispatched /\ calling' \in BOOLEAN BY <1>4, <2>2 DEF Inv
      <3>q. QED BY <1>8, <3>1, <3>2, HonestGoes
    <2>q. QED BY <2>1, <2>2
  <1>10. pending'[s] = NoAlert /\ \A t \in Sources : t # s => pending'[t] = pending[t] /\ anchor'[t] = anchor[t]
    BY <1>0, <1>4 DEF TypeOK
  <1>11. Recorded' BY <1>1, <1>4, <1>10, OthersRecorded
  <1>12. TypeOK'
    <2>1. pending' \in [Sources -> Alerts \cup {NoAlert}] /\ anchor' \in [Sources -> Nat] BY <1>0, <1>4 DEF TypeOK
    <2>2. /\ todo' \subseteq Sources /\ capturing' \subseteq Sources /\ sound' \subseteq Sources
          /\ overdue' \subseteq Sources
      BY <1>0, <1>1, <1>4 DEF TypeOK
    <2>q. QED BY <1>0, <1>1, <1>9, <2>1, <2>2 DEF TypeOK, Notes
  <1>q. QED BY <1>6, <1>7, <1>9, <1>11, <1>12 DEF Inv

-----------------------------------------------------------------------------
(* A chunk.                                                                *)

LEMMA TailQueued ==
    ASSUME Inv, NEW s \in Sources, queue[s] # <<>>, queue' = [queue EXCEPT ![s] = Tail(queue[s])], aired' = aired
    PROVE  LET c == Head(queue[s]) IN
           /\ Queued' /\ Shorter /\ queue' \in [Sources -> Seq(Chunk)]
           /\ c \in Chunk /\ Begun(s, c.of, aired[s]) /\ (c.kind = "eom" => Ended(s, c.of, aired[s]))
           /\ 1 \in DOMAIN queue[s] /\ c = queue[s][1]
           /\ \A k \in DOMAIN queue'[s] :
                 /\ Turn(s, c.of) <= Turn(s, queue'[s][k].of)
                 /\ c.kind = "eom" => Turn(s, c.of) < Turn(s, queue'[s][k].of)
  <1> DEFINE c == Head(queue[s])
  <1>0. TypeOK /\ Queued BY DEF Inv
  <1>1. queue \in [Sources -> Seq(Chunk)] BY <1>0 DEF TypeOK
  <1>2. queue[s] \in Seq(Chunk) BY <1>1
  <1>3. /\ c = queue[s][1] /\ c \in Chunk /\ Tail(queue[s]) \in Seq(Chunk)
        /\ DOMAIN queue[s] = 1..Len(queue[s]) /\ Len(queue[s]) \in Nat \ {0}
        /\ DOMAIN Tail(queue[s]) = 1..Len(queue[s]) - 1
        /\ \A k \in 1..Len(queue[s]) - 1 : Tail(queue[s])[k] = queue[s][k + 1]
    BY <1>2
  <1>4. queue'[s] = Tail(queue[s]) /\ queue' \in [Sources -> Seq(Chunk)]
        /\ \A t \in Sources : t # s => queue'[t] = queue[t]
    BY <1>1, <1>3
  <1> HIDE DEF c
  <1>5. \A k \in DOMAIN queue'[s] : k \in Nat /\ k + 1 \in DOMAIN queue[s] /\ 1 < k + 1
                                    /\ queue'[s][k] = queue[s][k + 1]
    BY <1>3, <1>4
  <1>6. 1 \in DOMAIN queue[s] BY <1>3
  <1>7. Shorter
    <2> SUFFICES ASSUME NEW t \in Sources, NEW k \in DOMAIN queue'[t]
                 PROVE  \E l \in DOMAIN queue[t] : queue'[t][k] = queue[t][l]
      BY DEF Shorter
    <2>1. CASE t = s BY <1>5, <2>1
    <2>2. CASE t # s BY <1>4, <2>2
    <2>q. QED BY <2>1, <2>2
  <1>8. Begun(s, c.of, aired[s]) /\ (c.kind = "eom" => Ended(s, c.of, aired[s]))
    BY <1>0, <1>3, <1>6 DEF Queued
  <1>9. \A k \in DOMAIN queue'[s] :
           /\ Turn(s, c.of) <= Turn(s, queue'[s][k].of)
           /\ c.kind = "eom" => Turn(s, c.of) < Turn(s, queue'[s][k].of)
    BY <1>0, <1>3, <1>5, <1>6 DEF Queued
  <1>10. Queued'
    <2> SUFFICES ASSUME NEW t \in Sources
                 PROVE  /\ aired[t] <= Span * Len(Programme[t])
                        /\ \A k \in DOMAIN queue'[t] :
                              /\ Begun(t, queue'[t][k].of, aired[t])
                              /\ queue'[t][k].kind = "eom" => Ended(t, queue'[t][k].of, aired[t])
                        /\ \A k, l \in DOMAIN queue'[t] : k < l =>
                              /\ Turn(t, queue'[t][k].of) <= Turn(t, queue'[t][l].of)
                              /\ queue'[t][k].kind = "eom" => Turn(t, queue'[t][k].of) < Turn(t, queue'[t][l].of)
      BY DEF Queued
    <2>1. CASE t = s
      <3>1. \A k \in DOMAIN queue'[s] :
               /\ Begun(s, queue'[s][k].of, aired[s])
               /\ queue'[s][k].kind = "eom" => Ended(s, queue'[s][k].of, aired[s])
        BY <1>0, <1>5 DEF Queued
      <3>2. ASSUME NEW k \in DOMAIN queue'[s], NEW l \in DOMAIN queue'[s], k < l
            PROVE  /\ Turn(s, queue'[s][k].of) <= Turn(s, queue'[s][l].of)
                   /\ queue'[s][k].kind = "eom" => Turn(s, queue'[s][k].of) < Turn(s, queue'[s][l].of)
        <4>1. k + 1 \in DOMAIN queue[s] /\ l + 1 \in DOMAIN queue[s] /\ k + 1 < l + 1 BY <1>5, <3>2
        <4>q. QED BY <1>0, <1>5, <4>1 DEF Queued
      <3>q. QED BY <1>0, <2>1, <3>1, <3>2 DEF Queued
    <2>2. CASE t # s
      <3>1. queue'[t] = queue[t] BY <1>4, <2>2
      <3>q. QED BY <1>0, <3>1 DEF Queued
    <2>q. QED BY <2>1, <2>2
  <1>q. QED BY <1>3, <1>4, <1>6, <1>7, <1>8, <1>9, <1>10 DEF c

\* The other sources of a chunk's; the types of what it changes.
ChunkRead(s, c) ==
    /\ todo' = todo \ {s} /\ UNCHANGED <<airVars, watched, at>>
    /\ queue' = [queue EXCEPT ![s] = Tail(queue[s])]
    /\ ring' = [ring EXCEPT ![s] = Kept(s, c)] /\ added' = [added EXCEPT ![s] = added[s] + 1]

\* What reading the chunk c does to the ring, whichever chunk it is.
RingRead(s, c) ==
    /\ ring' \in [Sources -> Seq(Chunk)] /\ added' \in [Sources -> Nat]
    /\ added'[s] = added[s] + 1 /\ added[s] \in Nat /\ anchor[s] \in Nat
    /\ ring[s] \in Seq(Chunk)
    /\ ring'[s] = Suffix(Append(ring[s], c), IF s \in capturing THEN CaptureMax ELSE PreRoll)
    /\ \A t \in Sources : t # s => ring'[t] = ring[t] /\ added'[t] = added[t]
    /\ pending[s] # NoAlert =>
          /\ s \in capturing /\ ring'[s] = Suffix(Append(ring[s], c), CaptureMax)
          /\ Holds(ring[s], added[s] - anchor[s], pending[s], s \in sound)
          /\ \A a : Event[a] = Event[pending[s]] =>
                /\ Holds(ring'[s], added'[s] - anchor[s], a, s \in sound)
                /\ c.kind = "header" => Holds(ring'[s], added'[s] - anchor[s], a, TRUE)

LEMMA ReadIs ==
    ASSUME Inv, NEW s \in Sources, NEW c \in Chunk, ChunkRead(s, c)
    PROVE  RingRead(s, c)
  <1>0. TypeOK /\ Recorded BY DEF Inv
  <1>1. /\ ring \in [Sources -> Seq(Chunk)] /\ added \in [Sources -> Nat] /\ anchor \in [Sources -> Nat]
    BY <1>0 DEF TypeOK
  <1> DEFINE n == IF s \in capturing THEN CaptureMax ELSE PreRoll
  <1>2. n \in Nat \ {0} BY Sizes
  <1>3. Kept(s, c) = Suffix(Append(ring[s], c), n) BY DEF Kept
  <1>4. Kept(s, c) \in Seq(Chunk) BY <1>1, <1>2, <1>3, RingIs
  <1>5. /\ ring' \in [Sources -> Seq(Chunk)] /\ ring'[s] = Suffix(Append(ring[s], c), n)
        /\ \A t \in Sources : t # s => ring'[t] = ring[t]
    BY <1>1, <1>3, <1>4 DEF ChunkRead
  <1>6. /\ added' \in [Sources -> Nat] /\ added'[s] = added[s] + 1
        /\ \A t \in Sources : t # s => added'[t] = added[t]
    BY <1>1 DEF ChunkRead
  <1>7. ASSUME pending[s] # NoAlert
        PROVE  /\ s \in capturing /\ ring'[s] = Suffix(Append(ring[s], c), CaptureMax)
               /\ Holds(ring[s], added[s] - anchor[s], pending[s], s \in sound)
               /\ \A a : Event[a] = Event[pending[s]] =>
                     /\ Holds(ring'[s], added'[s] - anchor[s], a, s \in sound)
                     /\ c.kind = "header" => Holds(ring'[s], added'[s] - anchor[s], a, TRUE)
    <2>1. s \in capturing /\ Holds(ring[s], added[s] - anchor[s], pending[s], s \in sound)
      BY <1>0, <1>7 DEF Recorded
    <2>2. ring'[s] = Suffix(Append(ring[s], c), CaptureMax) BY <1>5, <2>1
    <2>3. PICK ok \in BOOLEAN : ok = (s \in sound)
      <3> WITNESS (s \in sound) \in BOOLEAN
      <3>q. QED OBVIOUS
    <2>4. Holds(ring[s], added[s] - anchor[s], pending[s], ok) BY <2>1, <2>3
    <2>5. /\ \A b : Event[b] = Event[pending[s]] =>
                Holds(Suffix(Append(ring[s], c), CaptureMax), added[s] - anchor[s] + 1, b, ok)
          /\ \A b : Event[b] = Event[pending[s]] /\ c.kind = "header" =>
                Holds(Suffix(Append(ring[s], c), CaptureMax), added[s] - anchor[s] + 1, b, TRUE)
      BY <1>1, <2>4, HoldsKept
    <2>6. added[s] - anchor[s] + 1 = added'[s] - anchor[s] BY <1>1, <1>6
    <2>q. QED BY <2>1, <2>2, <2>3, <2>5, <2>6
  <1>q. QED BY <1>1, <1>5, <1>6, <1>7 DEF RingRead

\* What a poll leaves of the types, given those of the alert parked and of the history.
LEMMA ReadTypes ==
    ASSUME Inv, NEW s \in Sources, NEW c \in Chunk, ChunkRead(s, c), RingRead(s, c),
           queue' \in [Sources -> Seq(Chunk)],
           anchor' \in [Sources -> Nat], calling' \in BOOLEAN, out' \in Seq(Notes),
           pending' \in [Sources -> Alerts \cup {NoAlert}],
           capturing' \subseteq Sources, sound' \subseteq Sources, overdue' \subseteq Sources
    PROVE  TypeOK'
  <1>0. TypeOK BY DEF Inv
  <1>1. aired' = aired /\ running' = running /\ outages' = outages /\ bad' = bad /\ watched' = watched
        /\ at' = at /\ todo' \subseteq Sources
    BY <1>0 DEF ChunkRead, airVars, TypeOK
  <1>q. QED BY <1>0, <1>1 DEF TypeOK, RingRead, Notes

LEMMA ParkNext ==
    ASSUME Inv, NEW s \in Sources, queue[s] # <<>>, NEW c, c = Head(queue[s]),
           ChunkRead(s, c), c.kind \in {"header", "faint"}, Park(s, c)
    PROVE  Inv'
  <1>0. TypeOK BY DEF Inv
  <1>1. aired' = aired BY DEF ChunkRead, airVars
  <1>2. /\ Queued' /\ Shorter /\ queue' \in [Sources -> Seq(Chunk)]
        /\ c \in Chunk /\ Begun(s, c.of, aired[s])
        /\ 1 \in DOMAIN queue[s] /\ c = queue[s][1]
        /\ \A k \in DOMAIN queue'[s] : Turn(s, c.of) <= Turn(s, queue'[s][k].of)
    BY <1>1, TailQueued DEF ChunkRead
  <1>3. RingRead(s, c) BY <1>2, ReadIs
  <1>4. /\ pending' = [pending EXCEPT ![s] = c.of] /\ overdue' = overdue \ {s} /\ capturing' = capturing \cup {s}
        /\ anchor' = (IF SameEvent(s, c.of) THEN anchor ELSE [anchor EXCEPT ![s] = Position(s)])
        /\ sound' = (IF c.kind = "header" THEN sound \cup {s}
                     ELSE IF SameEvent(s, c.of) THEN sound ELSE sound \ {s})
        /\ calling' = calling /\ out' = out
    BY DEF Park
  <1>5. added'[s] \in Nat \ {0} BY <1>3 DEF RingRead
  <1>6. Position(s) = added'[s] - 1 BY <1>5 DEF Position
  <1>7. c.of \in Alerts /\ c.of # NoAlert BY <1>2, ProgrammeAssumption DEF Chunk
  <1>8. /\ pending' \in [Sources -> Alerts \cup {NoAlert}] /\ pending'[s] = c.of
        /\ \A t \in Sources : t # s => pending'[t] = pending[t]
    BY <1>0, <1>4, <1>7 DEF TypeOK
  <1>9. anchor' \in [Sources -> Nat] /\ \A t \in Sources : t # s => anchor'[t] = anchor[t]
    <2>1. anchor \in [Sources -> Nat] BY <1>0 DEF TypeOK
    <2>2. Position(s) \in Nat BY <1>5, <1>6
    <2>q. QED BY <1>4, <2>1, <2>2
  <1>10. Holds(ring'[s], added'[s] - anchor'[s], c.of, s \in sound')
    <2>1. PICK ok \in BOOLEAN : ok = (s \in sound')
      <3> WITNESS (s \in sound') \in BOOLEAN
      <3>q. QED OBVIOUS
    <2>2. CASE SameEvent(s, c.of)
      <3>1. anchor'[s] = anchor[s] /\ pending[s] # NoAlert /\ Event[c.of] = Event[pending[s]]
        BY <1>4, <2>2 DEF SameEvent
      <3>2. /\ Holds(ring'[s], added'[s] - anchor[s], c.of, s \in sound)
            /\ c.kind = "header" => Holds(ring'[s], added'[s] - anchor[s], c.of, TRUE)
        BY <1>3, <3>1 DEF RingRead
      <3>3. CASE c.kind = "header"
        <4>1. s \in sound' BY <1>4, <3>3
        <4>q. QED BY <3>1, <3>2, <3>3, <4>1
      <3>4. CASE c.kind # "header"
        <4>1. sound' = sound BY <1>4, <2>2, <3>4
        <4>q. QED BY <3>1, <3>2, <4>1
      <3>q. QED BY <3>3, <3>4
    <2>3. CASE ~SameEvent(s, c.of)
      <3>1. anchor'[s] = added'[s] - 1
        <4>1. anchor' = [anchor EXCEPT ![s] = Position(s)] BY <1>4, <2>3
        <4>2. anchor \in [Sources -> Nat] BY <1>0 DEF TypeOK
        <4>q. QED BY <1>6, <4>1, <4>2
      <3>2. added'[s] - anchor'[s] = 1 BY <1>5, <3>1
      <3>3. ok => c.kind = "header" BY <1>4, <2>1, <2>3
      <3>4. PICK n \in Nat \ {0} : ring'[s] = Suffix(Append(ring[s], c), n)
        <4>1. (IF s \in capturing THEN CaptureMax ELSE PreRoll) \in Nat \ {0} BY Sizes
        <4>q. QED BY <1>3, <4>1 DEF RingRead
      <3>5. Holds(Suffix(Append(ring[s], c), n), 1, c.of, ok) BY <1>2, <1>3, <3>3, HoldsNew DEF RingRead
      <3>q. QED BY <2>1, <3>2, <3>4, <3>5
    <2>q. QED BY <2>2, <2>3
  <1>11. Recorded'
    <2>1. \A t \in Sources : t # s => /\ ring'[t] = ring[t] /\ added'[t] = added[t] /\ anchor'[t] = anchor[t]
                                      /\ pending'[t] = pending[t] /\ (t \in capturing => t \in capturing')
                                      /\ (t \in sound' <=> t \in sound)
      BY <1>3, <1>4, <1>8, <1>9 DEF RingRead
    <2>2. s \in capturing' BY <1>4
    <2>3. Holds(ring'[s], added'[s] - anchor'[s], pending'[s], s \in sound') BY <1>8, <1>10
    <2>q. QED BY <2>1, <2>2, <2>3, OthersRecorded
  <1>12. Parked'
    <2> SUFFICES ASSUME NEW t \in Sources, pending'[t] # NoAlert
                 PROVE  /\ Begun(t, pending'[t], aired'[t])
                        /\ \A k \in DOMAIN queue'[t] : Turn(t, pending'[t]) <= Turn(t, queue'[t][k].of)
      BY DEF Parked
    <2>1. CASE t = s BY <1>1, <1>2, <1>8, <2>1
    <2>2. CASE t # s
      <3>1. pending'[t] = pending[t] BY <1>8, <2>2
      <3>q. QED BY <1>1, <1>2, <3>1 DEF Inv, Parked, Shorter
    <2>q. QED BY <2>1, <2>2
  <1>13. Finished'
    <2> SUFFICES ASSUME NEW i \in DOMAIN out, out[i].why = "eom", NEW t \in Sources, NEW a, a = out[i].of,
                        a \in Sends(t)
                 PROVE  Past(t, a)'
      BY <1>4 DEF Finished
    <2>1. Past(t, a) BY DEF Inv, Finished
    <2>2. pending'[t] \in {pending[t], NoAlert} \/ \E l \in DOMAIN queue[t] : pending'[t] = queue[t][l].of
      BY <1>2, <1>8
    <2>q. QED BY <1>2, <2>1, <2>2, PastKept
  <1>14. Dispatched' /\ OnceUnlessTimedOut'
    <2>1. Dispatched' BY <1>4 DEF Inv, Dispatched
    <2>2. OnceUnlessTimedOut' BY <1>4 DEF Inv, OnceUnlessTimedOut
    <2>q. QED BY <2>1, <2>2
  <1>15. TypeOK'
    <2>1. capturing' \subseteq Sources /\ sound' \subseteq Sources /\ overdue' \subseteq Sources
      BY <1>0, <1>4 DEF TypeOK
    <2>2. calling' \in BOOLEAN /\ out' \in Seq(Notes) BY <1>0, <1>4 DEF TypeOK, Notes
    <2>q. QED BY <1>2, <1>3, <1>8, <1>9, <2>1, <2>2, ReadTypes
  <1>q. QED BY <1>2, <1>11, <1>12, <1>13, <1>14, <1>15 DEF Inv

LEMMA EomNext ==
    ASSUME Inv, NEW s \in Sources, queue[s] # <<>>, NEW c, c = Head(queue[s]),
           ChunkRead(s, c), c.kind = "eom", Dispatch(s, "eom")
    PROVE  Inv'
  <1>0. TypeOK BY DEF Inv
  <1>1. aired' = aired BY DEF ChunkRead, airVars
  <1>2. /\ Queued' /\ Shorter /\ queue' \in [Sources -> Seq(Chunk)]
        /\ c \in Chunk /\ Begun(s, c.of, aired[s]) /\ Ended(s, c.of, aired[s])
        /\ 1 \in DOMAIN queue[s] /\ c = queue[s][1]
        /\ \A k \in DOMAIN queue'[s] : Turn(s, c.of) < Turn(s, queue'[s][k].of)
    BY <1>1, TailQueued DEF ChunkRead
  <1>3. RingRead(s, c) BY <1>2, ReadIs
  <1>4. "eom" \in Reasons /\ ring'[s] \in Seq(Chunk) BY <1>3 DEF Reasons, RingRead
  <1>5. pending[s] # NoAlert => Holds(ring'[s], added'[s] - anchor[s], pending[s], s \in sound)
    BY <1>3 DEF RingRead
  <1>6. /\ pending' = [pending EXCEPT ![s] = NoAlert] /\ anchor' = [anchor EXCEPT ![s] = 0]
        /\ capturing' = capturing \ {s} /\ sound' = sound \ {s} /\ overdue' = overdue \ {s}
        /\ pending[s] = NoAlert => out' = out /\ calling' = calling
        /\ pending[s] # NoAlert =>
              /\ calling' = TRUE
              /\ \E d \in Notes : out' = Append(out, d) /\ d.of = pending[s] /\ d.why = "eom" /\ Honest(d)
    BY <1>0, <1>4, <1>5, DispatchIs
  <1>7. ASSUME pending[s] # NoAlert
        PROVE  /\ Ended(s, pending[s], aired[s])
               /\ \A k \in DOMAIN queue'[s] : Turn(s, pending[s]) < Turn(s, queue'[s][k].of)
    <2>1. Turn(s, pending[s]) <= Turn(s, c.of) /\ pending[s] \in Sends(s) BY <1>2, <1>7 DEF Inv, Parked, Begun
    <2>2. c.of \in Sends(s) /\ Span * Turn(s, c.of) <= aired[s] BY <1>2 DEF Begun, Ended
    <2>3. Turn(s, pending[s]) \in Int /\ Turn(s, c.of) \in Int BY <2>1, <2>2, TurnIs
    <2>4. /\ Span * Turn(s, pending[s]) <= Span * Turn(s, c.of)
          /\ Span * Turn(s, pending[s]) \in Int /\ Span * Turn(s, c.of) \in Int
      BY <2>1, <2>3, SpanGrows
    <2>5. aired[s] \in Nat BY <1>0 DEF TypeOK
    <2>6. Ended(s, pending[s], aired[s]) BY <2>2, <2>4, <2>5 DEF Ended
    <2>7. ASSUME NEW k \in DOMAIN queue'[s] PROVE Turn(s, pending[s]) < Turn(s, queue'[s][k].of)
      <3>1. Turn(s, c.of) < Turn(s, queue'[s][k].of) BY <1>2
      <3>2. queue'[s][k].of \in Sends(s) BY <1>2 DEF Queued, Begun
      <3>3. Turn(s, queue'[s][k].of) \in Int BY <3>2, TurnIs
      <3>q. QED BY <2>1, <2>3, <3>1, <3>3
    <2>q. QED BY <2>6, <2>7
  <1>8. Parked' /\ Finished' /\ OnceUnlessTimedOut' BY <1>2, <1>6, <1>7, DispatchLines
  <1>9. out' \in Seq(Notes) /\ calling' \in BOOLEAN /\ Dispatched'
    <2>1. out \in Seq(Notes) BY <1>0 DEF TypeOK, Notes
    <2>2. CASE pending[s] = NoAlert BY <1>0, <1>6, <2>1, <2>2 DEF TypeOK, Inv, Dispatched
    <2>3. CASE pending[s] # NoAlert
      <3>1. PICK d \in Notes : out' = Append(out, d) /\ Honest(d) BY <1>6, <2>3
      <3>2. Dispatched /\ calling' \in BOOLEAN BY <1>6, <2>3 DEF Inv
      <3>q. QED BY <2>1, <3>1, <3>2, HonestGoes
    <2>q. QED BY <2>2, <2>3
  <1>10. /\ pending' \in [Sources -> Alerts \cup {NoAlert}] /\ anchor' \in [Sources -> Nat]
         /\ pending'[s] = NoAlert
         /\ \A t \in Sources : t # s => pending'[t] = pending[t] /\ anchor'[t] = anchor[t]
    BY <1>0, <1>6 DEF TypeOK
  <1>11. Recorded'
    <2>1. \A t \in Sources : t # s => /\ ring'[t] = ring[t] /\ added'[t] = added[t] /\ anchor'[t] = anchor[t]
                                      /\ pending'[t] = pending[t] /\ (t \in capturing => t \in capturing')
                                      /\ (t \in sound' <=> t \in sound)
      BY <1>3, <1>6, <1>10 DEF RingRead
    <2>q. QED BY <1>10, <2>1, OthersRecorded
  <1>12. TypeOK'
    <2>1. capturing' \subseteq Sources /\ sound' \subseteq Sources /\ overdue' \subseteq Sources
      BY <1>0, <1>6 DEF TypeOK
    <2>q. QED BY <1>2, <1>3, <1>9, <1>10, <2>1, ReadTypes
  <1>q. QED BY <1>2, <1>8, <1>9, <1>11, <1>12 DEF Inv

LEMMA OtherNext ==
    ASSUME Inv, NEW s \in Sources, queue[s] # <<>>, NEW c, c = Head(queue[s]),
           ChunkRead(s, c), UNCHANGED <<heldVars, calling, out>>
    PROVE  Inv'
  <1>0. TypeOK BY DEF Inv
  <1>1. /\ aired' = aired /\ capturing' = capturing /\ pending' = pending /\ sound' = sound
        /\ overdue' = overdue /\ anchor' = anchor /\ calling' = calling /\ out' = out
    BY DEF ChunkRead, airVars, heldVars
  <1>2. /\ Queued' /\ Shorter /\ queue' \in [Sources -> Seq(Chunk)] /\ c \in Chunk
    BY <1>1, TailQueued DEF ChunkRead
  <1>3. RingRead(s, c) BY <1>2, ReadIs
  <1>4. Recorded'
    <2>1. \A t \in Sources : t # s => /\ ring'[t] = ring[t] /\ added'[t] = added[t] /\ anchor'[t] = anchor[t]
                                      /\ pending'[t] = pending[t] /\ (t \in capturing => t \in capturing')
                                      /\ (t \in sound' <=> t \in sound)
      BY <1>1, <1>3 DEF RingRead
    <2>2. pending[s] # NoAlert =>
             s \in capturing /\ Holds(ring'[s], added'[s] - anchor[s], pending[s], s \in sound)
      BY <1>3 DEF RingRead
    <2>q. QED BY <1>1, <2>1, <2>2, OthersRecorded
  <1>5. Parked' BY <1>1, <1>2 DEF Inv, Parked, Shorter
  <1>6. Finished'
    <2> SUFFICES ASSUME NEW i \in DOMAIN out, out[i].why = "eom", NEW t \in Sources, NEW a, a = out[i].of,
                        a \in Sends(t)
                 PROVE  Past(t, a)'
      BY <1>1 DEF Finished
    <2>1. Past(t, a) BY DEF Inv, Finished
    <2>2. pending'[t] \in {pending[t], NoAlert} BY <1>1
    <2>q. QED BY <1>2, <2>1, <2>2, PastKept
  <1>7. Dispatched' BY <1>1 DEF Inv, Dispatched
  <1>8. OnceUnlessTimedOut' BY <1>1 DEF Inv, OnceUnlessTimedOut
  <1>9. TypeOK'
    <2>1. /\ anchor' \in [Sources -> Nat] /\ pending' \in [Sources -> Alerts \cup {NoAlert}]
          /\ capturing' \subseteq Sources /\ sound' \subseteq Sources /\ overdue' \subseteq Sources
          /\ calling' \in BOOLEAN /\ out' \in Seq(Notes)
      BY <1>0, <1>1 DEF TypeOK, Notes
    <2>q. QED BY <1>2, <1>3, <2>1, ReadTypes
  <1>q. QED BY <1>2, <1>4, <1>5, <1>6, <1>7, <1>8, <1>9 DEF Inv

LEMMA PollNext ==
    ASSUME Inv, NEW s \in Sources, Poll(s)
    PROVE  Inv'
  <1>0. TypeOK BY DEF Inv
  <1>1. todo' = todo \ {s} /\ UNCHANGED <<airVars, watched, at>> BY DEF Poll
  <1>2. CASE queue[s] = <<>>
    <2>1. UNCHANGED <<queue, ringVars, heldVars, calling, out>> BY <1>2 DEF Poll
    <2>2. /\ aired' = aired /\ running' = running /\ outages' = outages /\ bad' = bad
          /\ watched' = watched /\ at' = at /\ queue' = queue /\ ring' = ring /\ added' = added
          /\ capturing' = capturing /\ pending' = pending /\ sound' = sound /\ overdue' = overdue
          /\ anchor' = anchor /\ calling' = calling /\ out' = out
      BY <1>1, <2>1 DEF airVars, ringVars, heldVars
    <2>3. TypeOK' BY <1>0, <1>1, <2>2 DEF TypeOK
    <2>4. Recorded' /\ Dispatched' BY <2>2 DEF Inv, Recorded, Dispatched
    <2>5. Queued' /\ Parked' BY <2>2 DEF Inv, Queued, Parked
    <2>6. Finished' /\ OnceUnlessTimedOut' BY <2>2 DEF Inv, Finished, Past, OnceUnlessTimedOut
    <2>q. QED BY <2>3, <2>4, <2>5, <2>6 DEF Inv
  <1>3. CASE queue[s] # <<>>
    <2> DEFINE c == Head(queue[s])
    <2>1. ChunkRead(s, c) BY <1>1, <1>3 DEF Poll, ChunkRead
    <2>2. \/ c.kind \in {"header", "faint"} /\ Park(s, c)
          \/ c.kind = "eom" /\ Dispatch(s, "eom")
          \/ UNCHANGED <<heldVars, calling, out>>
      BY <1>3 DEF Poll
    <2> HIDE DEF c
    <2>3. CASE c.kind \in {"header", "faint"} /\ Park(s, c) BY <1>3, <2>1, <2>3, ParkNext DEF c
    <2>4. CASE c.kind = "eom" /\ Dispatch(s, "eom") BY <1>3, <2>1, <2>4, EomNext DEF c
    <2>5. CASE UNCHANGED <<heldVars, calling, out>> BY <1>3, <2>1, <2>5, OtherNext DEF c
    <2>q. QED BY <2>2, <2>3, <2>4, <2>5
  <1>q. QED BY <1>2, <1>3

-----------------------------------------------------------------------------
(* The invariant, and what it means.                                       *)

LEMMA NextInv == Inv /\ [Next]_vars => Inv'
  <1> SUFFICES ASSUME Inv, [Next]_vars PROVE Inv' OBVIOUS
  <1>1. ASSUME NEW s \in Sources, Air(s) PROVE Inv' BY <1>1, AirNext
  <1>2. ASSUME NEW s \in Sources, Outage(s) \/ Recover(s) \/ Wait(s) PROVE Inv' BY <1>2, QuietNext
  <1>3. ASSUME Discover \/ EndPoll PROVE Inv' BY <1>3, QuietNext
  <1>4. ASSUME NEW s \in Sources, Poll(s) PROVE Inv' BY <1>4, PollNext
  <1>5. ASSUME NEW s \in Sources, TimeOut(s) PROVE Inv' BY <1>5, TimeOutNext
  <1>6. ASSUME NEW v \in Verdicts, Decide(v) PROVE Inv' BY <1>6, DecideNext
  <1>7. ASSUME UNCHANGED vars PROVE Inv' BY <1>7, QuietNext
  <1>q. QED BY <1>1, <1>2, <1>3, <1>4, <1>5, <1>6, <1>7 DEF Next, Loop, Callback, World

LEMMA Invariance == Spec => []Inv
  <1>q. QED BY InitInv, NextInv, PTL DEF Spec

\* The watcher's rings, queues and parked alerts keep their types, whatever
\* _monitor_loop, the sources and the FIPS callback do between them.
THEOREM TypeCorrect == Spec => []TypeOK
  <1>1. Inv => TypeOK BY DEF Inv
  <1>q. QED BY Invariance, <1>1, PTL

\* From the header that _handle_alert parks until its dispatch, the ring of the source
\* holds everything received since, up to the capture limit: adding the source to
\* _capturing_sources comes before any chunk that a trim to the pre-roll could cost.
THEOREM RecordingKept == Spec => []RecordingWhole
  <1>1. Inv => RecordingWhole
    <2> SUFFICES ASSUME Inv, NEW s \in Sources, pending[s] # NoAlert, NEW n, n = added[s] - anchor[s]
                 PROVE  Len(ring[s]) >= IF n < CaptureMax THEN n ELSE CaptureMax
      BY DEF RecordingWhole
    <2>1. n \in Nat /\ (Len(ring[s]) >= n \/ Len(ring[s]) >= CaptureMax) BY DEF Inv, Recorded, Holds
    <2>2. ring[s] \in Seq(Chunk) BY DEF Inv, TypeOK
    <2>q. QED BY <2>1, <2>2, Sizes
  <1>q. QED BY Invariance, <1>1, PTL

\* The clip that _on_eom_received or a timeout cuts from the ring starts at a burst of
\* the dispatched alert's event, unless the capture limit cut it short.
THEOREM HeaderFirst == Spec => []StartsAtHeader
  <1>1. Inv => StartsAtHeader BY DEF Inv, Dispatched, Honest, StartsAtHeader
  <1>q. QED BY Invariance, <1>1, PTL

\* fips_filtering_callback forwards nothing on the confidence of another event's burst:
\* the recording of a forwarded alert has a well received burst in it, if it is whole.
THEOREM OnlyHeardForwarded == Spec => []ForwardedWasHeard
  <1>1. Inv => ForwardedWasHeard BY DEF Inv, Dispatched, Honest, ForwardedWasHeard
  <1>q. QED BY Invariance, <1>1, PTL

\* _handle_alert and _on_eom_received hand one transmission to the callback once, unless
\* its first dispatch was _monitor_loop's, for an EOM not read in time.
THEOREM DispatchedOnce == Spec => []OnceUnlessTimedOut
  <1>1. Inv => OnceUnlessTimedOut BY DEF Inv
  <1>q. QED BY Invariance, <1>1, PTL
=============================================================================
