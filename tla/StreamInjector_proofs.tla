------------------------ MODULE StreamInjector_proofs ------------------------
(***************************************************************************)
(* Proofs about StreamInjector, for any alerts, chunks per alert and live  *)
(* chunks.  The argument looks at Air, all that is written or on its way,  *)
(* as one sequence: an action either thins it (flushes, clears, the drop   *)
(* of the pre-buffer) or appends to it, and moves between queue, buffer    *)
(* and encoder leave it alone.                                             *)
(***************************************************************************)
EXTENDS StreamInjector, SequenceTheorems, FiniteSetTheorems, TLAPS

-----------------------------------------------------------------------------
(* The inductive invariant.                                                *)

\* Chunks are counted from the first send on, up to the silence.
Counted ==
    \A a \in Alerts :
        /\ step[a] \notin {"send", "release", "done"} => pos[a] = 0
        /\ step[a] = "send" => pos[a] <= Chunks

\* A live chunk that is read is one of the MaxLive.
LiveLeft == cap = "publish" => live < MaxLive

Of(s, a) == {i \in 1..Len(s) : s[i][1] = a}
Ascends(s, a) == \A i, j \in Of(s, a) : i < j => s[i][2] < s[j][2]
UpTo(s, a, n) == \A i \in Of(s, a) : s[i][2] \in 1..n
Has(s, a, k) == \E i \in Of(s, a) : s[i][2] = k

\* The chunks of an alert are in order, and no later one is sent yet.
Ordered == \A a \in Alerts : Ascends(Air, a) /\ UpTo(Air, a, pos[a])

\* Of an injection that no other overlaps the chunks from the second on are kept:
\* until the streamer has seen the new sequence number, it has taken the first at
\* most, and none before its next look at the queue.
Kept ==
    \A a \in Alerts : Alone(a) =>
        /\ \A k \in 2..pos[a] : Has(Air, a, k)
        /\ seq # saw => \A i \in Of(buffer, a) : buffer[i][2] = 1
        /\ seq # saw /\ at = "get" => \A k \in 1..pos[a] : Has(queue, a, k)

\* Live chunks after the first chunk of an alert, and those before its last too.
After(s, a) == {l \in Of(s, "live") : \E i \in Of(s, a) : i < l}
Between(s, a) == {l \in Of(s, "live") : \E i, j \in Of(s, a) : i < l /\ l < j}
AtMostOne(S) == \A l, m \in S : l = m

\* The gate stays closed for the length of such an injection: while it does, the
\* capture loop has a chunk to publish, or one chunk published at most.
Shut ==
    \A a \in Alerts : Alone(a) =>
        /\ step[a] \in {"flush", "send", "release"} =>
              /\ gate
              /\ AtMostOne(After(Air, a))
              /\ cap = "publish" => After(Air, a) = {}
        /\ AtMostOne(Between(Air, a))

\* From its beginning on, it is the only one under way.
Unmixed == \A a \in Alerts : Alone(a) /\ step[a] # "ready" => \A b \in Alerts \ {a} : ~Busy(b)

Inv == TypeOK /\ Counted /\ LiveLeft /\ GateHeld /\ Ordered /\ Unmixed /\ Kept /\ Shut

-----------------------------------------------------------------------------
(* Sequences that are thinned or appended to.                              *)

\* t is s without some of its chunks.
Thins(s, t) ==
    \E f \in [1..Len(t) -> 1..Len(s)] :
        /\ \A i \in 1..Len(t) : t[i] = s[f[i]]
        /\ \A i, j \in 1..Len(t) : i < j => f[i] < f[j]

LEMMA ThinsCut ==
    ASSUME NEW S, NEW x \in Seq(S), NEW y \in Seq(S), NEW z \in Seq(S)
    PROVE  Thins(x \o y \o z, x \o z)
  <1> DEFINE s == x \o y \o z
             t == x \o z
             f == [i \in 1..Len(t) |-> IF i <= Len(x) THEN i ELSE i + Len(y)]
  <1>1. Len(s) = Len(x) + Len(y) + Len(z) /\ Len(t) = Len(x) + Len(z)
        /\ Len(x) \in Nat /\ Len(y) \in Nat /\ Len(z) \in Nat
    OBVIOUS
  <1>2. f \in [1..Len(t) -> 1..Len(s)] BY <1>1
  <1>3. ASSUME NEW i \in 1..Len(t) PROVE t[i] = s[f[i]]
    <2>1. CASE i <= Len(x) BY <1>1, <2>1
    <2>2. CASE i > Len(x)
      <3>1. t[i] = z[i - Len(x)] BY <1>1, <2>2
      <3>2. s[i + Len(y)] = z[i - Len(x)] BY <1>1, <2>2
      <3>q. QED BY <1>1, <2>2, <3>1, <3>2
    <2>q. QED BY <1>1, <2>1, <2>2
  <1>4. \A i, j \in 1..Len(t) : i < j => f[i] < f[j] BY <1>1
  <1> HIDE DEF f, s, t
  <1>5. Thins(s, t) BY <1>2, <1>3, <1>4 DEF Thins
  <1>q. QED BY <1>5 DEF s, t

LEMMA ThinsSame == ASSUME NEW S, NEW s \in Seq(S) PROVE Thins(s, s)
  <1> DEFINE f == [i \in 1..Len(s) |-> i]
  <1>1. f \in [1..Len(s) -> 1..Len(s)] OBVIOUS
  <1>2. \A i \in 1..Len(s) : s[i] = s[f[i]] OBVIOUS
  <1>3. \A i, j \in 1..Len(s) : i < j => f[i] < f[j] OBVIOUS
  <1> HIDE DEF f
  <1>q. QED BY <1>1, <1>2, <1>3 DEF Thins

\* What is in order, in range, or alone in a sequence is so in a thinner one.
LEMMA Thinner ==
    ASSUME NEW s, NEW t, NEW a, NEW n, Thins(s, t), Len(s) \in Nat, Len(t) \in Nat
    PROVE  /\ Ascends(s, a) => Ascends(t, a)
           /\ UpTo(s, a, n) => UpTo(t, a, n)
           /\ AtMostOne(After(s, a)) => AtMostOne(After(t, a))
           /\ After(s, a) = {} => After(t, a) = {}
           /\ AtMostOne(Between(s, a)) => AtMostOne(Between(t, a))
  <1>1. PICK f \in [1..Len(t) -> 1..Len(s)] :
            /\ \A i \in 1..Len(t) : t[i] = s[f[i]]
            /\ \A i, j \in 1..Len(t) : i < j => f[i] < f[j]
    BY DEF Thins
  <1>2. ASSUME NEW b, NEW i \in Of(t, b) PROVE f[i] \in Of(s, b) /\ t[i] = s[f[i]]
    BY <1>1 DEF Of
  <1>3. \A i, j \in 1..Len(t) : f[i] = f[j] => i = j
    <2> SUFFICES ASSUME NEW i \in 1..Len(t), NEW j \in 1..Len(t), f[i] = f[j] PROVE i = j
      OBVIOUS
    <2>1. f[i] \in Nat BY <1>1
    <2>2. ~(i < j) /\ ~(j < i) BY <1>1, <2>1
    <2>q. QED BY <2>2
  <1>4. \A b : Of(t, b) \subseteq 1..Len(t) BY DEF Of
  <1>5. ASSUME Ascends(s, a) PROVE Ascends(t, a)
    BY <1>1, <1>2, <1>4, <1>5 DEF Ascends
  <1>6. ASSUME UpTo(s, a, n) PROVE UpTo(t, a, n)
    BY <1>2, <1>6 DEF UpTo
  <1>7. ASSUME NEW l \in After(t, a) PROVE f[l] \in After(s, a)
    BY <1>1, <1>2, <1>4 DEF After
  <1>8. ASSUME NEW l \in Between(t, a) PROVE f[l] \in Between(s, a)
    <2>1. PICK i \in Of(t, a), j \in Of(t, a) : i < l /\ l < j BY DEF Between
    <2>2. l \in Of(t, "live") BY DEF Between
    <2>3. f[i] < f[l] /\ f[l] < f[j] BY <1>1, <1>4, <2>1, <2>2
    <2>4. f[i] \in Of(s, a) /\ f[j] \in Of(s, a) /\ f[l] \in Of(s, "live")
      BY <1>2, <2>1, <2>2
    <2>q. QED BY <2>3, <2>4 DEF Between
  <1>9. After(t, a) \subseteq 1..Len(t) /\ Between(t, a) \subseteq 1..Len(t)
    BY <1>4 DEF After, Between
  <1>q. QED BY <1>3, <1>5, <1>6, <1>7, <1>8, <1>9 DEF AtMostOne

\* What a live chunk at the end changes: one more after the chunks of each alert.
LEMMA WithLive ==
    ASSUME NEW s \in Seq(Audio), NEW a \in Alerts, NEW n
    PROVE  LET t == Append(s, Live)
           IN  /\ Of(t, a) = Of(s, a) /\ \A i \in Of(s, a) : t[i] = s[i]
               /\ After(t, a) \subseteq After(s, a) \cup {Len(t)}
               /\ Between(t, a) = Between(s, a)
  <1> DEFINE t == Append(s, Live)
  <1>1. Len(t) = Len(s) + 1 /\ Len(s) \in Nat /\ \A i \in 1..Len(s) : t[i] = s[i] OBVIOUS
  <1>2. t[Len(t)] = Live /\ Live[1] = "live" /\ a # "live"
    BY <1>1, AlertsAssumption DEF Live
  <1> HIDE DEF t
  <1>3. Of(t, a) = Of(s, a) BY <1>1, <1>2 DEF Of
  <1>4. Of(t, "live") = Of(s, "live") \cup {Len(t)} BY <1>1, <1>2 DEF Of
  <1>5. Of(s, a) \subseteq 1..Len(s) BY DEF Of
  <1>6. After(t, a) \subseteq After(s, a) \cup {Len(t)} BY <1>3, <1>4 DEF After
  <1>7. Between(t, a) = Between(s, a) BY <1>1, <1>3, <1>4, <1>5 DEF Between
  <1>q. QED BY <1>1, <1>3, <1>5, <1>6, <1>7 DEF t

\* What a chunk of an alert at the end changes.
Longer(s, t, a, b, k) ==
    /\ Of(t, a) = IF a = b THEN Of(s, a) \cup {Len(t)} ELSE Of(s, a)
    /\ \A i \in Of(s, a) : t[i] = s[i]
    /\ t[Len(t)] = <<b, k>>
    /\ After(t, a) = After(s, a)
    /\ Between(t, a) \subseteq After(s, a)
    /\ a # b => Between(t, a) = Between(s, a)

LEMMA WithChunk ==
    ASSUME NEW s \in Seq(Audio), NEW a \in Alerts, NEW b \in Alerts, NEW k
    PROVE  Longer(s, Append(s, <<b, k>>), a, b, k)
  <1> DEFINE t == Append(s, <<b, k>>)
  <1>1. Len(t) = Len(s) + 1 /\ Len(s) \in Nat /\ \A i \in 1..Len(s) : t[i] = s[i] OBVIOUS
  <1>2. t[Len(t)] = <<b, k>> /\ b # "live" BY <1>1, AlertsAssumption
  <1>3. t[Len(t)][1] = b BY <1>2
  <1> HIDE DEF t
  <1>4. Of(t, a) = IF a = b THEN Of(s, a) \cup {Len(t)} ELSE Of(s, a)
    BY <1>1, <1>3 DEF Of
  <1>5. Of(t, "live") = Of(s, "live") BY <1>1, <1>2, <1>3 DEF Of
  <1>6. Of(s, a) \subseteq 1..Len(s) /\ Of(s, "live") \subseteq 1..Len(s) BY DEF Of
  <1>7. After(t, a) = After(s, a) BY <1>1, <1>4, <1>5, <1>6 DEF After
  <1>8. Between(t, a) \subseteq After(t, a) BY DEF After, Between
  <1>9. a # b => Between(t, a) = Between(s, a) BY <1>4, <1>5 DEF Between
  <1>q. QED
    <2>1. Longer(s, t, a, b, k)
      BY <1>1, <1>2, <1>4, <1>6, <1>7, <1>8, <1>9 DEF Longer
    <2>q. QED BY <2>1 DEF t

\* A chunk of a joined sequence is one of its parts.
LEMMA HasJoined ==
    ASSUME NEW x \in Seq(Audio), NEW y \in Seq(Audio), NEW a, NEW k
    PROVE  Has(x \o y, a, k) <=> Has(x, a, k) \/ Has(y, a, k)
  <1> DEFINE s == x \o y
  <1>1. Len(s) = Len(x) + Len(y) /\ Len(x) \in Nat /\ Len(y) \in Nat OBVIOUS
  <1>2. \A i \in 1..Len(x) : i \in 1..Len(s) /\ s[i] = x[i] OBVIOUS
  <1>3. \A i \in 1..Len(y) : i + Len(x) \in 1..Len(s) /\ s[i + Len(x)] = y[i]
    BY <1>1
  <1>4. \A i \in 1..Len(s) : i \in 1..Len(x) \/ i - Len(x) \in 1..Len(y) BY <1>1
  <1>5. \A i \in 1..Len(s) : i - Len(x) \in 1..Len(y) => s[i] = y[i - Len(x)]
    BY <1>1
  <1> HIDE DEF s
  <1>6. ASSUME Has(s, a, k) PROVE Has(x, a, k) \/ Has(y, a, k)
    <2>1. PICK i \in 1..Len(s) : s[i][1] = a /\ s[i][2] = k BY <1>6 DEF Has, Of
    <2>2. CASE i \in 1..Len(x) BY <1>2, <2>1, <2>2 DEF Has, Of
    <2>3. CASE i - Len(x) \in 1..Len(y) BY <1>5, <2>1, <2>3 DEF Has, Of
    <2>q. QED BY <1>4, <2>2, <2>3
  <1>7. ASSUME Has(x, a, k) PROVE Has(s, a, k)
    BY <1>2, <1>7 DEF Has, Of
  <1>8. ASSUME Has(y, a, k) PROVE Has(s, a, k)
    <2>1. PICK i \in 1..Len(y) : y[i][1] = a /\ y[i][2] = k BY <1>8 DEF Has, Of
    <2>2. i + Len(x) \in 1..Len(s) /\ s[i + Len(x)] = y[i] BY <1>3
    <2>q. QED BY <2>1, <2>2 DEF Has, Of
  <1>q. QED BY <1>6, <1>7, <1>8 DEF s

LEMMA AtTheEnd ==
    ASSUME NEW S, NEW x \in Seq(S), NEW y \in Seq(S), NEW z \in Seq(S), NEW c \in S
    PROVE  x \o y \o Append(z, c) = Append(x \o y \o z, c)
  <1> DEFINE l == x \o y \o Append(z, c)
             r == Append(x \o y \o z, c)
  <1>1. l \in Seq(S) /\ r \in Seq(S) OBVIOUS
  <1>2. Len(l) = Len(r) OBVIOUS
  <1>3. \A i \in 1..Len(l) : l[i] = r[i] OBVIOUS
  <1> HIDE DEF l, r
  <1>4. l = r BY <1>1, <1>2, <1>3, SeqEqual
  <1>q. QED BY <1>4 DEF l, r

\* The head of the second sequence goes to the end of the first.
LEMMA HeadMoves ==
    ASSUME NEW S, NEW x \in Seq(S), NEW y \in Seq(S), y # <<>>
    PROVE  Append(x, Head(y)) \o Tail(y) = x \o y
  <1> DEFINE l == Append(x, Head(y)) \o Tail(y)
             r == x \o y
  <1>1. l \in Seq(S) /\ r \in Seq(S) /\ Len(l) = Len(r) OBVIOUS
  <1>2. \A i \in 1..Len(l) : l[i] = r[i] OBVIOUS
  <1> HIDE DEF l, r
  <1>3. l = r BY <1>1, <1>2, SeqEqual
  <1>q. QED BY <1>3 DEF l, r

LEMMA HeadAndTail ==
    ASSUME NEW S, NEW y \in Seq(S), y # <<>>
    PROVE  /\ y = <<Head(y)>> \o Tail(y)
           /\ Head(y) \in S /\ Tail(y) \in Seq(S) /\ <<Head(y)>> \in Seq(S)
  <1>1. Append(<<>>, Head(y)) \o Tail(y) = <<>> \o y BY HeadMoves
  <1>2. <<>> \o y = y BY SeqEqual
  <1>q. QED BY <1>1, <1>2

\* The chunks of s after its first are those of its tail.
LEMMA HasTail ==
    ASSUME NEW s \in Seq(Audio), s # <<>>, NEW a, NEW k
    PROVE  /\ Has(s, a, k) <=> Has(<<Head(s)>>, a, k) \/ Has(Tail(s), a, k)
           /\ Has(<<Head(s)>>, a, k) <=> Head(s)[1] = a /\ Head(s)[2] = k
  <1>1. s = <<Head(s)>> \o Tail(s) /\ Tail(s) \in Seq(Audio) /\ <<Head(s)>> \in Seq(Audio)
    BY HeadAndTail
  <1>2. Has(<<Head(s)>> \o Tail(s), a, k) <=> Has(<<Head(s)>>, a, k) \/ Has(Tail(s), a, k)
    BY <1>1, HasJoined
  <1>3. Has(<<Head(s)>>, a, k) <=> Head(s)[1] = a /\ Head(s)[2] = k BY DEF Has, Of
  <1>q. QED BY <1>1, <1>2, <1>3

-----------------------------------------------------------------------------
(* Types, counts and the gate.                                             *)

LEMMA InitInv == Init => Inv
  <1> SUFFICES ASSUME Init PROVE Inv OBVIOUS
  <1>1. Live \in Audio BY DEF Audio, Live
  <1>2. TypeOK
    <2>1. <<>> \in Seq(Audio) /\ <<Live>> \in Seq(Audio) BY <1>1
    <2>2. pos \in [Alerts -> 0..Chunks + 1] /\ live \in 0..MaxLive
      BY ChunksAssumption DEF Init
    <2>q. QED BY <2>1, <2>2 DEF Init, TypeOK, Steps
  <1>3. Counted /\ LiveLeft /\ GateHeld BY DEF Init, Counted, LiveLeft, GateHeld
  <1>4. Air = <<Live>> BY <1>1, SeqEqual DEF Init, Air
  <1>5. ASSUME NEW a \in Alerts PROVE Of(<<Live>>, a) = {}
    BY AlertsAssumption DEF Of, Live
  <1>6. Ordered BY <1>4, <1>5 DEF Ordered, Ascends, UpTo
  <1>7. Kept
    <2>1. ASSUME NEW a \in Alerts PROVE 2..pos[a] = {} BY DEF Init
    <2>q. QED BY <2>1 DEF Init, Kept
  <1>8. Shut
    <2>1. ASSUME NEW a \in Alerts PROVE Between(Air, a) = {} BY <1>4, <1>5 DEF Between
    <2>q. QED BY <2>1 DEF Init, Shut, AtMostOne
  <1>9. Unmixed BY DEF Init, Unmixed
  <1>q. QED BY <1>2, <1>3, <1>6, <1>7, <1>8, <1>9 DEF Inv

LEMMA TypeNext ==
    TypeOK /\ Counted /\ LiveLeft /\ [Next]_vars => TypeOK' /\ Counted' /\ LiveLeft'
  <1> DEFINE G == TypeOK' /\ Counted' /\ LiveLeft'
  <1> SUFFICES ASSUME TypeOK, Counted, LiveLeft, [Next]_vars PROVE G OBVIOUS
  <1> USE ChunksAssumption DEF LiveLeft, capVars, strVars, injVars, Move
  <1>l. Live \in Audio BY DEF Audio, Live
  <1>h. ASSUME NEW s \in Seq(Audio), s # <<>> PROVE Head(s) \in Audio /\ Tail(s) \in Seq(Audio)
    BY <1>h
  <1>1. CASE CaptureRead BY <1>1 DEF CaptureRead, TypeOK, Counted
  <1>2. CASE CapturePublish
    <2>1. queue' \in Seq(Audio) BY <1>2, <1>l DEF CapturePublish, TypeOK
    <2>q. QED BY <1>2, <2>1 DEF CapturePublish, TypeOK, Counted
  <1>3. ASSUME NEW a \in Alerts, Begin(a) PROVE G
    BY <1>3 DEF Begin, TypeOK, Counted, Steps
  <1>4. ASSUME NEW a \in Alerts, ClearQueue(a) PROVE G
    BY <1>4, <1>h DEF ClearQueue, TypeOK, Counted, Steps
  <1>5. ASSUME NEW a \in Alerts, ReadSeq(a) \/ Count(a) PROVE G
    <2>1. CASE ReadSeq(a) BY <2>1 DEF ReadSeq, TypeOK, Counted, Steps
    <2>2. CASE Count(a) BY <2>2 DEF Count, TypeOK, Counted, Steps
    <2>q. QED BY <1>5, <2>1, <2>2
  <1>6. ASSUME NEW a \in Alerts, CloseGate(a) \/ Flush(a) \/ OpenGate(a) PROVE G
    <2>1. CASE CloseGate(a) BY <2>1 DEF CloseGate, TypeOK, Counted, Steps
    <2>2. CASE OpenGate(a) BY <2>2 DEF OpenGate, TypeOK, Counted, Steps
    <2>3. CASE Flush(a)
      <3>1. queue' \in Seq(Audio) BY <1>h, <2>3 DEF Flush, TypeOK
      <3>2. step' \in [Alerts -> Steps] /\ pos[a] = 0 BY <2>3 DEF Flush, TypeOK, Counted, Steps
      <3>3. TypeOK' BY <2>3, <3>1, <3>2 DEF Flush, TypeOK
      <3>4. /\ pos' = pos /\ step[a] = "flush"
            /\ step' = step \/ step' = [step EXCEPT ![a] = "send"]
        BY <2>3 DEF Flush
      <3>5. ASSUME NEW b \in Alerts
            PROVE  step'[b] = step[b] \/ (b = a /\ step'[b] = "send")
        BY <3>4 DEF TypeOK
      <3>6. Counted' BY <3>2, <3>4, <3>5 DEF Counted
      <3>q. QED BY <2>3, <3>3, <3>6 DEF Flush
    <2>q. QED BY <1>6, <2>1, <2>2, <2>3
  <1>7. ASSUME NEW a \in Alerts, Send(a) PROVE G
    <2>1. pos[a] \in 0..Chunks BY <1>7 DEF Send, TypeOK, Counted
    <2>2. <<a, pos[a] + 1>> \in Audio BY <2>1 DEF Audio
    <2>3. queue' \in Seq(Audio) BY <1>7, <2>2 DEF Send, TypeOK
    <2>4. step' \in [Alerts -> Steps] /\ pos' \in [Alerts -> 0..Chunks + 1]
      BY <1>7, <2>1 DEF Send, TypeOK, Steps
    <2>5. TypeOK' BY <1>7, <2>3, <2>4 DEF Send, TypeOK
    <2>6. Counted' BY <1>7, <2>1, <2>4 DEF Send, TypeOK, Counted
    <2>q. QED BY <1>7, <2>5, <2>6 DEF Send
  <1>8. CASE Check BY <1>8 DEF Check, TypeOK, Counted
  <1>9. CASE Get
    <2>1. CASE queue # <<>>
      <3>1. Head(queue) \in Audio /\ Tail(queue) \in Seq(Audio) BY <1>h, <2>1 DEF TypeOK
      <3>2. Append(buffer, Head(queue)) \in Seq(Audio) BY <3>1 DEF TypeOK
      <3>q. QED BY <1>9, <2>1, <3>1, <3>2 DEF Get, TypeOK, Counted
    <2>2. CASE queue = <<>> BY <1>9, <2>2 DEF Get, TypeOK, Counted
    <2>q. QED BY <2>1, <2>2
  <1>10. CASE Feed
    <2>1. buffer # <<>> => Written(Head(buffer)) \in Seq(Audio)
      BY <1>h DEF TypeOK, Written
    <2>q. QED BY <1>10, <1>h, <2>1 DEF Feed, TypeOK, Counted
  <1>11. CASE UNCHANGED vars BY <1>11 DEF vars, TypeOK, Counted
  <1>q. QED
    BY <1>1, <1>2, <1>3, <1>4, <1>5, <1>6, <1>7, <1>8, <1>9, <1>10, <1>11
    DEF Next, Capture, Stream, Inject

\* Every step but OpenGate leaves an injection behind a closed gate that has to open it.
LEMMA GateNext == TypeOK /\ GateHeld /\ [Next]_vars => GateHeld'
  <1> SUFFICES ASSUME TypeOK, GateHeld, [Next]_vars, gate' PROVE GateHeld'
    BY DEF GateHeld
  <1> USE DEF capVars, strVars, injVars, Move
  <1>1. ASSUME NEW a \in Alerts, CloseGate(a) PROVE GateHeld'
    BY <1>1 DEF CloseGate, TypeOK, GateHeld
  <1>2. CASE \A a \in Alerts : ~CloseGate(a)
    <2>1. gate
      BY <1>2 DEF Next, Capture, Stream, Inject, Begin, ClearQueue, ReadSeq, Count, Flush, Send,
                  OpenGate, Check, Get, Feed, CaptureRead, CapturePublish, vars
    <2>2. PICK a \in Alerts : step[a] \in {"flush", "send", "release"}
      BY <2>1 DEF GateHeld
    <2>3. \A b \in Alerts : ~OpenGate(b) BY DEF OpenGate
    <2>4. step'[a] \in {"flush", "send", "release"}
      BY <1>2, <2>2, <2>3 DEF Next, Capture, Stream, Inject, Begin, ClearQueue, ReadSeq, Count,
                  Flush, Send, Check, Get, Feed, CaptureRead, CapturePublish, vars, TypeOK
    <2>q. QED BY <2>4 DEF GateHeld
  <1>q. QED BY <1>1, <1>2

-----------------------------------------------------------------------------
(* What the actions do to Air.                                             *)

LEMMA AirType == TypeOK => Air \in Seq(Audio) /\ Len(Air) \in Nat
  BY DEF TypeOK, Air

LEMMA Published == TypeOK /\ CapturePublish => Air' = Append(Air, Live)
  BY AtTheEnd DEF TypeOK, CapturePublish, strVars, Air, Audio

LEMMA Sent ==
    ASSUME TypeOK, Counted, NEW a \in Alerts, Send(a)
    PROVE  Air' = Append(Air, <<a, pos[a] + 1>>) /\ pos[a] \in 0..Chunks
  <1>1. pos[a] \in 0..Chunks BY DEF Send, TypeOK, Counted
  <1>2. <<a, pos[a] + 1>> \in Audio BY <1>1, ChunksAssumption DEF Audio
  <1>3. out \in Seq(Audio) /\ buffer \in Seq(Audio) /\ queue \in Seq(Audio) BY DEF TypeOK
  <1>4. out \o buffer \o Append(queue, <<a, pos[a] + 1>>)
          = Append(out \o buffer \o queue, <<a, pos[a] + 1>>)
    BY <1>2, <1>3, AtTheEnd
  <1>q. QED BY <1>1, <1>4 DEF Send, strVars, Air

\* The streamer takes a chunk, or has none to take: Air is as it was.
LEMMA Taken == TypeOK /\ Get => Air' = Air
  <1> SUFFICES ASSUME TypeOK, Get PROVE Air' = Air OBVIOUS
  <1>1. CASE queue # <<>>
    <2>1. Append(out \o buffer, Head(queue)) \o Tail(queue) = (out \o buffer) \o queue
      <3>1. out \o buffer \in Seq(Audio) /\ queue \in Seq(Audio) BY DEF TypeOK
      <3>q. QED BY <1>1, <3>1, HeadMoves
    <2>2. out \o Append(buffer, Head(queue)) = Append(out \o buffer, Head(queue))
      <3>1. Head(queue) \in Audio /\ <<>> \in Seq(Audio) BY <1>1, HeadAndTail DEF TypeOK
      <3>2. <<>> \o out \o Append(buffer, Head(queue)) = Append(<<>> \o out \o buffer, Head(queue))
        BY <3>1, AtTheEnd DEF TypeOK
      <3>3. <<>> \o out = out BY DEF TypeOK
      <3>q. QED BY <3>2, <3>3
    <2>q. QED BY <1>1, <2>1, <2>2 DEF Get, Air
  <1>2. CASE queue = <<>> BY <1>2 DEF Get, Air
  <1>q. QED BY <1>1, <1>2

\* A write moves a chunk to the history, which leaves out live chunks before the alerts.
LEMMA Fed ==
    TypeOK /\ Feed =>
        \/ Air' = Air
        \/ /\ buffer # <<>> /\ Head(buffer) = Live
           /\ buffer' = Tail(buffer) /\ UNCHANGED <<out, queue>>
  <1> SUFFICES ASSUME TypeOK, Feed, buffer # <<>>, out' = Written(Head(buffer)),
                      buffer' = Tail(buffer), queue' = queue, Head(buffer) # Live \/ out # <<>>
               PROVE  Air' = Air
    BY DEF Feed, Written, Air, TypeOK, strVars
  <1>1. Append(out, Head(buffer)) \o Tail(buffer) = out \o buffer BY HeadMoves DEF TypeOK
  <1>q. QED BY <1>1 DEF Written, Air

\* Every step but the publishing of a chunk thins Air, or leaves it as it was.
LEMMA Thinned ==
    ASSUME TypeOK, [Next]_vars, ~CapturePublish, \A a \in Alerts : ~Send(a)
    PROVE  Thins(Air, Air')
  <1> USE DEF capVars, strVars, injVars
  <1>s. Air' = Air => Thins(Air, Air') BY AirType, ThinsSame
  <1>t. out \in Seq(Audio) /\ buffer \in Seq(Audio) /\ queue \in Seq(Audio) /\ <<>> \in Seq(Audio)
        /\ out \o buffer \in Seq(Audio)
    BY DEF TypeOK
  <1>1. CASE UNCHANGED <<out, buffer, queue>> BY <1>1, <1>s DEF Air
  <1>2. CASE queue # <<>> /\ queue' = Tail(queue) /\ UNCHANGED <<out, buffer>>
    <2>1. queue = <<Head(queue)>> \o Tail(queue) /\ <<Head(queue)>> \in Seq(Audio)
          /\ Tail(queue) \in Seq(Audio)
      BY <1>2, <1>t, HeadAndTail
    <2>2. Thins((out \o buffer) \o <<Head(queue)>> \o Tail(queue), (out \o buffer) \o Tail(queue))
      BY <1>t, <2>1, ThinsCut
    <2>3. (out \o buffer) \o <<Head(queue)>> \o Tail(queue)
             = (out \o buffer) \o (<<Head(queue)>> \o Tail(queue))
      BY <1>t, <2>1, ConcatAssociative
    <2>q. QED BY <1>2, <2>1, <2>2, <2>3 DEF Air
  <1>3. CASE Check
    <2>1. Thins(out \o buffer \o queue, out \o queue) BY <1>t, ThinsCut
    <2>2. out \o <<>> = out BY <1>t
    <2>q. QED BY <1>3, <1>s, <2>1, <2>2 DEF Check, Air
  <1>4. CASE Get BY <1>4, <1>s, Taken
  <1>5. CASE Feed
    <2>1. CASE Air' = Air BY <1>s, <2>1
    <2>2. CASE buffer # <<>> /\ UNCHANGED <<out, queue>> /\ buffer' = Tail(buffer)
      <3>1. buffer = <<Head(buffer)>> \o Tail(buffer) /\ <<Head(buffer)>> \in Seq(Audio)
            /\ Tail(buffer) \in Seq(Audio)
        BY <1>t, <2>2, HeadAndTail
      <3>2. Thins(out \o <<Head(buffer)>> \o (Tail(buffer) \o queue), out \o (Tail(buffer) \o queue))
        <4>1. Tail(buffer) \o queue \in Seq(Audio) BY <1>t, <3>1
        <4>q. QED BY <1>t, <3>1, <4>1, ThinsCut
      <3>3. out \o (Tail(buffer) \o queue) = out \o Tail(buffer) \o queue
        BY <1>t, <3>1, ConcatAssociative
      <3>4. out \o <<Head(buffer)>> \o (Tail(buffer) \o queue) = out \o buffer \o queue
        <4>1. \A x, y, z \in Seq(Audio) : (x \o y) \o z = x \o (y \o z) BY ConcatAssociative
        <4>2. Tail(buffer) \o queue \in Seq(Audio) BY <1>t, <3>1
        <4>3. (out \o <<Head(buffer)>>) \o (Tail(buffer) \o queue)
                = out \o (<<Head(buffer)>> \o (Tail(buffer) \o queue))
          BY <1>t, <3>1, <4>1, <4>2
        <4>4. <<Head(buffer)>> \o (Tail(buffer) \o queue) = buffer \o queue
          BY <1>t, <3>1, <4>1
        <4>5. (out \o buffer) \o queue = out \o (buffer \o queue) BY <1>t, <4>1
        <4>q. QED BY <4>3, <4>4, <4>5
      <3>q. QED BY <2>2, <3>2, <3>3, <3>4 DEF Air
    <2>q. QED BY <1>5, <2>1, <2>2, Fed
  <1>6. ASSUME NEW a \in Alerts, Begin(a) \/ Inject(a)
        PROVE  \/ UNCHANGED <<out, buffer, queue>>
               \/ queue # <<>> /\ queue' = Tail(queue) /\ UNCHANGED <<out, buffer>>
    BY <1>6 DEF Begin, Inject, ClearQueue, ReadSeq, Count, CloseGate, Flush, OpenGate
  <1>7. CASE CaptureRead \/ UNCHANGED vars BY <1>7, <1>1 DEF CaptureRead, vars
  <1>q. QED BY <1>1, <1>2, <1>3, <1>4, <1>5, <1>6, <1>7 DEF Next, Capture, Stream

-----------------------------------------------------------------------------
(* The chunks of an alert stay in order.                                   *)

LEMMA PosKept ==
    [Next]_vars => \/ pos' = pos
                   \/ \E a \in Alerts : Send(a)
  BY DEF Next, Capture, Stream, Inject, Begin, ClearQueue, ReadSeq, Count, CloseGate, Flush, Send,
         OpenGate, Check, Get, Feed, CaptureRead, CapturePublish, vars, injVars

LEMMA OrderedNext == TypeOK /\ Counted /\ TypeOK' /\ Ordered /\ [Next]_vars => Ordered'
  <1> SUFFICES ASSUME TypeOK, Counted, TypeOK', Ordered, [Next]_vars, NEW a \in Alerts
               PROVE  Ascends(Air, a)' /\ UpTo(Air, a, pos[a])'
    BY DEF Ordered
  <1>o. Ascends(Air, a) /\ UpTo(Air, a, pos[a]) BY DEF Ordered
  <1>t. Air \in Seq(Audio) /\ Len(Air) \in Nat /\ Len(Air') \in Nat /\ pos[a] \in Nat
        /\ Of(Air, a) \subseteq 1..Len(Air)
    BY AirType DEF TypeOK, Of
  <1>1. CASE CapturePublish
    <2>1. Air' = Append(Air, Live) BY <1>1, Published
    <2>2. Of(Air', a) = Of(Air, a) /\ \A i \in Of(Air, a) : Air'[i] = Air[i]
      BY <1>t, <2>1, WithLive
    <2>3. pos' = pos BY <1>1 DEF CapturePublish, injVars
    <2>q. QED BY <1>o, <2>2, <2>3 DEF Ascends, UpTo
  <1>2. ASSUME NEW b \in Alerts, Send(b) PROVE Ascends(Air, a)' /\ UpTo(Air, a, pos[a])'
    <2>1. Air' = Append(Air, <<b, pos[b] + 1>>) BY <1>2, Sent
    <2>2. /\ Of(Air', a) = IF a = b THEN Of(Air, a) \cup {Len(Air')} ELSE Of(Air, a)
          /\ \A i \in Of(Air, a) : Air'[i] = Air[i]
          /\ Air'[Len(Air')] = <<b, pos[b] + 1>>
      <3>1. Longer(Air, Air', a, b, pos[b] + 1) BY <1>t, <2>1, WithChunk
      <3>q. QED BY <3>1 DEF Longer
    <2>3. pos'[a] = IF a = b THEN pos[a] + 1 ELSE pos[a] BY <1>2 DEF Send, TypeOK
    <2>4. Len(Air') = Len(Air) + 1 BY <1>t, <2>1
    <2>5. CASE a # b BY <1>o, <2>2, <2>3, <2>5 DEF Ascends, UpTo
    <2>6. CASE a = b
      <3>1. Of(Air', a) = Of(Air, a) \cup {Len(Air')} /\ pos'[a] = pos[a] + 1
            /\ Air'[Len(Air')][2] = pos[a] + 1
        BY <2>2, <2>3, <2>6
      <3>2. UpTo(Air', a, pos[a] + 1)
        <4>1. ASSUME NEW i \in Of(Air, a) PROVE Air'[i][2] \in 1..pos[a] + 1
          <5>1. Air'[i] = Air[i] /\ Air[i][2] \in 1..pos[a] BY <1>o, <2>2 DEF UpTo
          <5>q. QED BY <1>t, <5>1
        <4>2. pos[a] + 1 \in 1..pos[a] + 1 BY <1>t
        <4>q. QED BY <3>1, <4>1, <4>2 DEF UpTo
      <3>3. ASSUME NEW i \in Of(Air', a), NEW j \in Of(Air', a), i < j
            PROVE  Air'[i][2] < Air'[j][2]
        <4>1. i \in Of(Air, a) BY <1>t, <2>4, <3>1, <3>3
        <4>2. CASE j \in Of(Air, a) BY <1>o, <2>2, <3>3, <4>1, <4>2 DEF Ascends
        <4>3. CASE j = Len(Air')
          <5>1. Air'[i][2] \in 1..pos[a] BY <1>o, <2>2, <4>1 DEF UpTo
          <5>q. QED BY <1>t, <3>1, <4>3, <5>1
        <4>q. QED BY <3>1, <4>2, <4>3
      <3>q. QED BY <3>1, <3>2, <3>3 DEF Ascends, UpTo
    <2>q. QED BY <2>5, <2>6
  <1>3. CASE ~CapturePublish /\ \A b \in Alerts : ~Send(b)
    <2>1. Thins(Air, Air') BY <1>3, Thinned
    <2>2. pos' = pos BY <1>3, PosKept
    <2>3. Ascends(Air', a) /\ UpTo(Air', a, pos[a]) BY <1>o, <1>t, <2>1, Thinner
    <2>q. QED BY <2>2, <2>3 DEF Ascends, UpTo
  <1>q. QED BY <1>1, <1>2, <1>3

-----------------------------------------------------------------------------
(* Injections that no other overlaps.                                      *)

\* What the steps of an injection do to the others.
LEMMA InjectionSteps ==
    ASSUME TypeOK, NEW b \in Alerts
    PROVE  /\ Begin(b) => mixed' = mixed \cup {c \in Alerts : step[c] # "ready"}
                                       \cup {c \in {b} : \E d \in Alerts : Busy(d)}
           /\ Inject(b) => Busy(b) /\ mixed' = mixed
           /\ Begin(b) \/ Inject(b) => \A c \in Alerts \ {b} : step'[c] = step[c]
  <1> USE DEF Move, TypeOK
  <1>1. CASE Begin(b) BY <1>1 DEF Begin, Inject, ClearQueue, ReadSeq, Count, CloseGate, Flush, Send, OpenGate
  <1>2. CASE Inject(b)
    BY <1>2 DEF Begin, Inject, ClearQueue, ReadSeq, Count, CloseGate, Flush, Send, OpenGate, Busy
  <1>q. QED BY <1>1, <1>2

LEMMA OtherSteps ==
    ASSUME Capture \/ Stream \/ UNCHANGED vars
    PROVE  step' = step /\ mixed' = mixed
  BY DEF Capture, Stream, Check, Get, Feed, CaptureRead, CapturePublish, vars, injVars

LEMMA UnmixedNext ==
    ASSUME TypeOK, Unmixed, [Next]_vars
    PROVE  Unmixed'
  <1> SUFFICES ASSUME NEW a \in Alerts, Alone(a)', step'[a] # "ready", NEW b \in Alerts \ {a}
               PROVE  ~Busy(b)'
    BY DEF Unmixed
  <1>1. CASE Capture \/ Stream \/ UNCHANGED vars
    BY <1>1, OtherSteps DEF Unmixed, Alone, Busy
  <1>2. ASSUME NEW c \in Alerts, Begin(c) PROVE ~Busy(b)'
    <2>1. c = a BY <1>2, InjectionSteps DEF Alone
    <2>2. ~Busy(b) BY <1>2, <2>1, InjectionSteps DEF Alone
    <2>q. QED BY <1>2, <2>1, <2>2, InjectionSteps DEF Busy
  <1>3. ASSUME NEW c \in Alerts, Inject(c) PROVE ~Busy(b)'
    <2>1. Alone(a) /\ Busy(c) BY <1>3, InjectionSteps DEF Alone
    <2>2. c = a BY <1>3, <2>1, InjectionSteps DEF Unmixed
    <2>3. ~Busy(b) BY <2>1, <2>2 DEF Unmixed, Busy
    <2>q. QED BY <1>3, <2>2, <2>3, InjectionSteps DEF Busy
  <1>q. QED BY <1>1, <1>2, <1>3 DEF Next

\* Only its own steps, the capture loop's and the streamer's touch an injection that is
\* under way and unmixed.
LEMMA AloneWas ==
    ASSUME TypeOK, Unmixed, [Next]_vars, NEW a \in Alerts, Alone(a)'
    PROVE  /\ Alone(a)
           /\ step'[a] = "ready" \/ \A b \in Alerts : Begin(b) \/ Inject(b) => b = a
  <1>1. Alone(a)
    <2>1. CASE Capture \/ Stream \/ UNCHANGED vars BY <2>1, OtherSteps DEF Alone
    <2>2. ASSUME NEW b \in Alerts, Begin(b) \/ Inject(b) PROVE Alone(a)
      BY <2>2, InjectionSteps DEF Alone
    <2>q. QED BY <2>1, <2>2 DEF Next
  <1>2. ASSUME NEW b \in Alerts, b # a, Begin(b) PROVE step'[a] = "ready"
    <2>1. step[a] = "ready" BY <1>2, InjectionSteps DEF Alone
    <2>q. QED BY <1>2, <2>1, InjectionSteps
  <1>3. ASSUME NEW b \in Alerts, b # a, Inject(b) PROVE step'[a] = "ready"
    <2>1. step[a] = "ready" BY <1>1, <1>3, InjectionSteps DEF Unmixed
    <2>q. QED BY <1>3, <2>1, InjectionSteps
  <1>q. QED BY <1>1, <1>2, <1>3

\* Nothing of an alert is anywhere before its first chunk is sent.
LEMMA NothingYet ==
    ASSUME Counted, Ordered, NEW a \in Alerts, step[a] \notin {"send", "release", "done"}
    PROVE  Of(Air, a) = {} /\ pos[a] = 0
  BY DEF Counted, Ordered, UpTo

LEMMA ShutNext ==
    /\ TypeOK /\ TypeOK' /\ Counted /\ Counted' /\ Ordered /\ Ordered' /\ Unmixed /\ Shut
    /\ [Next]_vars
    => Shut'
  <1> SUFFICES ASSUME TypeOK, TypeOK', Counted, Counted', Ordered, Ordered', Unmixed, Shut, [Next]_vars,
                      NEW a \in Alerts, Alone(a)'
               PROVE  /\ step'[a] \in {"flush", "send", "release"} =>
                            /\ gate'
                            /\ AtMostOne(After(Air', a))
                            /\ cap' = "publish" => After(Air', a) = {}
                      /\ AtMostOne(Between(Air', a))
    BY DEF Shut, AtMostOne, After, Between, Of
  <1> USE DEF Move, injVars, capVars, strVars
  <1>t. Air \in Seq(Audio) /\ Len(Air) \in Nat /\ Len(Air') \in Nat BY AirType
  <1>0. CASE step'[a] = "ready"
    <2>1. Of(Air', a) = {} BY <1>0 DEF Counted, Ordered, UpTo
    <2>q. QED BY <1>0, <2>1 DEF AtMostOne, Between
  <1> SUFFICES ASSUME step'[a] # "ready"
               PROVE  /\ step'[a] \in {"flush", "send", "release"} =>
                            /\ gate'
                            /\ AtMostOne(After(Air', a))
                            /\ cap' = "publish" => After(Air', a) = {}
                      /\ AtMostOne(Between(Air', a))
    BY <1>0
  <1>a. Alone(a) /\ \A b \in Alerts : Begin(b) \/ Inject(b) => b = a BY AloneWas
  <1>s. /\ step[a] \in {"flush", "send", "release"} =>
              /\ gate
              /\ AtMostOne(After(Air, a))
              /\ cap = "publish" => After(Air, a) = {}
        /\ AtMostOne(Between(Air, a))
    BY <1>a DEF Shut
  <1>1. CASE CapturePublish
    <2>1. Air' = Append(Air, Live) BY <1>1, Published
    <2>2. After(Air', a) \subseteq After(Air, a) \cup {Len(Air')} /\ Between(Air', a) = Between(Air, a)
      BY <1>t, <2>1, WithLive
    <2>3. cap = "publish" /\ cap' = "read" /\ step' = step /\ gate' = gate
      BY <1>1 DEF CapturePublish
    <2>q. QED BY <1>s, <2>2, <2>3 DEF AtMostOne
  <1>2. CASE Send(a)
    <2>1. Air' = Append(Air, <<a, pos[a] + 1>>) BY <1>2, Sent
    <2>2. After(Air', a) = After(Air, a) /\ Between(Air', a) \subseteq After(Air, a)
      <3>1. Longer(Air, Air', a, a, pos[a] + 1) BY <1>t, <2>1, WithChunk
      <3>q. QED BY <3>1 DEF Longer
    <2>3. step[a] = "send" /\ cap' = cap /\ gate' = gate BY <1>2 DEF Send
    <2>q. QED BY <1>s, <2>2, <2>3 DEF AtMostOne
  <1>3. CASE ~CapturePublish /\ \A b \in Alerts : ~Send(b)
    <2>1. Thins(Air, Air') BY <1>3, Thinned
    <2>2. /\ AtMostOne(After(Air, a)) => AtMostOne(After(Air', a))
          /\ After(Air, a) = {} => After(Air', a) = {}
          /\ AtMostOne(Between(Air, a)) => AtMostOne(Between(Air', a))
      BY <1>t, <2>1, Thinner
    <2>3. CASE CaptureRead
      <3>1. ~gate /\ step' = step BY <2>3 DEF CaptureRead
      <3>q. QED BY <1>s, <2>2, <3>1
    <2>4. CASE CloseGate(a)
      <3>1. gate' /\ Of(Air, a) = {} BY <2>4, NothingYet DEF CloseGate
      <3>2. After(Air, a) = {} BY <3>1 DEF After
      <3>3. AtMostOne({}) BY DEF AtMostOne
      <3>q. QED BY <1>s, <2>2, <3>1, <3>2, <3>3
    <2>5. CASE step'[a] \in {"flush", "send", "release"} => step[a] \in {"flush", "send", "release"}
                                                           /\ gate' = gate /\ cap' = cap
      BY <1>s, <2>2, <2>5
    <2>6. CASE Begin(a) \/ ClearQueue(a) \/ ReadSeq(a) \/ Count(a) \/ Flush(a) \/ OpenGate(a)
      <3>1. step'[a] \in {"flush", "send", "release"} =>
                step[a] \in {"flush", "send", "release"} /\ gate' = gate /\ cap' = cap
        BY <2>6 DEF Begin, ClearQueue, ReadSeq, Count, Flush, OpenGate, TypeOK
      <3>q. QED BY <2>5, <3>1
    <2>7. CASE Stream \/ UNCHANGED vars
      <3>1. step' = step /\ gate' = gate /\ cap' = cap
        BY <2>7 DEF Stream, Check, Get, Feed, vars
      <3>q. QED BY <2>5, <3>1
    <2>q. QED BY <1>3, <1>a, <2>3, <2>4, <2>6, <2>7 DEF Next, Capture, Inject
  <1>4. (\E b \in Alerts : Send(b)) => Send(a) BY <1>a DEF Inject
  <1>q. QED BY <1>1, <1>2, <1>3, <1>4

\* The parts of Air.
LEMMA HasAir ==
    ASSUME TypeOK, NEW a, NEW k
    PROVE  Has(Air, a, k) <=> Has(out, a, k) \/ Has(buffer, a, k) \/ Has(queue, a, k)
  <1>1. out \in Seq(Audio) /\ buffer \in Seq(Audio) /\ queue \in Seq(Audio)
        /\ out \o buffer \in Seq(Audio)
    BY DEF TypeOK
  <1>2. Has(out \o buffer \o queue, a, k) <=> Has(out \o buffer, a, k) \/ Has(queue, a, k)
    BY <1>1, HasJoined
  <1>3. Has(out \o buffer, a, k) <=> Has(out, a, k) \/ Has(buffer, a, k) BY <1>1, HasJoined
  <1>q. QED BY <1>2, <1>3 DEF Air

\* While the queue holds an alert from its first chunk on, that is the one taken next.
LEMMA FirstIsNext ==
    ASSUME TypeOK, Ordered, NEW a \in Alerts, queue # <<>>, Head(queue)[1] = a,
           \A k \in 1..pos[a] : Has(queue, a, k)
    PROVE  Head(queue)[2] = 1
  <1>1. queue \in Seq(Audio) /\ Len(queue) \in Nat /\ 1 \in 1..Len(queue) /\ queue[1] = Head(queue)
    BY DEF TypeOK
  <1>2. Thins(Air, queue)
    <2>1. out \o buffer \in Seq(Audio) /\ <<>> \in Seq(Audio) BY DEF TypeOK
    <2>2. Thins(<<>> \o (out \o buffer) \o queue, <<>> \o queue) BY <1>1, <2>1, ThinsCut
    <2>3. <<>> \o (out \o buffer) = out \o buffer /\ <<>> \o queue = queue BY <1>1, <2>1
    <2>q. QED BY <2>2, <2>3 DEF Air
  <1>3. Ascends(queue, a) /\ UpTo(queue, a, pos[a])
    BY <1>1, <1>2, AirType, Thinner DEF Ordered
  <1>4. 1 \in Of(queue, a) BY <1>1 DEF Of
  <1>5. queue[1][2] \in 1..pos[a] BY <1>3, <1>4 DEF UpTo
  <1>6. pos[a] \in Nat BY DEF TypeOK
  <1>7. 1 \in 1..pos[a] BY <1>5, <1>6
  <1>8. PICK i \in Of(queue, a) : queue[i][2] = 1 BY <1>7 DEF Has
  <1>9. CASE i = 1 BY <1>1, <1>8, <1>9
  <1>10. CASE i # 1
    <2>1. 1 < i BY <1>1, <1>8, <1>10 DEF Of
    <2>2. queue[1][2] < 1 BY <1>3, <1>4, <1>8, <2>1 DEF Ascends
    <2>q. QED BY <1>5, <1>6, <2>2
  <1>q. QED BY <1>9, <1>10

LEMMA KeptNext ==
    /\ TypeOK /\ TypeOK' /\ Counted /\ Counted' /\ Ordered /\ Ordered' /\ Unmixed /\ Kept
    /\ [Next]_vars
    => Kept'
  <1> DEFINE K(a) == /\ \A k \in 2..pos[a] : Has(Air, a, k)
                     /\ seq # saw => \A i \in Of(buffer, a) : buffer[i][2] = 1
                     /\ seq # saw /\ at = "get" => \A k \in 1..pos[a] : Has(queue, a, k)
  <1> SUFFICES ASSUME TypeOK, TypeOK', Counted, Counted', Ordered, Ordered', Unmixed, Kept, [Next]_vars,
                      NEW a \in Alerts, Alone(a)'
               PROVE  K(a)'
    BY DEF Kept
  <1> USE DEF Move, injVars, capVars, strVars
  <1>t. /\ Air \in Seq(Audio) /\ queue \in Seq(Audio) /\ buffer \in Seq(Audio)
        /\ out \in Seq(Audio) /\ pos[a] \in Nat
    BY AirType DEF TypeOK
  <1>a. Alone(a) /\ (step'[a] = "ready" \/ \A b \in Alerts : Begin(b) \/ Inject(b) => b = a)
    BY AloneWas
  <1>k. K(a) BY <1>a DEF Kept
  <1> HIDE DEF K
  <1>1. CASE CapturePublish
    <2>1. Air' = Append(Air, Live) /\ queue' = Append(queue, Live) BY <1>1, Published DEF CapturePublish
    <2>2. pos' = pos /\ seq' = seq /\ saw' = saw /\ at' = at /\ buffer' = buffer
      BY <1>1 DEF CapturePublish
    <2>3. Of(Air', a) = Of(Air, a) /\ \A i \in Of(Air, a) : Air'[i] = Air[i]
      BY <1>t, <2>1, WithLive
    <2>4. Of(queue', a) = Of(queue, a) /\ \A i \in Of(queue, a) : queue'[i] = queue[i]
      BY <1>t, <2>1, WithLive
    <2>5. \A k : Has(Air, a, k) => Has(Air', a, k) BY <2>3 DEF Has
    <2>6. \A k : Has(queue, a, k) => Has(queue', a, k) BY <2>4 DEF Has
    <2>q. QED BY <1>k, <2>2, <2>5, <2>6 DEF K
  <1>2. CASE Send(a)
    <2> DEFINE n == pos[a] + 1
    <2>1. Air' = Append(Air, <<a, n>>) /\ queue' = Append(queue, <<a, n>>) BY <1>2, Sent DEF Send
    <2>2. pos'[a] = n /\ seq' = seq /\ saw' = saw /\ at' = at /\ buffer' = buffer
      BY <1>2 DEF Send, TypeOK
    <2>3. \A k \in 1..n : k = n \/ k \in 1..pos[a] BY <1>t
    <2>4. \A k \in 2..n : k = n \/ k \in 2..pos[a] BY <1>t
    <2> HIDE DEF n
    <2>5. ASSUME NEW s \in Seq(Audio) PROVE \A k : Has(s, a, k) \/ k = n => Has(Append(s, <<a, n>>), a, k)
      <3> DEFINE t == Append(s, <<a, n>>)
      <3>1. Of(t, a) = Of(s, a) \cup {Len(t)} /\ (\A i \in Of(s, a) : t[i] = s[i])
            /\ t[Len(t)] = <<a, n>>
        <4>1. Longer(s, t, a, a, n) BY WithChunk
        <4>q. QED BY <4>1 DEF Longer
      <3> HIDE DEF t
      <3>2. t[Len(t)][2] = n BY <3>1
      <3>3. \A k : Has(s, a, k) \/ k = n => Has(t, a, k) BY <3>1, <3>2 DEF Has
      <3>q. QED BY <3>3 DEF t
    <2>6. \A k : Has(Air, a, k) \/ k = n => Has(Air', a, k) BY <1>t, <2>1, <2>5
    <2>7. \A k : Has(queue, a, k) \/ k = n => Has(queue', a, k) BY <1>t, <2>1, <2>5
    <2>8. \A k \in 2..n : Has(Air', a, k) BY <1>k, <2>4, <2>6 DEF K
    <2>9. seq # saw /\ at = "get" => \A k \in 1..n : Has(queue', a, k) BY <1>k, <2>3, <2>7 DEF K
    <2>q. QED BY <1>k, <2>2, <2>8, <2>9 DEF K
  <1>3. CASE step'[a] \notin {"send", "release", "done"}
    <2>1. Of(Air', a) = {} /\ pos'[a] = 0 BY <1>3 DEF Counted, Ordered, UpTo
    <2>2. ASSUME NEW i \in Of(buffer', a) PROVE FALSE
      <3>1. Has(buffer', a, buffer'[i][2]) BY DEF Has
      <3>2. Has(Air', a, buffer'[i][2])
        <4>1. buffer' \in Seq(Audio) /\ out' \in Seq(Audio) /\ queue' \in Seq(Audio)
              /\ out' \o buffer' \in Seq(Audio)
          BY DEF TypeOK
        <4>2. Has(out' \o buffer', a, buffer'[i][2]) BY <3>1, <4>1, HasJoined
        <4>3. Has(out' \o buffer' \o queue', a, buffer'[i][2]) BY <4>1, <4>2, HasJoined
        <4>q. QED BY <4>3 DEF Air
      <3>q. QED BY <2>1, <3>2 DEF Has
    <2>3. 2..0 = {} /\ 1..0 = {} OBVIOUS
    <2>q. QED BY <2>1, <2>2, <2>3 DEF K
  <1>4. CASE Check
    <2>1. saw' = seq /\ seq' = seq /\ pos' = pos BY <1>4 DEF Check
    <2>2. ASSUME NEW k \in 2..pos[a] PROVE Has(Air', a, k)
      <3>1. Has(Air, a, k) BY <1>k DEF K
      <3>2. CASE seq = saw
        <4>1. Air' = Air BY <1>4, <3>2 DEF Check, Air
        <4>q. QED BY <3>1, <4>1
      <3>3. CASE seq # saw
        <4>1. ~Has(buffer, a, k)
          <5>1. k # 1 BY <1>t
          <5>q. QED BY <1>k, <3>3, <5>1 DEF K, Has
        <4>2. Has(out, a, k) \/ Has(queue, a, k) BY <3>1, <4>1, HasAir
        <4>3. Has(out \o queue, a, k) BY <1>t, <4>2, HasJoined
        <4>4. Air' = out \o queue BY <1>4, <1>t, <3>3 DEF Check, Air
        <4>q. QED BY <4>3, <4>4
      <3>q. QED BY <3>2, <3>3
    <2>q. QED BY <2>1, <2>2 DEF K
  <1>5. CASE Get
    <2>1. Air' = Air /\ pos' = pos /\ seq' = seq /\ saw' = saw /\ at' = "feed" /\ at = "get"
      BY <1>5, Taken DEF Get
    <2>2. ASSUME seq # saw, NEW i \in Of(buffer', a) PROVE buffer'[i][2] = 1
      <3>1. CASE buffer' = buffer BY <1>k, <2>2, <3>1 DEF K
      <3>2. CASE queue # <<>> /\ buffer' = Append(buffer, Head(queue))
        <4>1. CASE i \in 1..Len(buffer)
          <5>1. buffer'[i] = buffer[i] BY <1>t, <3>2, <4>1
          <5>2. i \in Of(buffer, a) BY <2>2, <4>1, <5>1 DEF Of
          <5>q. QED BY <1>k, <2>2, <5>1, <5>2 DEF K
        <4>2. CASE i = Len(buffer) + 1
          <5>1. buffer'[i] = Head(queue) BY <1>t, <3>2, <4>2
          <5>2. Head(queue)[1] = a BY <2>2, <5>1 DEF Of
          <5>3. Head(queue)[2] = 1 BY <1>k, <2>1, <2>2, <3>2, <5>2, FirstIsNext DEF K
          <5>q. QED BY <5>1, <5>3
        <4>q. QED BY <1>t, <2>2, <3>2, <4>1, <4>2 DEF Of
      <3>q. QED BY <1>5, <3>1, <3>2 DEF Get
    <2>q. QED BY <1>k, <2>1, <2>2 DEF K
  <1>6. CASE Feed
    <2>1. pos' = pos /\ seq' = seq /\ saw' = saw /\ at' = "check" BY <1>6 DEF Feed
    <2>2. ASSUME NEW k \in 2..pos[a] PROVE Has(Air', a, k)
      <3>1. Has(Air, a, k) BY <1>k DEF K
      <3>2. CASE Air' = Air BY <3>1, <3>2
      <3>3. CASE buffer # <<>> /\ Head(buffer) = Live /\ buffer' = Tail(buffer) /\ UNCHANGED <<out, queue>>
        <4>1. ~Has(<<Head(buffer)>>, a, k)
          <5>1. Live[1] # a BY AlertsAssumption DEF Live
          <5>q. QED BY <1>t, <3>3, <5>1, HasTail
        <4>2. Has(buffer, a, k) => Has(Tail(buffer), a, k) BY <1>t, <3>3, <4>1, HasTail
        <4>3. Has(out, a, k) \/ Has(Tail(buffer), a, k) \/ Has(queue, a, k)
          BY <3>1, <4>2, HasAir
        <4>4. Tail(buffer) \in Seq(Audio) /\ out \o Tail(buffer) \in Seq(Audio) BY <1>t, <3>3
        <4>5. Has(out \o Tail(buffer) \o queue, a, k) BY <1>t, <4>3, <4>4, HasJoined
        <4>q. QED BY <3>3, <4>5 DEF Air
      <3>q. QED BY <1>6, <3>2, <3>3, Fed
    <2>3. ASSUME seq # saw, NEW i \in Of(buffer', a) PROVE buffer'[i][2] = 1
      <3>1. CASE buffer' = buffer BY <1>k, <2>3, <3>1 DEF K
      <3>2. CASE buffer # <<>> /\ buffer' = Tail(buffer)
        <4>1. i \in 1..Len(buffer) - 1 /\ buffer'[i] = buffer[i + 1] /\ Len(buffer) \in Nat
          BY <1>t, <2>3, <3>2 DEF Of
        <4>2. i + 1 \in Of(buffer, a) BY <2>3, <4>1 DEF Of
        <4>q. QED BY <1>k, <2>3, <4>1, <4>2 DEF K
      <3>q. QED BY <1>6, <3>1, <3>2 DEF Feed
    <2>q. QED BY <2>1, <2>2, <2>3 DEF K
  <1>7. CASE CaptureRead \/ OpenGate(a) \/ UNCHANGED vars
    <2>1. /\ Air' = Air /\ queue' = queue /\ buffer' = buffer
          /\ pos' = pos /\ seq' = seq /\ saw' = saw /\ at' = at
      BY <1>7 DEF CaptureRead, OpenGate, vars, Air
    <2>q. QED BY <1>k, <2>1 DEF K
  <1>8. CASE Begin(a) \/ ClearQueue(a) \/ ReadSeq(a) \/ Count(a) \/ CloseGate(a)
    <2>1. step'[a] \notin {"send", "release", "done"}
      BY <1>8 DEF Begin, ClearQueue, ReadSeq, Count, CloseGate, TypeOK
    <2>q. QED BY <1>3, <2>1
  <1>9. CASE Flush(a)
    <2>1. pos'[a] = 0 /\ seq' = seq /\ saw' = saw /\ buffer' = buffer
      BY <1>9 DEF Flush, Counted
    <2>2. Of(buffer, a) = {}
      <3>1. Of(Air, a) = {} BY <1>9, NothingYet DEF Flush
      <3>2. \A k : ~Has(buffer, a, k) BY <3>1, HasAir DEF Has
      <3>q. QED BY <3>2 DEF Has
    <2>3. 2..0 = {} /\ 1..0 = {} OBVIOUS
    <2>q. QED BY <2>1, <2>2, <2>3 DEF K
  <1>q. QED
    BY <1>1, <1>2, <1>3, <1>4, <1>5, <1>6, <1>7, <1>8, <1>9, <1>a
    DEF Next, Capture, Stream, Inject

-----------------------------------------------------------------------------
(* The theorems.                                                           *)

LEMMA Invariance == Spec => []Inv
  <1>1. Inv /\ [Next]_vars => Inv'
    <2> SUFFICES ASSUME Inv, [Next]_vars PROVE Inv' OBVIOUS
    <2>1. TypeOK' /\ Counted' /\ LiveLeft' BY TypeNext DEF Inv
    <2>2. GateHeld' BY GateNext DEF Inv
    <2>3. Ordered' BY <2>1, OrderedNext DEF Inv
    <2>4. Kept' BY <2>1, <2>3, KeptNext DEF Inv
    <2>5. Shut' BY <2>1, <2>3, ShutNext DEF Inv
    <2>6. Unmixed' BY UnmixedNext DEF Inv
    <2>q. QED BY <2>1, <2>2, <2>3, <2>4, <2>5, <2>6 DEF Inv
  <1>q. QED BY InitInv, <1>1, PTL DEF Spec

\* Queues, buffer and history hold chunks only, every counter stays in its range.
THEOREM TypeCorrect == Spec => []TypeOK
  <1>1. Inv => TypeOK BY DEF Inv
  <1>q. QED BY <1>1, Invariance, PTL

\* A closed gate has an injection that will open it (inject_eas_audio,
\* abort_injected_audio), however many injections and aborts overlap.
THEOREM GateIsHeld == Spec => []GateHeld
  <1>1. Inv => GateHeld BY DEF Inv
  <1>q. QED BY <1>1, Invariance, PTL

\* Flushes, clears, dropped pre-buffers and encoder restarts never turn the chunks
\* of an alert around or repeat one.
THEOREM ChunksInOrder == Spec => []Sequenced
  <1>1. Inv => Sequenced
    BY DEF Inv, Ordered, Ascends, Of, Sequenced, Places
  <1>q. QED BY <1>1, Invariance, PTL

\* An injection that no other overlaps reaches the encoder from its second chunk on,
\* whenever the streamer notices it (_eas_inject_seq), until another one follows.
THEOREM FirstLostAtMost == Spec => []OnlyFirstLost
  <1>1. Inv => OnlyFirstLost
    BY DEF Inv, Kept, Has, Of, OnlyFirstLost, Places
  <1>q. QED BY <1>1, Invariance, PTL

\* The gate lets one live chunk at most in between the chunks of an injection that no
\* other overlaps or follows.
THEOREM StrayAtMost == Spec => []OneStray
  <1>1. ASSUME Inv, NEW a \in Alerts, Alone(a)
        PROVE  Cardinality({l \in Places("live") : \E i, j \in Places(a) : i < l /\ l < j}) <= 1
    <2>1. AtMostOne(Between(Air, a)) BY <1>1 DEF Inv, Shut
    <2>2. Between(Air, a) = {l \in Places("live") : \E i, j \in Places(a) : i < l /\ l < j}
      BY DEF Between, Of, Places
    <2>3. CASE Between(Air, a) = {}
      <3>1. Cardinality({}) = 0 BY FS_EmptySet
      <3>q. QED BY <2>2, <2>3, <3>1
    <2>4. CASE Between(Air, a) # {}
      <3>1. PICK l \in Between(Air, a) : TRUE BY <2>4
      <3>2. Between(Air, a) = {l} BY <2>1, <3>1 DEF AtMostOne
      <3>3. Cardinality({l}) = 1 BY FS_Singleton
      <3>q. QED BY <2>2, <3>2, <3>3
    <2>q. QED BY <2>3, <2>4
  <1>2. Inv => OneStray BY <1>1 DEF OneStray
  <1>q. QED BY <1>2, Invariance, PTL
=============================================================================
