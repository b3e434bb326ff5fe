------------------------- MODULE RwtScheduler_proofs --------------------------
(***************************************************************************)
(* For any workers, requests, weeks and windows: the types, one automatic  *)
(* test a week, and that no week with a poll in a window goes without a    *)
(* try.                                                                    *)
(***************************************************************************)
EXTENDS RwtScheduler, TLAPS

Won(p, k) == at[p] = "won" /\ plan[p] = k

\* A week that has its test, or is being tried by a scheduler, has its key in
\* Redis, and at most one scheduler tries it, once.
KeyGuards ==
    \A k \in AllWeeks \ blind :
        /\ auto[k] # 0 => k \in keys
        /\ \A p \in Schedulers : Won(p, k) => k \in keys /\ auto[k] = 0
        /\ \A p, q \in Schedulers : Won(p, k) /\ Won(q, k) => p = q

\* A scheduler between its poll and the lock runs, and the minute is still the one
\* it polled in.
DueIsNow ==
    \A p \in Procs : at[p] = "due" => p \in Schedulers \cap up \cap polled /\ plan[p] = Week
PolledRuns == polled \subseteq up
\* A key is left by somebody who won it, a recorded success by somebody who sent.
KeyTried == \A k \in keys : Tried(k)
RanSent == last.ok => last.week \in sent
\* A worker that has polled in a window has found the week done, or sees to it.
PolledSees == InWindow => \A p \in polled : at[p] = "due" \/ Tried(Week)
ChanceTried == \A k \in chance : Tried(k)

Inv == /\ TypeOK /\ KeyGuards /\ OncePerWeek
       /\ DueIsNow /\ PolledRuns /\ KeyTried /\ RanSent /\ PolledSees /\ ChanceTried

-----------------------------------------------------------------------------
(* The calendar.                                                           *)

LEMMA WeekBound ==
    ASSUME NEW n \in Nat, NEW w \in Nat, NEW m \in Nat \ {0}, n < w * m
    PROVE  n \div m \in 0..w - 1
  <1>1. n \div m \in Nat /\ n = m * (n \div m) + (n % m) /\ n % m \in 0..m - 1 OBVIOUS
  <1>2. CASE n \div m >= w
    <2>1. m * (n \div m) >= m * w BY <1>1, <1>2
    <2>q. QED BY <1>1, <2>1
  <1>q. QED BY <1>1, <1>2

LEMMA WeekType == ASSUME now \in 0..Weeks * Minutes - 1 PROVE Week \in AllWeeks
  <1>1. Weeks \in Nat /\ Minutes \in Nat \ {0} BY SizesAssumption
  <1>2. Weeks * Minutes \in Nat BY <1>1
  <1>3. now \in Nat /\ now < Weeks * Minutes BY <1>2
  <1>q. QED BY <1>1, <1>3, WeekBound DEF Week, AllWeeks

LEMMA SlotsType == Slots \subseteq 0..Minutes - 1
  BY SizesAssumption DEF Slots

-----------------------------------------------------------------------------
LEMMA InitInv == Init => Inv
  <1> SUFFICES ASSUME Init PROVE Inv OBVIOUS
  <1>1. 0 \in AllWeeks /\ 0 \in 0..Weeks * Minutes - 1 BY SizesAssumption DEF AllWeeks
  <1>2. slot \in [AllWeeks -> 0..Minutes - 1] BY SlotsType DEF Init
  <1>3. TypeOK BY <1>1, <1>2, SizesAssumption DEF Init, TypeOK
  <1>4. KeyGuards /\ OncePerWeek
    <2>1. \A k \in AllWeeks : auto[k] = 0 BY DEF Init
    <2>2. \A p \in Schedulers, k \in AllWeeks : ~Won(p, k) BY DEF Init, Won, Procs
    <2>q. QED BY <2>1, <2>2 DEF KeyGuards, OncePerWeek
  <1>5. DueIsNow /\ PolledRuns /\ KeyTried /\ RanSent BY DEF Init, DueIsNow, PolledRuns, KeyTried, RanSent
  <1>6. PolledSees /\ ChanceTried BY DEF Init, PolledSees, ChanceTried
  <1>q. QED BY <1>3, <1>4, <1>5, <1>6 DEF Inv

\* A week that was tried stays so in every step.
LEMMA TriedStays == ASSUME Inv, [Next]_vars, NEW k \in AllWeeks, Tried(k) PROVE Tried(k)'
  <1> USE DEF Inv, timeVars, procVars, histVars
  <1>0. sent \subseteq sent' /\ tried \subseteq tried'
    BY DEF Next, Poll, Acquire, Press, Send, Fail, Finish, Crash, Restart, Redis, Tick, vars
  <1>1. CASE k \in sent \cup tried BY <1>0, <1>1 DEF Tried
  <1>2. ASSUME NEW p \in Procs, Won(p, k) PROVE Tried(k)'
    <2>1. (Won(p, k))' \/ k \in sent' \cup tried'
      <3>1. ASSUME NEW q \in Procs, Poll(q) \/ Acquire(q) \/ Press(q) PROVE (Won(p, k))'
        BY <1>2, <3>1 DEF Won, Poll, Acquire, Press, Go, TypeOK
      <3>2. ASSUME NEW q \in Procs, Send(q) \/ Fail(q) \/ Crash(q)
            PROVE  (Won(p, k))' \/ k \in sent' \cup tried'
        BY <1>2, <3>2 DEF Won, Send, Fail, Crash, Go, TypeOK
      <3>3. ASSUME NEW q \in Procs, Finish(q) \/ Restart(q) PROVE (Won(p, k))'
        BY <1>2, <3>3 DEF Won, Finish, Restart
      <3>4. CASE Redis \/ Tick \/ UNCHANGED vars
        BY <1>2, <3>4 DEF Won, Redis, Tick, vars
      <3>q. QED BY <3>1, <3>2, <3>3, <3>4 DEF Next
    <2>q. QED BY <2>1 DEF Tried, Won
  <1>q. QED BY <1>1, <1>2 DEF Tried, Won

\* Types, step by step.
LEMMA TypeNext == Inv /\ [Next]_vars => TypeOK'
  <1> SUFFICES ASSUME Inv, [Next]_vars PROVE TypeOK' OBVIOUS
  <1> USE DEF timeVars, procVars, histVars
  <1>t. TypeOK /\ Week \in AllWeeks BY WeekType DEF Inv, TypeOK
  <1>1. ASSUME NEW p \in Procs, Poll(p) PROVE TypeOK'
    BY <1>1, <1>t DEF Poll, Go, TypeOK
  <1>2. ASSUME NEW p \in Procs, Acquire(p) PROVE TypeOK'
    BY <1>2, <1>t DEF Acquire, Go, TypeOK
  <1>3. ASSUME NEW p \in Procs, Press(p) PROVE TypeOK'
    BY <1>3, <1>t DEF Press, Go, TypeOK
  <1>4. ASSUME NEW p \in Procs, Send(p) PROVE TypeOK'
    <2>1. last' \in [week : AllWeeks \cup {None}, ok : BOOLEAN] BY <1>4, <1>t DEF Send
    <2>2. auto' \in [AllWeeks -> Nat] BY <1>4, <1>t DEF Send, TypeOK
    <2>q. QED BY <1>4, <1>t, <2>1, <2>2 DEF Send, Go, TypeOK
  <1>5. ASSUME NEW p \in Procs, Fail(p) PROVE TypeOK'
    <2>1. last' \in [week : AllWeeks \cup {None}, ok : BOOLEAN]
      <3>1. last' = last \/ last' = [week |-> Week, ok |-> FALSE] BY <1>5 DEF Fail
      <3>2. CASE last' = last BY <3>2, <1>t DEF TypeOK
      <3>3. CASE last' = [week |-> Week, ok |-> FALSE] BY <3>3, <1>t
      <3>q. QED BY <3>1, <3>2, <3>3
    <2>2. faults' \in 0..MaxFaults BY <1>5, <1>t, SizesAssumption DEF Fail, TypeOK
    <2>q. QED BY <1>5, <1>t, <2>1, <2>2 DEF Fail, Go, TypeOK
  <1>6. ASSUME NEW p \in Procs, Finish(p) PROVE TypeOK' BY <1>6, <1>t DEF Finish, TypeOK
  <1>7. ASSUME NEW p \in Procs, Crash(p) PROVE TypeOK'
    <2>1. faults' \in 0..MaxFaults BY <1>7, <1>t, SizesAssumption DEF Crash, TypeOK
    <2>q. QED BY <1>7, <1>t, <2>1 DEF Crash, Go, TypeOK
  <1>8. ASSUME NEW p \in Procs, Restart(p) PROVE TypeOK'
    BY <1>8, <1>t DEF Restart, TypeOK, Procs
  <1>9. CASE Redis
    <2>1. faults' \in 0..MaxFaults BY <1>9, <1>t, SizesAssumption DEF Redis, TypeOK
    <2>q. QED BY <1>9, <1>t, <2>1 DEF Redis, TypeOK
  <1>10. CASE Tick
    <2>1. Weeks * Minutes \in Nat BY SizesAssumption
    <2>2. now' \in 0..Weeks * Minutes - 1 BY <1>10, <1>t, <2>1 DEF Tick, TypeOK
    <2>q. QED BY <1>10, <1>t, <2>2 DEF Tick, TypeOK
  <1>11. CASE UNCHANGED vars BY <1>11, <1>t DEF vars, TypeOK
  <1>q. QED BY <1>1, <1>2, <1>3, <1>4, <1>5, <1>6, <1>7, <1>8, <1>9, <1>10, <1>11 DEF Next

\* One test a week: a scheduler wins a week only by setting its key, or unasked.
LEMMA GuardsNext == Inv /\ [Next]_vars => KeyGuards' /\ OncePerWeek'
  <1> SUFFICES ASSUME Inv, [Next]_vars PROVE KeyGuards' /\ OncePerWeek' OBVIOUS
  <1> USE DEF timeVars, procVars, histVars
  <1>t. TypeOK /\ KeyGuards /\ OncePerWeek /\ Schedulers \subseteq Procs BY DEF Inv, Procs
  <1>1. ASSUME NEW p \in Procs, Poll(p) PROVE KeyGuards' /\ OncePerWeek'
    <2>1. ASSUME NEW q \in Procs, NEW k \in AllWeeks, (Won(q, k))' PROVE Won(q, k)
      BY <1>1, <1>t, <2>1 DEF Poll, Go, TypeOK, Won
    <2>2. blind' = blind /\ keys' = keys /\ auto' = auto BY <1>1 DEF Poll
    <2>q. QED BY <1>t, <2>1, <2>2 DEF KeyGuards, OncePerWeek
  <1>2. ASSUME NEW p \in Procs, Acquire(p) PROVE KeyGuards' /\ OncePerWeek'
    <2>1. OncePerWeek' BY <1>2, <1>t DEF Acquire, OncePerWeek
    <2>2. ASSUME NEW k \in AllWeeks \ blind' PROVE k \in AllWeeks \ blind
      BY <1>2, <2>2 DEF Acquire
    <2>3. ASSUME NEW k \in AllWeeks \ blind', NEW q \in Schedulers, (Won(q, k))'
          PROVE  k \in keys' /\ auto'[k] = 0
      <3>1. CASE q # p BY <1>2, <1>t, <2>2, <2>3, <3>1 DEF Acquire, Go, TypeOK, KeyGuards, Won
      <3>2. CASE q = p /\ redis /\ plan[p] \notin keys
        BY <1>2, <1>t, <2>2, <2>3, <3>2 DEF Acquire, Go, TypeOK, KeyGuards, Won
      <3>3. CASE q = p /\ ~redis BY <1>2, <1>t, <2>3, <3>3 DEF Acquire, Won
      <3>4. CASE q = p /\ redis /\ plan[p] \in keys
        BY <1>2, <1>t, <2>3, <3>4 DEF Acquire, Go, TypeOK, Won, Procs
      <3>q. QED BY <3>1, <3>2, <3>3, <3>4
    <2>4. ASSUME NEW k \in AllWeeks \ blind', NEW q \in Schedulers, NEW r \in Schedulers,
                 (Won(q, k))', (Won(r, k))', q # r
          PROVE  FALSE
      <3>1. ASSUME NEW s \in Schedulers, (Won(s, k))', s # p PROVE Won(s, k) /\ k \in keys
        BY <1>2, <1>t, <2>2, <3>1 DEF Acquire, Go, TypeOK, KeyGuards, Won
      <3>2. ASSUME (Won(p, k))' PROVE k \notin keys
        BY <1>2, <1>t, <2>4, <3>2 DEF Acquire, Go, TypeOK, Won
      <3>3. q # p /\ r # p BY <2>4, <3>1, <3>2
      <3>q. QED BY <1>t, <2>2, <2>4, <3>1, <3>3 DEF KeyGuards
    <2>5. \A k \in AllWeeks \ blind' : auto'[k] # 0 => k \in keys'
      BY <1>2, <1>t DEF Acquire, KeyGuards
    <2>q. QED BY <2>1, <2>3, <2>4, <2>5 DEF KeyGuards
  <1>3. ASSUME NEW p \in Procs, Press(p) PROVE KeyGuards' /\ OncePerWeek'
    BY <1>3, <1>t, SizesAssumption DEF Press, Go, TypeOK, KeyGuards, Won, OncePerWeek
  <1>4. ASSUME NEW p \in Procs, Send(p) PROVE KeyGuards' /\ OncePerWeek'
    <2>0. blind' = blind /\ keys' = keys /\ plan' = plan BY <1>4 DEF Send
    <2>1. ASSUME NEW q \in Procs, NEW k \in AllWeeks, (Won(q, k))' PROVE q # p /\ Won(q, k)
      BY <1>4, <1>t, <2>1 DEF Send, Go, TypeOK, Won
    <2>2. ASSUME NEW k \in AllWeeks \ blind
          PROVE  auto'[k] = auto[k] \/ (p \in Schedulers /\ Won(p, k) /\ auto'[k] = auto[k] + 1)
      BY <1>4, <1>t DEF Send, TypeOK, Won
    <2>3. ASSUME NEW k \in AllWeeks \ blind
          PROVE  /\ auto'[k] <= 1 /\ (auto'[k] # 0 => k \in keys)
                 /\ \A q \in Schedulers : (Won(q, k))' => k \in keys /\ auto'[k] = 0
      <3>1. \A q \in Schedulers : q \in Procs BY DEF Procs
      <3>q. QED BY <1>t, <2>1, <2>2, <3>1 DEF KeyGuards, OncePerWeek
    <2>4. ASSUME NEW k \in AllWeeks \ blind, NEW q \in Schedulers, NEW r \in Schedulers,
                 (Won(q, k))', (Won(r, k))'
          PROVE  q = r
      BY <1>t, <2>1, <2>4 DEF KeyGuards, Procs
    <2>q. QED BY <2>0, <2>3, <2>4 DEF KeyGuards, OncePerWeek
  <1>5. ASSUME NEW p \in Procs, Fail(p) \/ Crash(p) PROVE KeyGuards' /\ OncePerWeek'
    <2>1. ASSUME NEW q \in Procs, NEW k \in AllWeeks, (Won(q, k))' PROVE Won(q, k)
      BY <1>5, <1>t, <2>1 DEF Fail, Crash, Go, TypeOK, Won
    <2>2. blind' = blind /\ keys' = keys /\ auto' = auto BY <1>5 DEF Fail, Crash
    <2>q. QED BY <1>t, <2>1, <2>2 DEF KeyGuards, OncePerWeek, Procs
  <1>6. ASSUME NEW p \in Procs, Finish(p) \/ Restart(p) PROVE KeyGuards' /\ OncePerWeek'
    BY <1>6, <1>t DEF Finish, Restart, KeyGuards, Won, OncePerWeek
  <1>7. CASE Redis \/ Tick \/ UNCHANGED vars
    BY <1>7, <1>t DEF Redis, Tick, vars, KeyGuards, Won, OncePerWeek
  <1>q. QED BY <1>1, <1>2, <1>3, <1>4, <1>5, <1>6, <1>7 DEF Next

\* A scheduler on its way to the lock is there within the minute of its poll.
LEMMA DueNext == Inv /\ [Next]_vars => DueIsNow' /\ PolledRuns'
  <1> SUFFICES ASSUME Inv, [Next]_vars PROVE DueIsNow' /\ PolledRuns' OBVIOUS
  <1> USE DEF timeVars, procVars, histVars
  <1>t. TypeOK /\ DueIsNow /\ PolledRuns /\ Procs = Schedulers \cup Buttons BY DEF Inv, Procs
  <1>1. ASSUME NEW p \in Procs, Poll(p) PROVE DueIsNow' /\ PolledRuns'
    BY <1>1, <1>t DEF Poll, Go, TypeOK, DueIsNow, PolledRuns, Week
  <1>2. ASSUME NEW p \in Procs, Acquire(p) \/ Press(p) \/ Send(p) \/ Fail(p)
        PROVE  DueIsNow' /\ PolledRuns'
    <2>1. ASSUME NEW q \in Procs, at'[q] = "due" PROVE at[q] = "due" /\ plan'[q] = plan[q]
      BY <1>2, <1>t, <2>1 DEF Acquire, Press, Send, Fail, Go, TypeOK
    <2>2. now' = now /\ polled' = polled /\ up' = up BY <1>2 DEF Acquire, Press, Send, Fail
    <2>q. QED BY <1>t, <2>1, <2>2 DEF DueIsNow, PolledRuns, Week
  <1>3. ASSUME NEW p \in Procs, Crash(p) PROVE DueIsNow' /\ PolledRuns'
    BY <1>3, <1>t DEF Crash, Go, TypeOK, DueIsNow, PolledRuns, Week
  <1>4. ASSUME NEW p \in Procs, Finish(p) \/ Restart(p) PROVE DueIsNow' /\ PolledRuns'
    BY <1>4, <1>t DEF Finish, Restart, DueIsNow, PolledRuns, Week
  <1>5. CASE Tick
    <2>1. ASSUME NEW p \in Procs, at'[p] = "due" PROVE FALSE
      <3>1. p \in up \cap Schedulers /\ at[p] = "due" BY <1>5, <1>t, <2>1 DEF Tick, DueIsNow
      <3>q. QED BY <1>5, <3>1 DEF Tick
    <2>q. QED BY <1>5, <2>1 DEF Tick, DueIsNow, PolledRuns
  <1>6. CASE Redis \/ UNCHANGED vars
    BY <1>6, <1>t DEF Redis, vars, DueIsNow, PolledRuns, Week
  <1>q. QED BY <1>1, <1>2, <1>3, <1>4, <1>5, <1>6 DEF Next

\* A key is set by a scheduler that has won the week; a success is recorded with a test.
LEMMA KeyTriedNext == Inv /\ [Next]_vars => KeyTried' /\ RanSent'
  <1> SUFFICES ASSUME Inv, [Next]_vars PROVE KeyTried' /\ RanSent' OBVIOUS
  <1> USE DEF timeVars, procVars, histVars
  <1>t. TypeOK /\ KeyTried /\ RanSent BY DEF Inv
  <1>1. \A k \in keys : Tried(k)' BY <1>t, TriedStays DEF TypeOK, KeyTried
  <1>2. ASSUME NEW p \in Procs, Acquire(p) PROVE KeyTried' /\ RanSent'
    <2>1. ASSUME redis, plan[p] \notin keys PROVE Tried(plan[p])'
      BY <1>2, <1>t, <2>1 DEF Acquire, Go, TypeOK, Tried
    <2>2. keys' \subseteq keys \/ (redis /\ keys' = keys \cup {plan[p]}) BY <1>2 DEF Acquire
    <2>3. plan' = plan /\ last' = last /\ sent' = sent BY <1>2 DEF Acquire
    <2>4. KeyTried' BY <1>1, <2>1, <2>2, <2>3 DEF KeyTried
    <2>q. QED BY <1>t, <2>3, <2>4 DEF RanSent
  <1>3. ASSUME NEW p \in Procs, Send(p) PROVE KeyTried' /\ RanSent'
    BY <1>1, <1>3 DEF Send, KeyTried, RanSent
  <1>4. ASSUME NEW p \in Procs, Fail(p) PROVE KeyTried' /\ RanSent'
    <2>1. last' = last \/ last'.ok = FALSE BY <1>4 DEF Fail
    <2>q. QED BY <1>1, <1>4, <1>t, <2>1 DEF Fail, KeyTried, RanSent
  <1>5. ASSUME NEW p \in Procs, Poll(p) \/ Press(p) \/ Finish(p) \/ Crash(p) \/ Restart(p)
        PROVE  KeyTried' /\ RanSent'
    BY <1>1, <1>5, <1>t DEF Poll, Press, Finish, Crash, Restart, KeyTried, RanSent
  <1>6. CASE Redis \/ Tick \/ UNCHANGED vars
    BY <1>1, <1>6, <1>t DEF Redis, Tick, vars, KeyTried, RanSent
  <1>q. QED BY <1>2, <1>3, <1>4, <1>5, <1>6 DEF Next

\* Whoever polled in a window sees to the week, and so the minute leaves no chance untried.
LEMMA SeesNext == Inv /\ [Next]_vars => PolledSees' /\ ChanceTried'
  <1> SUFFICES ASSUME Inv, [Next]_vars PROVE PolledSees' /\ ChanceTried' OBVIOUS
  <1> USE DEF timeVars, procVars, histVars
  <1>t. /\ TypeOK /\ Week \in AllWeeks /\ Procs = Schedulers \cup Buttons
        /\ KeyTried /\ RanSent /\ PolledSees /\ PolledRuns /\ DueIsNow
    BY WeekType DEF Inv, TypeOK, Procs
  <1>1. \A k \in chance : Tried(k)' BY <1>t, TriedStays DEF Inv, TypeOK, ChanceTried
  <1>2. Tried(Week) => \A k \in AllWeeks : k = Week => Tried(k)' BY TriedStays
  \* Within a minute, what a poll found stays true.
  <1>3. ASSUME now' = now, slot' = slot, chance' = chance,
               InWindow => \A p \in polled' : at'[p] = "due" \/ Tried(Week)
                                              \/ \A k \in AllWeeks : k = Week => Tried(k)'
        PROVE  PolledSees' /\ ChanceTried'
    <2>1. Week' = Week /\ InWindow' = InWindow BY <1>3 DEF Week, InWindow, Minute
    <2>2. ChanceTried' BY <1>1, <1>3 DEF ChanceTried
    <2>3. ASSUME \A k \in AllWeeks : k = Week => Tried(k)' PROVE Tried(Week)'
      <3>1. PICK k \in AllWeeks : k = Week BY <1>t
      <3>2. Tried(k)' BY <2>3, <3>1
      <3>q. QED BY <3>1, <3>2, <2>1 DEF Tried
    <2>q. QED BY <1>2, <1>3, <2>1, <2>2, <2>3 DEF PolledSees
  <1>4. ASSUME NEW p \in Procs, Poll(p) PROVE PolledSees' /\ ChanceTried'
    <2>1. now' = now /\ slot' = slot /\ chance' = chance /\ polled' = polled \cup {p}
      BY <1>4 DEF Poll
    <2>2. ASSUME InWindow, NEW q \in polled' PROVE at'[q] = "due" \/ Tried(Week)
      <3>1. CASE q # p BY <1>4, <1>t, <2>1, <2>2, <3>1 DEF Poll, Go, TypeOK, PolledSees, Procs
      <3>2. CASE q = p /\ Due BY <1>4, <1>t, <3>2 DEF Poll, Go, TypeOK
      <3>3. CASE Ran BY <1>t, <3>3 DEF Ran, RanSent, Tried
      <3>q. QED BY <2>2, <3>1, <3>2, <3>3 DEF Due
    <2>q. QED BY <2>1, <2>2, <1>3
  <1>5. ASSUME NEW p \in Procs, Acquire(p) PROVE PolledSees' /\ ChanceTried'
    <2>1. now' = now /\ slot' = slot /\ chance' = chance /\ polled' = polled
      BY <1>5 DEF Acquire
    <2>2. plan[p] = Week BY <1>5, <1>t DEF Acquire, DueIsNow
    <2>3. \A k \in AllWeeks : k = Week => Tried(k)'
      <3>1. CASE redis /\ plan[p] \in keys BY <1>t, <1>2, <2>2, <3>1 DEF KeyTried
      <3>2. CASE ~(redis /\ plan[p] \in keys)
        BY <1>5, <1>t, <2>2, <3>2 DEF Acquire, Go, TypeOK, Tried
      <3>q. QED BY <3>1, <3>2
    <2>q. QED BY <2>1, <2>3, <1>3
  <1>6. ASSUME NEW p \in Procs, Press(p) \/ Send(p) \/ Fail(p) \/ Finish(p) \/ Crash(p) \/ Restart(p)
        PROVE  PolledSees' /\ ChanceTried'
    <2>1. now' = now /\ slot' = slot /\ chance' = chance /\ polled' \subseteq polled
      BY <1>6 DEF Press, Send, Fail, Finish, Crash, Restart
    <2>2. ASSUME NEW q \in polled', at[q] = "due" PROVE at'[q] = "due"
      BY <1>6, <1>t, <2>2 DEF Press, Send, Fail, Finish, Crash, Restart, Go, TypeOK, Procs
    <2>3. InWindow => \A q \in polled' : at'[q] = "due" \/ Tried(Week)
      BY <1>t, <2>1, <2>2 DEF PolledSees
    <2>q. QED BY <2>1, <2>3, <1>3
  <1>7. CASE Redis \/ UNCHANGED vars
    <2>1. /\ now' = now /\ slot' = slot /\ chance' = chance /\ polled' = polled /\ at' = at
      BY <1>7 DEF Redis, vars
    <2>q. QED BY <1>t, <2>1, <1>3 DEF PolledSees
  <1>8. CASE Tick
    <2>1. polled' = {} BY <1>8 DEF Tick
    <2>2. ASSUME polled # {}, InWindow PROVE Tried(Week)
      <3>1. PICK p \in polled : TRUE BY <2>2
      <3>2. p \in up \cap Schedulers BY <1>t DEF TypeOK, PolledRuns
      <3>3. at[p] # "due" BY <1>8, <3>2 DEF Tick
      <3>q. QED BY <1>t, <2>2, <3>3 DEF PolledSees
    <2>3. ASSUME NEW k \in chance' PROVE Tried(k)'
      <3>1. k \in chance \/ (polled # {} /\ InWindow /\ k = Week) BY <1>8, <2>3 DEF Tick
      <3>q. QED BY <3>1, <1>1, <1>2, <1>t, <2>2
    <2>q. QED BY <2>1, <2>3 DEF PolledSees, ChanceTried
  <1>q. QED BY <1>4, <1>5, <1>6, <1>7, <1>8 DEF Next

LEMMA Invariance == Spec => []Inv
  <1>1. Inv /\ [Next]_vars => Inv'
    BY TypeNext, GuardsNext, DueNext, KeyTriedNext, SeesNext DEF Inv
  <1>q. QED BY InitInv, <1>1, PTL DEF Spec

\* The minute stays in its weeks, locks and history name weeks only, and no process
\* leaves its places.
THEOREM TypeCorrect == Spec => []TypeOK
  <1>1. Inv => TypeOK BY DEF Inv
  <1>q. QED BY <1>1, Invariance, PTL

\* The schedulers send one test a week at most (_check_and_send_rwt), whatever their
\* number, restarts and failures, if each of them could ask Redis.
THEOREM OneTestAWeek == Spec => []OncePerWeek
  <1>1. Inv => OncePerWeek BY DEF Inv
  <1>q. QED BY <1>1, Invariance, PTL

\* A week with a poll in a window, at the slot or after it, does not end without a try.
THEOREM DueIsTried == Spec => []SentIfDue
  <1>1. Inv => SentIfDue BY DEF Inv, ChanceTried, SentIfDue
  <1>q. QED BY <1>1, Invariance, PTL
=============================================================================
