-------------------------- MODULE AudioSource_proofs --------------------------
(***************************************************************************)
(* Proofs about AudioSource, for any number of requests, faults and loops. *)
(* What a thread has left to do is a list of steps in which stop comes     *)
(* before halt, start before open and spawn; the state of an adapter that  *)
(* only one thread handles follows from the step that thread is at.        *)
(***************************************************************************)
EXTENDS AudioSource, SequenceTheorems, FiniteSetTheorems, TLAPS

-----------------------------------------------------------------------------
(* The inductive invariant.                                                *)

StepNames == {"stop", "halt", "start", "calm", "open", "spawn", "judge", "restart", "escalate", "register"}
Commands == {"start", "stop", "add", "delete"}

Tasks == [of : Adapters \cup {None}, todo : Seq(StepNames), ok : BOOLEAN]

\* The types TypeOK leaves open.
Typed ==
    /\ inbox \in Seq(Commands)
    /\ at \in [Procs -> Tasks]
    /\ seen # None => seen.of \in 1..made
                      /\ \E steps \in {<<"restart">>, StopSteps \o <<"escalate">>} : seen.todo = steps
    /\ reg # None => reg <= made
    /\ \A a \in Adapters : inside[a] \subseteq alive[a]

\* The order of the steps.
Orderly(s) ==
    \A i \in 1..Len(s) :
        /\ s[i] = "stop" => i < Len(s) /\ s[i + 1] = "halt"
        /\ s[i] = "start" => i + 1 < Len(s) /\ s[i + 1] = "open" /\ s[i + 2] = "spawn"
        /\ s[i] = "open" => i < Len(s) /\ s[i + 1] = "spawn"
        /\ s[i] = "register" => i = Len(s)
        /\ i > 1 => /\ s[i] = "halt" => s[i - 1] = "stop"
                    /\ s[i] = "calm" => s[i - 1] = "halt"
                    /\ s[i] = "open" => s[i - 1] = "start"
                    /\ s[i] = "spawn" => s[i - 1] = "open"

Has(s, step) == \E i \in 1..Len(s) : s[i] = step
Leaving(s) == \A i \in 1..Len(s) : s[i] \in {"stop", "halt", "register", "escalate"}

\* Only the command thread registers, an adapter that is new, while there is none.
Threads ==
    \A p \in Procs :
        /\ Orderly(at[p].todo)
        /\ Has(at[p].todo, "register") => p = "command" /\ reg = None
        /\ at[p].of # None => at[p].of <= made \/ (p = "command" /\ at[p].todo = <<"register">>)

\* Every adapter is made on a request of its own.
Adds(s) == {i \in 1..Len(s) : s[i] = "add"}
Registering == IF Has(at["command"].todo, "register") THEN 1 ELSE 0
Requested == made + Cardinality(Adds(inbox)) + Registering <= asked + 1

Quiet(a) == alive[a] = {} /\ ~cap[a]
Handled(a, step) == \E p \in Procs : at[p].of = a /\ Doing(p, step)

\* Out of the registry, and no restart of it was taken up since.
Removed(a) == a # reg /\ a \notin revived

\* An adapter handled by one thread at a time: its state at each of the steps.
Governed(a) ==
    /\ \A p, q \in Procs : at[p].of = a /\ at[q].of = a => p = q
    /\ \A n \in alive[a] : thread[a] = n
    /\ status[a] = "stopped" => Quiet(a) \/ Handled(a, "halt")
    /\ Handled(a, "calm") \/ Handled(a, "open") => Quiet(a)
    /\ Handled(a, "spawn") => alive[a] = {} /\ status[a] # "stopped"
    /\ Removed(a) => /\ \A p \in Procs : at[p].of = a => Leaving(at[p].todo)
                     /\ Quiet(a) \/ Handled(a, "stop") \/ Handled(a, "halt")

StrictGoverned == \A a \in Adapters : Strict(a) => Governed(a)

Inv == TypeOK /\ Typed /\ Threads /\ Requested /\ StrictGoverned

-----------------------------------------------------------------------------
(* Lists of steps.                                                         *)

\* What is left of a list after its first n steps.
Rest(s, n) == SubSeq(s, n + 1, Len(s))

LEMMA RestIs ==
    ASSUME NEW S, NEW s \in Seq(S), NEW n \in Nat, n <= Len(s)
    PROVE  /\ Rest(s, n) \in Seq(S)
           /\ Len(Rest(s, n)) = Len(s) - n
           /\ \A i \in 1..Len(s) - n : Rest(s, n)[i] = s[i + n]
  BY DEF Rest

LEMMA RestOrderly ==
    ASSUME NEW s \in Seq(StepNames), Orderly(s), NEW n \in Nat, n <= Len(s)
    PROVE  /\ Orderly(Rest(s, n))
           /\ \A h : Has(Rest(s, n), h) => Has(s, h)
           /\ Leaving(s) => Leaving(Rest(s, n))
  <1> DEFINE t == Rest(s, n)
  <1>1. Len(s) \in Nat /\ Len(t) = Len(s) - n /\ \A i \in 1..Len(t) : t[i] = s[i + n] /\ i + n \in 1..Len(s)
    BY RestIs
  <1> HIDE DEF t
  <1>2. ASSUME NEW i \in 1..Len(t)
        PROVE  /\ t[i] = "stop" => i < Len(t) /\ t[i + 1] = "halt"
               /\ t[i] = "start" => i + 1 < Len(t) /\ t[i + 1] = "open" /\ t[i + 2] = "spawn"
               /\ t[i] = "open" => i < Len(t) /\ t[i + 1] = "spawn"
               /\ t[i] = "register" => i = Len(t)
    <2> DEFINE j == i + n
    <2>1. j \in 1..Len(s) /\ t[i] = s[j] BY <1>1
    <2>2. i < Len(t) => t[i + 1] = s[j + 1] BY <1>1
    <2>3. i + 1 < Len(t) => t[i + 2] = s[j + 2] BY <1>1
    <2>4. (j < Len(s) <=> i < Len(t)) /\ (j + 1 < Len(s) <=> i + 1 < Len(t)) /\ (j = Len(s) <=> i = Len(t))
      BY <1>1
    <2> HIDE DEF j
    <2>q. QED BY <2>1, <2>2, <2>3, <2>4 DEF Orderly
  <1>3. ASSUME NEW i \in 1..Len(t), i > 1
        PROVE  /\ t[i] = "halt" => t[i - 1] = "stop"
               /\ t[i] = "calm" => t[i - 1] = "halt"
               /\ t[i] = "open" => t[i - 1] = "start"
               /\ t[i] = "spawn" => t[i - 1] = "open"
    <2> DEFINE j == i + n
    <2>1. j \in 1..Len(s) /\ t[i] = s[j] /\ t[i - 1] = s[j - 1] /\ j > 1 BY <1>1, <1>3
    <2> HIDE DEF j
    <2>q. QED BY <2>1 DEF Orderly
  <1>4. Orderly(t) BY <1>2, <1>3 DEF Orderly
  <1>5. \A h : Has(t, h) => Has(s, h) BY <1>1 DEF Has
  <1>6. Leaving(s) => Leaving(t) BY <1>1 DEF Leaving
  <1>q. QED BY <1>4, <1>5, <1>6 DEF t

LEMMA JoinOrderly ==
    ASSUME NEW s \in Seq(StepNames), Orderly(s), ~Has(s, "register"), s # <<>>,
           NEW t \in Seq(StepNames), Orderly(t), t # <<>>,
           Head(t) \notin {"halt", "calm", "open", "spawn"}
    PROVE  /\ s \o t \in Seq(StepNames) /\ s \o t # <<>> /\ Orderly(s \o t)
           /\ Head(s \o t) = Head(s)
           /\ Has(s \o t, "register") => Has(t, "register")
           /\ Leaving(s) /\ Leaving(t) => Leaving(s \o t)
  <1> DEFINE u == s \o t
             m == Len(s)
  <1>1. /\ u \in Seq(StepNames) /\ m \in Nat /\ Len(t) \in Nat /\ Len(u) = m + Len(t)
        /\ m > 0 /\ Len(t) > 0
        /\ \A i \in 1..m : u[i] = s[i]
        /\ \A i \in m + 1..Len(u) : u[i] = t[i - m] /\ i - m \in 1..Len(t)
    OBVIOUS
  <1>2. Head(s) = s[1] /\ Head(t) = t[1] /\ Head(u) = u[1] /\ u # <<>> BY <1>1
  <1> HIDE DEF u, m
  <1>3. ASSUME NEW i \in 1..m
        PROVE  /\ u[i] = "stop" => i < Len(u) /\ u[i + 1] = "halt"
               /\ u[i] = "start" => i + 1 < Len(u) /\ u[i + 1] = "open" /\ u[i + 2] = "spawn"
               /\ u[i] = "open" => i < Len(u) /\ u[i + 1] = "spawn"
               /\ u[i] = "register" => i = Len(u)
               /\ i > 1 => /\ u[i] = "halt" => u[i - 1] = "stop"
                           /\ u[i] = "calm" => u[i - 1] = "halt"
                           /\ u[i] = "open" => u[i - 1] = "start"
                           /\ u[i] = "spawn" => u[i - 1] = "open"
    <2>1. u[i] = s[i] /\ i \in 1..Len(s) BY <1>1 DEF m
    <2>2. i > 1 => u[i - 1] = s[i - 1] BY <1>1
    <2>3. i < Len(s) => i < Len(u) /\ u[i + 1] = s[i + 1] BY <1>1 DEF m
    <2>4. i + 1 < Len(s) => i + 1 < Len(u) /\ u[i + 2] = s[i + 2]
      <3>1. i + 1 < Len(s) => i + 2 \in 1..m /\ i + 1 < Len(u) BY <1>1 DEF m
      <3>q. QED BY <1>1, <3>1
    <2>5. s[i] # "register" BY <2>1 DEF Has
    <2>q. QED BY <2>1, <2>2, <2>3, <2>4, <2>5 DEF Orderly
  <1>4. ASSUME NEW i \in m + 1..Len(u)
        PROVE  /\ u[i] = "stop" => i < Len(u) /\ u[i + 1] = "halt"
               /\ u[i] = "start" => i + 1 < Len(u) /\ u[i + 1] = "open" /\ u[i + 2] = "spawn"
               /\ u[i] = "open" => i < Len(u) /\ u[i + 1] = "spawn"
               /\ u[i] = "register" => i = Len(u)
               /\ u[i] = "halt" => u[i - 1] = "stop"
               /\ u[i] = "calm" => u[i - 1] = "halt"
               /\ u[i] = "open" => u[i - 1] = "start"
               /\ u[i] = "spawn" => u[i - 1] = "open"
    <2>1. PICK j \in 1..Len(t) : j = i - m BY <1>1
    <2>2. u[i] = t[j] /\ (j = Len(t) <=> i = Len(u)) BY <1>1, <2>1
    <2>3. j < Len(t) => i < Len(u) /\ u[i + 1] = t[j + 1] BY <1>1, <2>1
    <2>4. j + 1 < Len(t) => i + 1 < Len(u) /\ u[i + 2] = t[j + 2] BY <1>1, <2>1
    <2>5. j > 1 => u[i - 1] = t[j - 1] BY <1>1, <2>1
    <2>a. /\ t[j] = "stop" => j < Len(t) /\ t[j + 1] = "halt"
          /\ t[j] = "start" => j + 1 < Len(t) /\ t[j + 1] = "open" /\ t[j + 2] = "spawn"
          /\ t[j] = "open" => j < Len(t) /\ t[j + 1] = "spawn"
          /\ t[j] = "register" => j = Len(t)
      BY DEF Orderly
    <2>6. CASE j = 1
      <3>1. u[i] \notin {"halt", "calm", "open", "spawn"} BY <1>2, <2>2, <2>6
      <3>q. QED BY <2>a, <2>2, <2>3, <2>4, <3>1
    <2>7. CASE j > 1
      <3>1. /\ t[j] = "halt" => t[j - 1] = "stop"
            /\ t[j] = "calm" => t[j - 1] = "halt"
            /\ t[j] = "open" => t[j - 1] = "start"
            /\ t[j] = "spawn" => t[j - 1] = "open"
        BY <2>7 DEF Orderly
      <3>q. QED BY <2>a, <2>2, <2>3, <2>4, <2>5, <2>7, <3>1
    <2>q. QED BY <2>1, <2>6, <2>7
  <1>5. \A i \in 1..Len(u) : i \in 1..m \/ i \in m + 1..Len(u) BY <1>1
  <1>6. Orderly(u) BY <1>3, <1>4, <1>5 DEF Orderly
  <1>7. Has(u, "register") => Has(t, "register") BY <1>1, <1>5 DEF Has, m
  <1>8. Leaving(s) /\ Leaving(t) => Leaving(u) BY <1>1, <1>5 DEF Leaving, m
  <1>9. 1 \in 1..m BY <1>1
  <1>q. QED BY <1>1, <1>2, <1>6, <1>7, <1>8, <1>9 DEF u

\* A list that stands at its beginning, with nothing to register.
Begun(s) ==
    /\ s \in Seq(StepNames) /\ s # <<>> /\ Orderly(s)
    /\ Head(s) \notin {"calm", "open", "spawn"}
NoRegister(s) == ~Has(s, "register")

LEMMA JoinBegun ==
    ASSUME NEW s, Begun(s), NoRegister(s), NEW t, Begun(t), Head(t) # "halt"
    PROVE  /\ Begun(s \o t) /\ Head(s \o t) = Head(s)
           /\ NoRegister(t) => NoRegister(s \o t)
           /\ Leaving(s) /\ Leaving(t) => Leaving(s \o t)
  BY JoinOrderly DEF Begun, NoRegister

LEMMA Beginnings ==
    /\ Begun(StartSteps) /\ Head(StartSteps) = "start" /\ NoRegister(StartSteps)
    /\ Begun(StopSteps) /\ Head(StopSteps) = "stop" /\ NoRegister(StopSteps) /\ Leaving(StopSteps)
    /\ Begun(<<"register">>) /\ Head(<<"register">>) = "register" /\ Leaving(<<"register">>)
    /\ Begun(<<"restart">>) /\ Head(<<"restart">>) = "restart" /\ NoRegister(<<"restart">>)
    /\ Begun(<<"halt", "calm">>) /\ Head(<<"halt", "calm">>) = "halt" /\ NoRegister(<<"halt", "calm">>)
    /\ Begun(<<"judge">>) /\ Head(<<"judge">>) = "judge" /\ NoRegister(<<"judge">>)
    /\ Begun(<<"escalate">>) /\ Head(<<"escalate">>) = "escalate" /\ NoRegister(<<"escalate">>)
    /\ Leaving(<<"escalate">>)
  BY DEF StartSteps, StopSteps, StepNames, Begun, NoRegister, Orderly, Leaving, Has

LEMMA Longer ==
    /\ Begun(StopSteps \o <<"register">>) /\ Head(StopSteps \o <<"register">>) = "stop"
    /\ Leaving(StopSteps \o <<"register">>)
    /\ Begun(StopSteps \o <<"escalate">>) /\ Head(StopSteps \o <<"escalate">>) = "stop"
    /\ NoRegister(StopSteps \o <<"escalate">>) /\ Leaving(StopSteps \o <<"escalate">>)
    /\ Begun(StopSteps \o StartSteps) /\ Head(StopSteps \o StartSteps) = "stop"
    /\ NoRegister(StopSteps \o StartSteps)
    /\ Begun(Renew \o Renew) /\ Head(Renew \o Renew) = "stop" /\ NoRegister(Renew \o Renew)
  <1>1. Begun(StopSteps \o <<"register">>) /\ Head(StopSteps \o <<"register">>) = "stop"
        /\ Leaving(StopSteps \o <<"register">>)
    BY Beginnings, JoinBegun
  <1>2. Begun(StopSteps \o <<"escalate">>) /\ Head(StopSteps \o <<"escalate">>) = "stop"
        /\ NoRegister(StopSteps \o <<"escalate">>) /\ Leaving(StopSteps \o <<"escalate">>)
    BY Beginnings, JoinBegun
  <1>3. Begun(StopSteps \o StartSteps) /\ Head(StopSteps \o StartSteps) = "stop"
        /\ NoRegister(StopSteps \o StartSteps)
    BY Beginnings, JoinBegun
  <1>4. Begun(Renew) /\ Head(Renew) = "stop" /\ NoRegister(Renew)
    BY <1>3, Beginnings, JoinBegun DEF Renew
  <1>5. Begun(Renew \o Renew) /\ Head(Renew \o Renew) = "stop" /\ NoRegister(Renew \o Renew)
    BY <1>4, JoinBegun
  <1>q. QED BY <1>1, <1>2, <1>3, <1>5

\* How a list goes on after a step of that name.
Follows(t, step) ==
    t # <<>> => /\ Head(t) = "halt" => step = "stop"
                /\ Head(t) = "calm" => step = "halt"
                /\ Head(t) = "open" => step = "start"
                /\ Head(t) = "spawn" => step = "open"

LEMMA RestFollows ==
    ASSUME NEW s \in Seq(StepNames), Orderly(s), NEW n \in Nat \ {0}, n <= Len(s)
    PROVE  Follows(Rest(s, n), s[n])
  <1> DEFINE t == Rest(s, n)
  <1> SUFFICES ASSUME t # <<>> PROVE Follows(t, s[n]) BY DEF Follows
  <1>1. t \in Seq(StepNames) /\ Len(t) = Len(s) - n /\ \A i \in 1..Len(s) - n : t[i] = s[i + n]
    BY RestIs
  <1>2. 1 <= Len(t) /\ Head(t) = t[1] BY <1>1
  <1>3. Head(t) = s[n + 1] /\ n + 1 \in 1..Len(s) /\ n + 1 > 1 /\ (n + 1) - 1 = n BY <1>1, <1>2
  <1>q. QED BY <1>3 DEF Follows, Orderly

-----------------------------------------------------------------------------
(* Requests to add.                                                        *)

LEMMA AddsFinite ==
    ASSUME NEW s \in Seq(Commands)
    PROVE  IsFiniteSet(Adds(s)) /\ Cardinality(Adds(s)) \in Nat
  <1>1. IsFiniteSet(1..Len(s)) BY FS_Interval
  <1>2. Adds(s) \in SUBSET (1..Len(s)) BY DEF Adds
  <1>q. QED BY <1>1, <1>2, FS_Subset, FS_CardinalityType

LEMMA AddsTail ==
    ASSUME NEW s \in Seq(Commands), s # <<>>
    PROVE  Cardinality(Adds(Tail(s))) + (IF Head(s) = "add" THEN 1 ELSE 0) <= Cardinality(Adds(s))
  <1> DEFINE T == Adds(Tail(s))
             U == Adds(s) \ {1}
             f == [i \in T |-> i + 1]
  <1>1. Tail(s) \in Seq(Commands) /\ Len(Tail(s)) = Len(s) - 1 /\ Len(s) \in Nat
        /\ (\A i \in 1..Len(s) - 1 : Tail(s)[i] = s[i + 1]) /\ Head(s) = s[1] /\ Len(s) >= 1
    OBVIOUS
  <1>2. \A i \in T : i \in Nat /\ i >= 1 /\ i + 1 \in U BY <1>1 DEF Adds
  <1>3. f \in Injection(T, U) BY <1>2 DEF Injection, IsInjective
  <1>4. IsFiniteSet(U) /\ Cardinality(U) = IF 1 \in Adds(s) THEN Cardinality(Adds(s)) - 1 ELSE Cardinality(Adds(s))
    BY AddsFinite, FS_RemoveElement
  <1> HIDE DEF f, U
  <1>5. Cardinality(T) <= Cardinality(U) BY <1>3, <1>4, FS_Injection
  <1>6. 1 \in Adds(s) <=> Head(s) = "add" BY <1>1 DEF Adds
  <1>7. Cardinality(T) \in Nat /\ Cardinality(Adds(s)) \in Nat BY <1>1, AddsFinite
  <1>q. QED BY <1>4, <1>5, <1>6, <1>7

LEMMA AddsAppend ==
    ASSUME NEW s \in Seq(Commands), NEW c \in Seq(Commands), \A i \in 2..Len(c) : c[i] # "add"
    PROVE  s \o c \in Seq(Commands) /\ Cardinality(Adds(s \o c)) <= Cardinality(Adds(s)) + 1
  <1> DEFINE u == s \o c
             m == Len(s)
             B == Adds(s) \cup {m + 1}
  <1>1. /\ u \in Seq(Commands) /\ m \in Nat /\ Len(c) \in Nat /\ Len(u) = m + Len(c)
        /\ \A i \in 1..m : u[i] = s[i]
        /\ \A i \in m + 1..Len(u) : u[i] = c[i - m] /\ i - m \in 1..Len(c)
    OBVIOUS
  <1> HIDE DEF u
  <1>2. Adds(u) \in SUBSET B
    <2> SUFFICES ASSUME NEW i \in 1..Len(u), u[i] = "add" PROVE i \in B BY DEF Adds
    <2>1. CASE i \in 1..m BY <1>1, <2>1 DEF Adds
    <2>2. CASE i \in m + 1..Len(u) BY <1>1, <2>2
    <2>q. QED BY <1>1, <2>1, <2>2
  <1>3. IsFiniteSet(B) /\ Cardinality(B) = IF m + 1 \in Adds(s) THEN Cardinality(Adds(s)) ELSE Cardinality(Adds(s)) + 1
    BY AddsFinite, FS_AddElement
  <1>4. Cardinality(Adds(u)) <= Cardinality(B) BY <1>2, <1>3, FS_Subset
  <1>5. Cardinality(Adds(u)) \in Nat /\ Cardinality(Adds(s)) \in Nat BY <1>1, AddsFinite
  <1>q. QED BY <1>1, <1>3, <1>4, <1>5 DEF u

-----------------------------------------------------------------------------
(* The initial states.                                                     *)

LEMMA Constants ==
    /\ \A a \in Adapters : a \in Nat /\ a # None /\ a >= 1 /\ a <= MaxCommands + 1
    /\ 1 \in Adapters /\ MaxCommands \in Nat /\ MaxFaults \in Nat
    /\ \A n \in Loops : n # None
    /\ Loops # {}
    /\ \A m \in Nat : m >= 1 /\ m <= MaxCommands + 1 => m \in Adapters
  BY ConstantsAssumption

LEMMA InitInv == Init => Inv
  <1> SUFFICES ASSUME Init PROVE Inv OBVIOUS
  <1> USE DEF Init
  <1>1. /\ Idle.of = None /\ Idle.todo = <<>> /\ Idle \in Tasks
        /\ \A p \in Procs : at[p] = Idle
    BY DEF Idle, Tasks
  <1>2. TypeOK
    <2>1. \A p \in Procs : (at[p].of = None) = (at[p].todo = <<>>) BY <1>1
    <2>2. {quit, cap, quar} \subseteq [Adapters -> BOOLEAN] OBVIOUS
    <2>3. thread \in [Adapters -> Loops \cup {None}] /\ {alive, inside} \subseteq [Adapters -> SUBSET Loops]
      OBVIOUS
    <2>q. QED BY <2>1, <2>2, <2>3, Constants DEF TypeOK
  <1>3. Typed BY <1>1, Constants DEF Typed, Procs
  <1>4. Orderly(<<>>) /\ \A h : ~Has(<<>>, h) BY DEF Orderly, Has
  <1>5. Threads BY <1>1, <1>4 DEF Threads
  <1>6. Requested
    <2>1. Adds(inbox) = {} BY DEF Adds
    <2>2. Registering = 0 BY <1>1, <1>4 DEF Registering, Procs
    <2>3. Cardinality(Adds(inbox)) = 0 BY <2>1, FS_EmptySet
    <2>q. QED BY <2>2, <2>3 DEF Requested
  <1>7. StrictGoverned
    <2> SUFFICES ASSUME NEW a \in Adapters PROVE Governed(a) BY DEF StrictGoverned
    <2>1. \A p \in Procs : at[p].of # a BY <1>1, Constants
    <2>2. Quiet(a) BY DEF Quiet
    <2>3. alive[a] = {} OBVIOUS
    <2>q. QED BY <2>1, <2>2, <2>3 DEF Governed, Handled
  <1>q. QED BY <1>2, <1>3, <1>5, <1>6, <1>7 DEF Inv

-----------------------------------------------------------------------------
(* The threads.                                                            *)

\* The thread p goes on to the list t.
Moved(p, t) ==
    /\ at' \in [Procs -> Tasks]
    /\ \A q \in Procs \ {p} : at'[q] = at[q]
    /\ at'[p].todo = t /\ at'[p].of = IF t = <<>> THEN None ELSE at[p].of
    /\ t \in Seq(StepNames) /\ Orderly(t)
    /\ Has(t, "register") => Has(at[p].todo, "register")
    /\ Leaving(at[p].todo) => Leaving(t)

\* Where the steps of a thread leave it.
Gone(p, step) == \E t : Moved(p, t) /\ Follows(t, step)

LEMMA NowMoves ==
    ASSUME TypeOK, Typed, NEW p \in Procs, NEW ok \in BOOLEAN, NEW t \in Seq(StepNames), Now(p, t, ok)
    PROVE  /\ at' \in [Procs -> Tasks]
           /\ \A q \in Procs \ {p} : at'[q] = at[q]
           /\ at'[p].todo = t /\ at'[p].of = IF t = <<>> THEN None ELSE at[p].of
  <1>1. at \in [Procs -> Tasks] BY DEF Typed
  <1>2. Idle \in Tasks /\ Idle.of = None /\ Idle.todo = <<>> BY DEF Idle, Tasks
  <1>3. CASE t = <<>>
    <2>1. at' = [at EXCEPT ![p] = Idle] BY <1>3 DEF Now
    <2>q. QED BY <1>1, <1>2, <1>3, <2>1
  <1>4. CASE t # <<>>
    <2>1. at' = [at EXCEPT ![p] = [at[p] EXCEPT !.todo = t, !.ok = ok]] BY <1>4 DEF Now
    <2>2. at[p] \in Tasks BY <1>1
    <2> DEFINE r == [at[p] EXCEPT !.todo = t, !.ok = ok]
    <2>3. r \in Tasks /\ r.todo = t /\ r.of = at[p].of BY <2>2 DEF Tasks
    <2>4. at'[p] = r /\ at' \in [Procs -> Tasks] /\ \A q \in Procs \ {p} : at'[q] = at[q]
      BY <1>1, <2>1, <2>3
    <2>q. QED BY <1>4, <2>3, <2>4
  <1>q. QED BY <1>3, <1>4

LEMMA Tasked ==
    ASSUME TypeOK, Typed, Threads, NEW p \in Procs, NEW h, Doing(p, h)
    PROVE  /\ at[p].todo \in Seq(StepNames) /\ at[p].todo # <<>> /\ Orderly(at[p].todo)
           /\ Len(at[p].todo) \in Nat \ {0} /\ at[p].todo[1] = h /\ at[p].ok \in BOOLEAN
           /\ Head(at[p].todo) = h
           /\ at[p].of \in Adapters /\ Has(at[p].todo, h)
  <1>1. at[p] \in Tasks BY DEF Typed
  <1>2. at[p].todo \in Seq(StepNames) /\ at[p].of \in Adapters \cup {None} /\ at[p].ok \in BOOLEAN
    BY <1>1 DEF Tasks
  <1>3. at[p].todo # <<>> /\ Head(at[p].todo) = h BY DEF Doing
  <1>4. Len(at[p].todo) \in Nat \ {0} /\ at[p].todo[1] = h BY <1>2, <1>3
  <1>5. at[p].of # None BY <1>3 DEF TypeOK
  <1>6. Orderly(at[p].todo) BY DEF Threads
  <1>q. QED BY <1>2, <1>3, <1>4, <1>5, <1>6 DEF Has

LEMMA DropMoves ==
    ASSUME TypeOK, Typed, Threads, NEW p \in Procs, NEW h, Doing(p, h),
           NEW n \in Nat \ {0}, n <= Len(at[p].todo), NEW ok \in BOOLEAN, Now(p, Drop(p, n), ok)
    PROVE  Gone(p, at[p].todo[n])
  <1> DEFINE s == at[p].todo
             t == Rest(s, n)
  <1>1. s \in Seq(StepNames) /\ Orderly(s) BY Tasked
  <1>2. t = Drop(p, n) BY DEF Rest, Drop
  <1>3. t \in Seq(StepNames) /\ Orderly(t) /\ Follows(t, s[n])
        /\ (\A x : Has(t, x) => Has(s, x)) /\ (Leaving(s) => Leaving(t))
    BY <1>1, RestIs, RestOrderly, RestFollows
  <1>4. Moved(p, t) BY <1>2, <1>3, NowMoves DEF Moved
  <1>q. QED BY <1>3, <1>4 DEF Gone

\* The order of the next three steps.
LEMMA Order ==
    ASSUME NEW s \in Seq(StepNames), Orderly(s), s # <<>>
    PROVE  /\ Len(s) \in Nat /\ 1 <= Len(s)
           /\ s[1] = "stop" => 2 <= Len(s) /\ s[2] = "halt"
           /\ s[1] = "start" => 3 <= Len(s) /\ s[2] = "open" /\ s[3] = "spawn"
           /\ s[1] = "open" => 2 <= Len(s) /\ s[2] = "spawn"
           /\ s[1] = "register" => Len(s) = 1
  <1>1. Len(s) \in Nat /\ 1 <= Len(s) /\ 1 \in 1..Len(s) OBVIOUS
  <1>2. /\ s[1] = "stop" => 1 < Len(s) /\ s[1 + 1] = "halt"
        /\ s[1] = "start" => 1 + 1 < Len(s) /\ s[1 + 1] = "open" /\ s[1 + 2] = "spawn"
        /\ s[1] = "open" => 1 < Len(s) /\ s[1 + 1] = "spawn"
        /\ s[1] = "register" => 1 = Len(s)
    BY <1>1 DEF Orderly
  <1>q. QED BY <1>1, <1>2

LEMMA StopGoes ==
    ASSUME TypeOK, Typed, Threads, NEW p \in Procs, Stop(p)
    PROVE  /\ status[at[p].of] = "stopped" => Gone(p, "halt") /\ status' = status
           /\ status[at[p].of] # "stopped" =>
                 /\ \E t : Moved(p, t) /\ t # <<>> /\ Head(t) = "halt"
                 /\ status' = [status EXCEPT ![at[p].of] = "stopped"]
  <1> DEFINE s == at[p].todo
  <1>1. Doing(p, "stop") BY DEF Stop
  <1>2. s \in Seq(StepNames) /\ s # <<>> /\ Orderly(s) /\ s[1] = "stop" /\ at[p].ok \in BOOLEAN
    BY <1>1, Tasked
  <1>3. Len(s) \in Nat /\ 2 <= Len(s) /\ s[2] = "halt" BY <1>2, Order
  <1>6. 1 \in Nat /\ 1 <= Len(s) BY <1>3
  <1>4. CASE status[at[p].of] = "stopped"
    <2>1. Now(p, Drop(p, 2), at[p].ok) /\ status' = status BY <1>4 DEF Stop, Halted, Go
    <2>2. Gone(p, s[2]) BY <1>1, <1>2, <1>3, <2>1, DropMoves
    <2>q. QED BY <1>3, <1>4, <2>1, <2>2
  <1>5. CASE status[at[p].of] # "stopped"
    <2>1. Now(p, Drop(p, 1), at[p].ok) /\ status' = [status EXCEPT ![at[p].of] = "stopped"]
      BY <1>5 DEF Stop, Halted, Step, Go
    <2>2. PICK t : Moved(p, t)
      <3>1. Gone(p, s[1]) BY <1>1, <1>2, <1>3, <2>1, DropMoves
      <3>q. QED BY <3>1 DEF Gone
    <2>3. t = Rest(s, 1)
      <3>1. Drop(p, 1) = Rest(s, 1) BY DEF Drop, Rest
      <3>2. Rest(s, 1) \in Seq(StepNames) BY <1>2, <1>6, RestIs
      <3>3. at'[p].todo = Rest(s, 1) BY <1>2, <2>1, <3>1, <3>2, NowMoves
      <3>q. QED BY <2>2, <3>3 DEF Moved
    <2>4. t \in Seq(StepNames) /\ Len(t) = Len(s) - 1 /\ \A i \in 1..Len(s) - 1 : t[i] = s[i + 1]
      BY <1>2, <1>6, <2>3, RestIs
    <2>5. t # <<>> /\ Head(t) = "halt" BY <1>3, <2>4
    <2>q. QED BY <1>5, <2>1, <2>2, <2>5
  <1>q. QED BY <1>4, <1>5

\* A step that goes on to the next one.
LEMMA StepGoes ==
    ASSUME TypeOK, Typed, Threads, NEW p \in Procs, NEW h, Doing(p, h), NEW ok \in BOOLEAN,
           Now(p, Drop(p, 1), ok)
    PROVE  Gone(p, h)
  <1>1. Len(at[p].todo) \in Nat /\ 1 <= Len(at[p].todo) /\ at[p].todo[1] = h BY Tasked
  <1>q. QED BY <1>1, DropMoves

LEMMA StartGoes ==
    ASSUME TypeOK, Typed, Threads, NEW p \in Procs, Start(p)
    PROVE  IF status[at[p].of] = "stopped"
           THEN Gone(p, "start") /\ status' = [status EXCEPT ![at[p].of] = "starting"]
           ELSE \E h \in {"stop", "spawn"} : Gone(p, h) /\ status' = status
  <1> DEFINE s == at[p].todo
  <1>1. Doing(p, "start") BY DEF Start
  <1>2. s \in Seq(StepNames) /\ s # <<>> /\ Orderly(s) /\ s[1] = "start" /\ at[p].ok \in BOOLEAN
        /\ Head(s) = "start"
    BY <1>1, Tasked
  <1>3. Len(s) \in Nat /\ 3 <= Len(s) /\ s[3] = "spawn" BY <1>2, Order
  <1>4. CASE status[at[p].of] = "stopped"
    <2>1. Now(p, Drop(p, 1), at[p].ok) /\ status' = [status EXCEPT ![at[p].of] = "starting"]
      BY <1>4 DEF Start, Startable, Step, Go
    <2>q. QED BY <1>1, <1>2, <1>4, <2>1, StepGoes
  <1>5. CASE status[at[p].of] = "error"
    <2> DEFINE t == <<"halt", "calm">> \o s
    <2>1. Now(p, t, at[p].ok) /\ status' = status BY <1>5 DEF Start, Startable, Go
    <2>2. Begun(<<"halt", "calm">>) /\ NoRegister(<<"halt", "calm">>) /\ Head(<<"halt", "calm">>) = "halt"
      BY Beginnings
    <2>3. t \in Seq(StepNames) /\ t # <<>> /\ Orderly(t) /\ Head(t) = "halt"
          /\ (Has(t, "register") => Has(s, "register"))
      BY <1>2, <2>2, JoinOrderly DEF Begun, NoRegister
    <2>4. ~Leaving(s) BY <1>2, <1>3 DEF Leaving
    <2>5. Moved(p, t) BY <1>2, <2>1, <2>3, <2>4, NowMoves DEF Moved
    <2>6. Follows(t, "stop") BY <2>3 DEF Follows
    <2>7. status[at[p].of] # "stopped" BY <1>5
    <2>q. QED BY <2>1, <2>5, <2>6, <2>7 DEF Gone
  <1>6. CASE status[at[p].of] \notin {"stopped", "error"}
    <2>1. Now(p, Drop(p, 3), FALSE) /\ status' = status BY <1>6 DEF Start, Startable
    <2>2. PICK ok \in BOOLEAN : Now(p, Drop(p, 3), ok) BY <2>1
    <2>3. Gone(p, s[3]) BY <1>1, <1>3, <2>2, DropMoves
    <2>q. QED BY <1>3, <1>6, <2>1, <2>3
  <1>q. QED BY <1>4, <1>5, <1>6

LEMMA OpenGoes ==
    ASSUME TypeOK, Typed, Threads, NEW p \in Procs, Open(p)
    PROVE  \/ Gone(p, "open") /\ status' = [status EXCEPT ![at[p].of] = "running"]
                              /\ cap' = [cap EXCEPT ![at[p].of] = TRUE]
           \/ Gone(p, "spawn") /\ status' = [status EXCEPT ![at[p].of] = "error"] /\ cap' = cap
  <1> DEFINE s == at[p].todo
  <1>1. Doing(p, "open") BY DEF Open
  <1>2. s \in Seq(StepNames) /\ s # <<>> /\ Orderly(s) /\ s[1] = "open" /\ at[p].ok \in BOOLEAN
    BY <1>1, Tasked
  <1>3. Len(s) \in Nat /\ 2 <= Len(s) /\ s[2] = "spawn" BY <1>2, Order
  <1>4. CASE Step(p) /\ status' = [status EXCEPT ![at[p].of] = "running"]
             /\ cap' = [cap EXCEPT ![at[p].of] = TRUE]
    BY <1>1, <1>2, <1>4, StepGoes DEF Step, Go
  <1>5. CASE Now(p, Drop(p, 2), FALSE) /\ status' = [status EXCEPT ![at[p].of] = "error"] /\ cap' = cap
    <2>1. PICK ok \in BOOLEAN : Now(p, Drop(p, 2), ok) BY <1>5
    <2>2. Gone(p, s[2]) BY <1>1, <1>3, <2>1, DropMoves
    <2>q. QED BY <1>3, <1>5, <2>2
  <1>q. QED BY <1>4, <1>5 DEF Open

LEMMA JudgeGoes ==
    ASSUME TypeOK, Typed, Threads, NEW p \in Procs, Judge(p)
    PROVE  Gone(p, "judge")
  <1>1. Doing(p, "judge") BY DEF Judge
  <1>2. at[p].ok \in BOOLEAN BY <1>1, Tasked
  <1>3. CASE at[p].ok
    <2>1. Now(p, <<>>, at[p].ok) BY <1>3 DEF Judge, Go
    <2>2. <<>> \in Seq(StepNames) /\ Orderly(<<>>) /\ ~Has(<<>>, "register") /\ Leaving(<<>>)
      BY DEF Orderly, Has, Leaving
    <2>3. Moved(p, <<>>) BY <1>2, <2>1, <2>2, NowMoves DEF Moved
    <2>q. QED BY <2>3 DEF Gone, Follows
  <1>4. CASE ~at[p].ok
    <2>1. Now(p, Drop(p, 1), at[p].ok) BY <1>4 DEF Judge, Go
    <2>q. QED BY <1>1, <1>2, <2>1, StepGoes
  <1>q. QED BY <1>3, <1>4

LEMMA RestartGoes ==
    ASSUME TypeOK, Typed, Threads, NEW p \in Procs, Restart(p)
    PROVE  Gone(p, "restart")
  <1> DEFINE s == at[p].todo
  <1>1. Doing(p, "restart") BY DEF Restart
  <1>2. at[p].ok \in BOOLEAN /\ s \in Seq(StepNames) /\ s # <<>> /\ s[1] = "restart" /\ Len(s) \in Nat \ {0}
    BY <1>1, Tasked
  <1>3. CASE Step(p) BY <1>1, <1>2, <1>3, StepGoes DEF Step, Go
  <1>4. CASE Go(p, Renew \o Renew)
    <2> DEFINE t == Renew \o Renew
    <2>1. Begun(t) /\ Head(t) = "stop" /\ NoRegister(t) BY Longer
    <2> HIDE DEF t
    <2>2. t \in Seq(StepNames) /\ t # <<>> /\ Orderly(t) /\ ~Has(t, "register") BY <2>1 DEF Begun, NoRegister
    <2>3. ~Leaving(s) BY <1>2 DEF Leaving
    <2>4. Now(p, t, at[p].ok) BY <1>4 DEF Go, t
    <2>5. Moved(p, t) BY <1>2, <2>2, <2>3, <2>4, NowMoves DEF Moved
    <2>6. Follows(t, "restart") BY <2>1 DEF Follows
    <2>q. QED BY <2>5, <2>6 DEF Gone
  <1>q. QED BY <1>3, <1>4 DEF Restart

LEMMA RegisterGoes ==
    ASSUME TypeOK, Typed, Threads, NEW p \in Procs, Register(p)
    PROVE  Moved(p, <<>>) /\ p = "command" /\ reg = None
  <1> DEFINE s == at[p].todo
  <1>1. Doing(p, "register") BY DEF Register
  <1>2. at[p].ok \in BOOLEAN /\ s \in Seq(StepNames) /\ s # <<>> /\ s[1] = "register" /\ Orderly(s)
        /\ Has(s, "register")
    BY <1>1, Tasked
  <1>3. Len(s) = 1 BY <1>2, Order
  <1>4. Drop(p, 1) = <<>> BY <1>2, <1>3 DEF Drop
  <1>5. Now(p, <<>>, at[p].ok) BY <1>4 DEF Register, Step, Go
  <1>6. <<>> \in Seq(StepNames) /\ Orderly(<<>>) /\ ~Has(<<>>, "register") /\ Leaving(<<>>)
    BY DEF Orderly, Has, Leaving
  <1>7. Moved(p, <<>>) BY <1>2, <1>5, <1>6, NowMoves DEF Moved
  <1>q. QED BY <1>2, <1>7 DEF Threads

-----------------------------------------------------------------------------
(* Types, threads and requests.                                            *)

Paired == \A p \in Procs : (at[p].of = None) = (at[p].todo = <<>>)

\* What any step of a thread does to the threads.
LEMMA GoneKeeps ==
    ASSUME TypeOK, Typed, Threads, NEW p \in Procs, NEW h, Gone(p, h),
           NEW x, Doing(p, x), x # "register", reg' = reg, made' = made
    PROVE  at' \in [Procs -> Tasks] /\ Paired' /\ Threads' /\ Registering' <= Registering
  <1>1. PICK t : Moved(p, t) BY DEF Gone
  <1>2. at[p].todo \in Seq(StepNames) /\ at[p].of \in Adapters /\ at[p].todo # <<>> /\ Head(at[p].todo) = x
    BY Tasked
  <1>3. at' \in [Procs -> Tasks] BY <1>1 DEF Moved
  <1>4. Paired'
    <2> SUFFICES ASSUME NEW q \in Procs PROVE (at'[q].of = None) = (at'[q].todo = <<>>) BY DEF Paired
    <2>1. CASE q = p BY <1>1, <1>2, <2>1, Constants DEF Moved
    <2>2. CASE q # p BY <1>1, <2>2 DEF Moved, TypeOK
    <2>q. QED BY <2>1, <2>2
  <1>5. \A q \in Procs : Has(at'[q].todo, "register") => Has(at[q].todo, "register")
    BY <1>1 DEF Moved
  <1>6. Threads'
    <2> SUFFICES ASSUME NEW q \in Procs
                 PROVE  /\ Orderly(at'[q].todo)
                        /\ Has(at'[q].todo, "register") => q = "command" /\ reg' = None
                        /\ at'[q].of # None =>
                              at'[q].of <= made' \/ (q = "command" /\ at'[q].todo = <<"register">>)
      BY DEF Threads
    <2>1. CASE q = p
      <3>1. at[p].todo # <<"register">> BY <1>2
      <3>2. at[p].of # None BY <1>2, Constants
      <3>3. at[p].of <= made BY <3>1, <3>2 DEF Threads
      <3>4. Orderly(at'[p].todo) /\ (at'[p].of # None => at'[p].of = at[p].of) BY <1>1 DEF Moved
      <3>q. QED BY <1>5, <2>1, <3>3, <3>4 DEF Threads
    <2>2. CASE q # p BY <1>1, <2>2 DEF Moved, Threads
    <2>q. QED BY <2>1, <2>2
  <1>7. Registering' <= Registering BY <1>5 DEF Registering, Procs
  <1>q. QED BY <1>3, <1>4, <1>6, <1>7

\* Which step a thread takes.
LEMMA WorkGoes ==
    ASSUME TypeOK, Typed, Threads, NEW p \in Procs, Work(p), ~Register(p)
    PROVE  /\ (\E h : Gone(p, h)) /\ (\E x : Doing(p, x) /\ x # "register")
           /\ UNCHANGED <<webVars, regVars, works, seen, inside>>
  <1>1. CASE Stop(p)
    <2>1. \E h : Gone(p, h)
      <3>1. CASE status[at[p].of] = "stopped" BY <1>1, <3>1, StopGoes
      <3>2. CASE status[at[p].of] # "stopped"
        <4>1. PICK t : Moved(p, t) /\ t # <<>> /\ Head(t) = "halt" BY <1>1, <3>2, StopGoes
        <4>2. Follows(t, "stop") BY <4>1 DEF Follows
        <4>q. QED BY <4>1, <4>2 DEF Gone
      <3>q. QED BY <3>1, <3>2
    <2>q. QED BY <1>1, <2>1 DEF Stop, Other, loopVars
  <1>2. CASE Halt(p)
    <2>1. Doing(p, "halt") /\ Now(p, Drop(p, 1), at[p].ok) BY <1>2 DEF Halt, Step, Go
    <2>2. at[p].ok \in BOOLEAN BY <2>1, Tasked
    <2>3. Gone(p, "halt") BY <2>1, <2>2, StepGoes
    <2>q. QED BY <1>2, <2>1, <2>3 DEF Halt, Other, loopVars
  <1>3. CASE Start(p)
    <2>1. \E h : Gone(p, h)
      <3>1. CASE status[at[p].of] = "stopped" BY <1>3, <3>1, StartGoes
      <3>2. CASE status[at[p].of] # "stopped"
        <4>1. PICK h \in {"stop", "spawn"} : Gone(p, h) BY <1>3, <3>2, StartGoes
        <4>q. QED BY <4>1
      <3>q. QED BY <3>1, <3>2
    <2>q. QED BY <1>3, <2>1 DEF Start, Other, loopVars
  <1>4. CASE Calm(p)
    <2>1. Doing(p, "calm") /\ Now(p, Drop(p, 1), at[p].ok) BY <1>4 DEF Calm, Step, Go
    <2>2. at[p].ok \in BOOLEAN BY <2>1, Tasked
    <2>3. Gone(p, "calm") BY <2>1, <2>2, StepGoes
    <2>q. QED BY <1>4, <2>1, <2>3 DEF Calm, Other, loopVars
  <1>5. CASE Open(p)
    <2>1. \E h : Gone(p, h) BY <1>5, OpenGoes
    <2>q. QED BY <1>5, <2>1 DEF Open, Other, loopVars
  <1>6. CASE Spawn(p)
    <2>1. PICK ok \in BOOLEAN : Doing(p, "spawn") /\ Now(p, Drop(p, 1), ok) BY <1>6 DEF Spawn
    <2>2. Gone(p, "spawn") BY <2>1, StepGoes
    <2>q. QED BY <1>6, <2>1, <2>2 DEF Spawn, Other
  <1>7. CASE Restart(p)
    <2>1. Gone(p, "restart") BY <1>7, RestartGoes
    <2>q. QED BY <1>7, <2>1 DEF Restart, Other, loopVars
  <1>8. CASE Judge(p)
    <2>1. Gone(p, "judge") BY <1>8, JudgeGoes
    <2>q. QED BY <1>8, <2>1 DEF Judge, Other, loopVars
  <1>9. CASE Escalate(p)
    <2>1. Doing(p, "escalate") /\ Now(p, Drop(p, 1), at[p].ok) BY <1>9 DEF Escalate, Step, Go
    <2>2. at[p].ok \in BOOLEAN BY <2>1, Tasked
    <2>3. Gone(p, "escalate") BY <2>1, <2>2, StepGoes
    <2>q. QED BY <1>9, <2>1, <2>3 DEF Escalate, Other, loopVars
  <1>q. QED BY <1>1, <1>2, <1>3, <1>4, <1>5, <1>6, <1>7, <1>8, <1>9 DEF Work

\* A thread takes up an adapter.
LEMMA TakesUp ==
    ASSUME TypeOK, Typed, Threads, NEW p \in Procs, NEW a \in Adapters, NEW steps, Begun(steps),
           at' = [at EXCEPT ![p] = [of |-> a, todo |-> steps, ok |-> FALSE]],
           made' = made, reg' \in {reg, None},
           Has(steps, "register") => p = "command" /\ reg' = None,
           a <= made \/ (p = "command" /\ steps = <<"register">>)
    PROVE  at' \in [Procs -> Tasks] /\ Paired' /\ Threads'
           /\ at'[p].of = a /\ at'[p].todo = steps
           /\ \A q \in Procs \ {p} : at'[q] = at[q]
  <1> DEFINE r == [of |-> a, todo |-> steps, ok |-> FALSE]
  <1>1. at \in [Procs -> Tasks] BY DEF Typed
  <1>2. r \in Tasks /\ r.of = a /\ r.todo = steps BY DEF Tasks, Begun
  <1>3. at' \in [Procs -> Tasks] /\ at'[p] = r /\ \A q \in Procs \ {p} : at'[q] = at[q]
    BY <1>1, <1>2
  <1>4. at'[p].of = a /\ at'[p].todo = steps BY <1>2, <1>3
  <1> HIDE DEF r
  <1>5. a # None /\ steps # <<>> /\ Orderly(steps) BY Constants DEF Begun
  <1>6. Paired'
    <2> SUFFICES ASSUME NEW q \in Procs PROVE (at'[q].of = None) = (at'[q].todo = <<>>) BY DEF Paired
    <2>1. CASE q = p BY <1>4, <1>5, <2>1
    <2>2. CASE q # p BY <1>3, <2>2 DEF TypeOK
    <2>q. QED BY <2>1, <2>2
  <1>7. Threads'
    <2> SUFFICES ASSUME NEW q \in Procs
                 PROVE  /\ Orderly(at'[q].todo)
                        /\ Has(at'[q].todo, "register") => q = "command" /\ reg' = None
                        /\ at'[q].of # None =>
                              at'[q].of <= made' \/ (q = "command" /\ at'[q].todo = <<"register">>)
      BY DEF Threads
    <2>1. CASE q = p BY <1>4, <1>5, <2>1
    <2>2. CASE q # p BY <1>3, <2>2 DEF Threads
    <2>q. QED BY <2>1, <2>2
  <1>q. QED BY <1>3, <1>4, <1>6, <1>7

Cells ==
    /\ status \in [Adapters -> {"stopped", "starting", "running", "error"}]
    /\ {quit, cap, quar} \subseteq [Adapters -> BOOLEAN]
    /\ thread \in [Adapters -> Loops \cup {None}]
    /\ {alive, inside} \subseteq [Adapters -> SUBSET Loops]
    /\ \A a \in Adapters : inside[a] \subseteq alive[a]
    /\ faults \in 0..MaxFaults

LEMMA WorkCells ==
    ASSUME TypeOK, Typed, Threads, NEW p \in Procs, Work(p)
    PROVE  Cells'
  <1>1. PICK x : Doing(p, x)
    BY DEF Work, Stop, Halt, Start, Calm, Open, Spawn, Restart, Judge, Escalate, Register
  <1>2. at[p].of \in Adapters BY <1>1, Tasked
  <1>3. Cells BY DEF TypeOK, Typed, Cells
  <1>4. CASE Stop(p)
    <2>1. status' \in [Adapters -> {"stopped", "starting", "running", "error"}]
      BY <1>2, <1>3, <1>4 DEF Cells, Stop
    <2>2. quit' \in [Adapters -> BOOLEAN] BY <1>2, <1>3, <1>4 DEF Cells, Stop
    <2>3. cap' = cap /\ quar' = quar /\ thread' = thread /\ alive' = alive /\ inside' = inside /\ faults' = faults
      BY <1>4 DEF Stop, loopVars
    <2>q. QED BY <1>3, <2>1, <2>2, <2>3 DEF Cells
  <1>5. CASE Halt(p)
    <2>1. faults' \in 0..MaxFaults BY <1>3, <1>5, Constants DEF Cells, Halt
    <2>q. QED BY <1>2, <1>3, <1>5, <2>1 DEF Cells, Halt, loopVars
  <1>6. CASE Start(p)
    <2>1. status' \in [Adapters -> {"stopped", "starting", "running", "error"}]
      BY <1>2, <1>3, <1>6 DEF Cells, Start
    <2>2. quit' \in [Adapters -> BOOLEAN] BY <1>2, <1>3, <1>6 DEF Cells, Start
    <2>3. cap' = cap /\ quar' = quar /\ thread' = thread /\ alive' = alive /\ inside' = inside /\ faults' = faults
      BY <1>6 DEF Start, loopVars
    <2>q. QED BY <1>3, <2>1, <2>2, <2>3 DEF Cells
  <1>7. CASE Calm(p)
    <2>1. status' \in [Adapters -> {"stopped", "starting", "running", "error"}]
      BY <1>2, <1>3, <1>7 DEF Cells, Calm
    <2>2. quit' \in [Adapters -> BOOLEAN] BY <1>2, <1>3, <1>7 DEF Cells, Calm
    <2>3. cap' = cap /\ quar' = quar /\ thread' = thread /\ alive' = alive /\ inside' = inside /\ faults' = faults
      BY <1>7 DEF Calm, loopVars
    <2>q. QED BY <1>3, <2>1, <2>2, <2>3 DEF Cells
  <1>8. CASE Open(p)
    <2>1. status' \in [Adapters -> {"stopped", "starting", "running", "error"}]
      BY <1>2, <1>3, <1>8 DEF Cells, Open
    <2>2. cap' \in [Adapters -> BOOLEAN] BY <1>2, <1>3, <1>8 DEF Cells, Open
    <2>3. quit' = quit /\ quar' = quar /\ thread' = thread /\ alive' = alive /\ inside' = inside /\ faults' = faults
      BY <1>8 DEF Open, loopVars
    <2>q. QED BY <1>3, <2>1, <2>2, <2>3 DEF Cells
  <1>9. CASE Spawn(p)
    <2> DEFINE a == at[p].of
    <2>1. PICK n \in IF alive[a] = Loops THEN Loops ELSE {CHOOSE n \in Loops : n \notin alive[a]} :
            thread' = [thread EXCEPT ![a] = n] /\ alive' = [alive EXCEPT ![a] = @ \cup {n}]
      BY <1>9 DEF Spawn
    <2>2. alive[a] \in SUBSET Loops BY <1>2, <1>3 DEF Cells
    <2>3. n \in Loops BY <2>1, <2>2
    <2>4. status' = status /\ quit' = quit /\ cap' = cap /\ quar' = quar /\ inside' = inside /\ faults' = faults
      BY <1>9 DEF Spawn, adVars
    <2> HIDE DEF a
    <2>5. a \in Adapters BY <1>2 DEF a
    <2>6. thread' \in [Adapters -> Loops \cup {None}] /\ alive' \in [Adapters -> SUBSET Loops]
          /\ \A b \in Adapters : alive[b] \subseteq alive'[b]
      BY <1>3, <2>1, <2>2, <2>3, <2>5 DEF Cells
    <2>q. QED BY <1>3, <2>4, <2>6 DEF Cells
  <1>10. CASE Restart(p)
    <2>1. status' = status /\ quit' = quit /\ cap' = cap /\ thread' = thread /\ alive' = alive /\ inside' = inside
          /\ faults' = faults /\ quar' = quar
      BY <1>10 DEF Restart, loopVars, adVars
    <2>q. QED BY <1>3, <2>1 DEF Cells
  <1>11. CASE Judge(p)
    <2>1. quar' = quar \/ quar' = [quar EXCEPT ![at[p].of] = TRUE] BY <1>11 DEF Judge
    <2>2. status' = status /\ quit' = quit /\ cap' = cap /\ thread' = thread /\ alive' = alive /\ inside' = inside
          /\ faults' = faults
      BY <1>11 DEF Judge, loopVars, adVars
    <2>3. quar' \in [Adapters -> BOOLEAN] BY <1>2, <1>3, <2>1 DEF Cells
    <2>q. QED BY <1>3, <2>2, <2>3 DEF Cells
  <1>12. CASE Escalate(p) BY <1>2, <1>3, <1>12 DEF Cells, Escalate, loopVars
  <1>13. CASE Register(p)
    <2>1. status' = status /\ quit' = quit /\ cap' = cap /\ thread' = thread /\ alive' = alive /\ inside' = inside
          /\ faults' = faults /\ quar' = quar
      BY <1>13 DEF Register, loopVars, adVars
    <2>q. QED BY <1>3, <2>1 DEF Cells
  <1>q. QED
    BY <1>4, <1>5, <1>6, <1>7, <1>8, <1>9, <1>10, <1>11, <1>12, <1>13 DEF Work

Desk ==
    /\ row \in {"none", "manual", "auto"} /\ asked \in 0..MaxCommands /\ inbox \in Seq(Commands)
    /\ reg \in Adapters \cup {None} /\ made \in Adapters
    /\ seen # None => seen.of \in 1..made
                      /\ \E steps \in {<<"restart">>, StopSteps \o <<"escalate">>} : seen.todo = steps
    /\ reg # None => reg <= made

Kinds == Cells /\ Desk /\ at \in [Procs -> Tasks] /\ Paired
Well == Kinds /\ Threads /\ Requested

LEMMA KindsAreTypes == Kinds <=> TypeOK /\ Typed
  <1>1. ASSUME Kinds PROVE TypeOK /\ Typed
    <2>1. \A i \in DOMAIN inbox : inbox[i] \in {"start", "stop", "add", "delete"}
      BY <1>1 DEF Kinds, Desk, Commands
    <2>q. QED BY <1>1, <2>1 DEF Kinds, Cells, Desk, Paired, TypeOK, Typed
  <1>2. ASSUME TypeOK, Typed PROVE Kinds
    BY <1>2 DEF Kinds, Cells, Desk, Paired, TypeOK, Typed
  <1>q. QED BY <1>1, <1>2

LEMMA WorkWell ==
    ASSUME Inv, NEW p \in Procs, Work(p)
    PROVE  Well'
  <1>0. TypeOK /\ Typed /\ Threads /\ Requested /\ Kinds BY KindsAreTypes DEF Inv
  <1>1. Cells' BY <1>0, WorkCells
  <1>2. Registering \in {0, 1} /\ asked \in 0..MaxCommands /\ made \in Adapters
        /\ Cardinality(Adds(inbox)) \in Nat
    BY <1>0, AddsFinite DEF Registering, TypeOK, Typed
  <1>3. CASE ~Register(p)
    <2>1. (\E h : Gone(p, h)) /\ (\E x : Doing(p, x) /\ x # "register")
          /\ UNCHANGED <<webVars, regVars, works, seen>>
      BY <1>0, <1>3, WorkGoes
    <2>2. row' = row /\ inbox' = inbox /\ asked' = asked /\ reg' = reg /\ made' = made /\ seen' = seen
      BY <2>1 DEF webVars, regVars
    <2>3. at' \in [Procs -> Tasks] /\ Paired' /\ Threads' /\ Registering' <= Registering
      BY <1>0, <2>1, <2>2, GoneKeeps
    <2>4. Desk' BY <1>0, <2>2 DEF Kinds, Desk
    <2>5. Registering' \in {0, 1} BY DEF Registering
    <2>6. Cardinality(Adds(inbox))' = Cardinality(Adds(inbox)) BY <2>2
    <2>7. made \in Nat /\ asked \in Nat BY <1>2, Constants
    <2>8. Requested' BY <1>0, <1>2, <2>2, <2>3, <2>5, <2>6, <2>7 DEF Requested
    <2>q. QED BY <1>1, <2>3, <2>4, <2>8 DEF Kinds, Well
  <1>4. CASE Register(p)
    <2>1. Moved(p, <<>>) /\ p = "command" /\ reg = None BY <1>0, <1>4, RegisterGoes
    <2>2. Doing(p, "register") /\ made' = made + 1 /\ reg' = made + 1
          /\ row' = row /\ inbox' = inbox /\ asked' = asked /\ seen' = seen
      BY <1>4 DEF Register, webVars
    <2>3. Registering = 1 BY <1>0, <2>1, <2>2, Tasked DEF Registering
    <2>4. made \in Nat /\ asked \in Nat /\ made >= 1 BY <1>2, Constants
    <2>5. made + 1 \in Adapters
      <3>1. made + 1 <= asked + 1 BY <1>0, <1>2, <2>3, <2>4 DEF Requested
      <3>2. asked <= MaxCommands BY <1>2, Constants
      <3>q. QED BY <2>4, <3>1, <3>2, Constants
    <2>6. Desk' BY <1>0, <2>2, <2>4, <2>5 DEF Kinds, Desk
    <2>7. ~Has(<<>>, "register") /\ Orderly(<<>>) BY DEF Has, Orderly
    <2>8. at'[p].todo = <<>> /\ at'[p].of = None /\ \A q \in Procs \ {p} : at'[q] = at[q]
      BY <2>1 DEF Moved
    <2>9. at' \in [Procs -> Tasks] BY <2>1 DEF Moved
    <2>10. Paired'
      <3> SUFFICES ASSUME NEW q \in Procs PROVE (at'[q].of = None) = (at'[q].todo = <<>>) BY DEF Paired
      <3>1. CASE q = p BY <2>8, <3>1
      <3>2. CASE q # p BY <1>0, <2>8, <3>2 DEF TypeOK
      <3>q. QED BY <3>1, <3>2
    <2>11. Threads'
      <3> SUFFICES ASSUME NEW q \in Procs
                   PROVE  /\ Orderly(at'[q].todo)
                          /\ Has(at'[q].todo, "register") => q = "command" /\ reg' = None
                          /\ at'[q].of # None =>
                                at'[q].of <= made' \/ (q = "command" /\ at'[q].todo = <<"register">>)
        BY DEF Threads
      <3>1. CASE q = p BY <2>7, <2>8, <3>1
      <3>2. CASE q # p
        <4>1. at'[q] = at[q] BY <2>8, <3>2
        <4>2. Orderly(at[q].todo) /\ ~Has(at[q].todo, "register") BY <1>0, <2>1, <3>2 DEF Threads
        <4>3. at[q].of # None => at[q].of <= made BY <1>0, <2>1, <3>2 DEF Threads
        <4>4. at[q].of \in Adapters \cup {None} BY <1>0 DEF Typed, Tasks
        <4>5. at[q].of # None => at[q].of <= made + 1 BY <2>4, <4>3, <4>4, Constants
        <4>q. QED BY <2>2, <4>1, <4>2, <4>5
      <3>q. QED BY <3>1, <3>2
    <2>12. Registering' = 0 BY <2>1, <2>7, <2>8 DEF Registering
    <2>13. Cardinality(Adds(inbox))' = Cardinality(Adds(inbox)) BY <2>2
    <2>14. Requested' BY <1>0, <1>2, <2>2, <2>3, <2>4, <2>12, <2>13 DEF Requested
    <2>q. QED BY <1>1, <2>6, <2>9, <2>10, <2>11, <2>14 DEF Kinds, Well
  <1>q. QED BY <1>3, <1>4

\* Everything but the web pages, the command thread and the watchers leaves the threads alone.
LEMMA RestWell ==
    ASSUME Inv, Cells', row' = row, inbox' = inbox, asked' = asked, reg' = reg, made' = made, seen' = seen,
           at' = at
    PROVE  Well'
  <1>0. Kinds /\ Threads /\ Requested BY KindsAreTypes DEF Inv
  <1>1. Desk' BY <1>0 DEF Kinds, Desk
  <1>2. at' \in [Procs -> Tasks] /\ Paired' BY <1>0 DEF Kinds, Paired
  <1>3. Threads' BY <1>0 DEF Threads
  <1>4. Requested' BY <1>0 DEF Requested, Registering
  <1>q. QED BY <1>1, <1>2, <1>3, <1>4 DEF Kinds, Well

LEMMA CellsKept ==
    ASSUME Inv, UNCHANGED <<adVars, loopVars, quar>>, faults' = faults
    PROVE  Cells'
  <1>1. status' = status /\ quit' = quit /\ cap' = cap /\ thread' = thread /\ alive' = alive
        /\ inside' = inside /\ quar' = quar
    BY DEF adVars, loopVars
  <1>2. Cells BY KindsAreTypes DEF Inv, Kinds
  <1>q. QED BY <1>1, <1>2 DEF Cells

LEMMA WebWell ==
    ASSUME Inv, Web
    PROVE  Well'
  <1>0. Kinds /\ Threads /\ Requested BY KindsAreTypes DEF Inv
  <1>1. \A c \in {<<"start">>, <<"stop">>, <<"add", "start">>, <<"add">>, <<"delete">>} :
          c \in Seq(Commands) /\ \A i \in 2..Len(c) : c[i] # "add"
    <2> DEFINE Asks(c) == c \in Seq(Commands) /\ \A i \in 2..Len(c) : c[i] # "add"
    <2>1. Asks(<<"start">>) BY DEF Commands
    <2>2. Asks(<<"stop">>) BY DEF Commands
    <2>3. Asks(<<"add", "start">>) BY DEF Commands
    <2>4. Asks(<<"add">>) BY DEF Commands
    <2>5. Asks(<<"delete">>) BY DEF Commands
    <2> HIDE DEF Asks
    <2>6. \A c \in {<<"start">>, <<"stop">>, <<"add", "start">>, <<"add">>, <<"delete">>} : Asks(c)
      BY <2>1, <2>2, <2>3, <2>4, <2>5
    <2>q. QED BY <2>6 DEF Asks
  <1>2. PICK c \in {<<"start">>, <<"stop">>, <<"add", "start">>, <<"add">>, <<"delete">>} : Ask(c)
    <2>1. CASE Press BY <2>1 DEF Press
    <2>2. CASE Create BY <2>2 DEF Create
    <2>3. CASE Delete BY <2>3 DEF Delete
    <2>q. QED BY <2>1, <2>2, <2>3 DEF Web
  <1>3. row' \in {"none", "manual", "auto"}
    BY <1>0 DEF Web, Press, Create, Delete, Kinds, Desk
  <1>4. asked < MaxCommands /\ asked' = asked + 1 /\ inbox' = inbox \o c
        /\ reg' = reg /\ made' = made /\ seen' = seen /\ at' = at
    BY <1>2 DEF Ask, regVars
  <1>5. Cells' BY <1>2, CellsKept DEF Ask
  <1>6. inbox \in Seq(Commands) /\ c \in Seq(Commands) /\ asked \in 0..MaxCommands BY <1>0, <1>1 DEF Kinds, Desk
  <1>7. inbox' \in Seq(Commands) /\ Cardinality(Adds(inbox')) <= Cardinality(Adds(inbox)) + 1
    BY <1>1, <1>4, <1>6, AddsAppend
  <1>8. asked' \in 0..MaxCommands BY <1>4, <1>6, Constants
  <1>9. Desk' BY <1>0, <1>3, <1>4, <1>7, <1>8 DEF Kinds, Desk
  <1>10. at' \in [Procs -> Tasks] /\ Paired' BY <1>0, <1>4 DEF Kinds, Paired
  <1>11. Threads' BY <1>0, <1>4 DEF Threads
  <1>12. Registering' = Registering /\ Registering \in {0, 1} BY <1>4 DEF Registering
  <1>13. Cardinality(Adds(inbox)) \in Nat /\ Cardinality(Adds(inbox')) \in Nat BY <1>6, <1>7, AddsFinite
  <1>14. made \in Nat BY <1>0, Constants DEF Kinds, Desk
  <1>15. Requested'
    <2>1. made + Cardinality(Adds(inbox)) + Registering <= asked + 1 BY <1>0 DEF Requested
    <2>2. made + Cardinality(Adds(inbox')) + Registering <= (asked + 1) + 1
      BY <1>6, <1>7, <1>12, <1>13, <1>14, <2>1
    <2>q. QED BY <1>4, <1>12, <2>2 DEF Requested
  <1>q. QED BY <1>5, <1>9, <1>10, <1>11, <1>15 DEF Kinds, Well

\* What the command thread takes up.
LEMMA CommandTakes ==
    ASSUME Inv, Command
    PROVE  /\ revived' = revived
           /\ \/ reg = None /\ reg' = None /\ at' = at /\ tangled' = tangled
              \/ /\ reg = None /\ reg' = None /\ tangled' = tangled /\ Head(inbox) = "add"
                 /\ at' = [at EXCEPT !["command"] = [of |-> made + 1, todo |-> <<"register">>, ok |-> FALSE]]
              \/ /\ reg # None
                 /\ \E steps : /\ Begun(steps) /\ Head(steps) \in {"stop", "start"}
                               /\ Begin("command", reg, steps)
                               /\ \/ reg' = reg /\ NoRegister(steps)
                                  \/ /\ reg' = None /\ Leaving(steps) /\ Head(steps) = "stop"
                                     /\ NoRegister(steps) \/ Head(inbox) = "add"
  <1> DEFINE c == Head(inbox)
  <1>1. inbox \in Seq(Commands) /\ inbox # <<>> BY DEF Inv, Typed, Command
  <1>2. c \in Commands BY <1>1
  <1>3. reg' = IF c \in {"add", "delete"} THEN None ELSE reg BY DEF Command
  <1>r. revived' = revived BY DEF Command
  <1>4. CASE reg = None /\ c # "add" BY <1>3, <1>4, <1>r DEF Command
  <1>5. CASE reg = None /\ c = "add" BY <1>3, <1>5, <1>r DEF Command
  <1>6. CASE reg # None
    <2>1. Begin("command", reg, CASE c = "start" -> StartSteps
                                  [] c = "add" -> StopSteps \o <<"register">>
                                  [] OTHER -> StopSteps)
      BY <1>6 DEF Command
    <2>2. CASE c = "start"
      <3>1. Begin("command", reg, StartSteps) BY <2>1, <2>2
      <3>2. reg' = reg BY <1>3, <2>2
      <3>q. QED BY <1>6, <1>r, <3>1, <3>2, Beginnings
    <2>3. CASE c = "add"
      <3>1. Begin("command", reg, StopSteps \o <<"register">>) BY <2>1, <2>3
      <3>2. reg' = None BY <1>3, <2>3
      <3>q. QED BY <1>6, <1>r, <2>3, <3>1, <3>2, Longer
    <2>4. CASE c \in {"stop", "delete"}
      <3>1. Begin("command", reg, StopSteps) BY <2>1, <2>4
      <3>2. reg' = IF c = "stop" THEN reg ELSE None BY <1>3, <2>4
      <3>q. QED BY <1>6, <1>r, <2>4, <3>1, <3>2, Beginnings
    <2>q. QED BY <1>2, <2>2, <2>3, <2>4 DEF Commands
  <1>q. QED BY <1>4, <1>5, <1>6

LEMMA CommandWell ==
    ASSUME Inv, Command
    PROVE  Well'
  <1>0. Kinds /\ Threads /\ Requested /\ TypeOK /\ Typed BY KindsAreTypes DEF Inv
  <1>1. inbox \in Seq(Commands) /\ inbox # <<>> /\ inbox' = Tail(inbox) /\ row' = row /\ asked' = asked
        /\ made' = made /\ seen' = seen /\ at["command"] = Idle /\ "command" \in Procs
    BY <1>0 DEF Command, Kinds, Desk, Procs
  <1>2. Cells' BY CellsKept DEF Command
  <1>3. inbox' \in Seq(Commands) BY <1>1
  <1>4. reg' \in {reg, None} BY DEF Command
  <1>5. Desk' BY <1>0, <1>1, <1>3, <1>4 DEF Kinds, Desk
  <1>6. Registering = 0
    <2>1. ~Has(<<>>, "register") BY DEF Has
    <2>q. QED BY <1>1, <2>1 DEF Registering, Idle
  <1>7. /\ Cardinality(Adds(inbox')) + (IF Head(inbox) = "add" THEN 1 ELSE 0) <= Cardinality(Adds(inbox))
        /\ Cardinality(Adds(inbox)) \in Nat /\ Cardinality(Adds(inbox')) \in Nat
    BY <1>1, <1>3, AddsTail, AddsFinite
  <1>8. made \in Nat /\ asked \in Nat /\ asked <= MaxCommands /\ made >= 1
    BY <1>0, Constants DEF Kinds, Desk
  <1>9. made + Cardinality(Adds(inbox)) <= asked + 1 BY <1>0, <1>6, <1>7, <1>8 DEF Requested
  <1>10. ASSUME at' \in [Procs -> Tasks] /\ Paired' /\ Threads',
                Has(at'["command"].todo, "register") => Head(inbox) = "add"
         PROVE  Well'
    <2>1. Registering' \in {0, 1} /\ (Registering' = 1 => Head(inbox) = "add") BY <1>10 DEF Registering
    <2>2. made + Cardinality(Adds(inbox')) + Registering' <= asked + 1 BY <1>7, <1>8, <1>9, <2>1
    <2>3. Requested' BY <1>1, <2>2 DEF Requested
    <2>q. QED BY <1>2, <1>5, <1>10, <2>3 DEF Kinds, Well
  <1>11. CASE reg = None /\ reg' = None /\ at' = at
    <2>1. ~Has(at'["command"].todo, "register") BY <1>6, <1>11 DEF Registering
    <2>2. at' \in [Procs -> Tasks] /\ Paired' BY <1>0, <1>11 DEF Kinds, Paired
    <2>3. Threads' BY <1>0, <1>1, <1>11 DEF Threads
    <2>q. QED BY <1>10, <2>1, <2>2, <2>3
  <1>12. CASE /\ reg = None /\ reg' = None /\ Head(inbox) = "add"
              /\ at' = [at EXCEPT !["command"] = [of |-> made + 1, todo |-> <<"register">>, ok |-> FALSE]]
    <2>1. made + 1 \in Adapters BY <1>7, <1>8, <1>9, <1>12, Constants
    <2>2. Begun(<<"register">>) BY Beginnings
    <2>3. at' \in [Procs -> Tasks] /\ Paired' /\ Threads'
      BY <1>0, <1>1, <1>4, <1>12, <2>1, <2>2, TakesUp
    <2>q. QED BY <1>10, <1>12, <2>3
  <1>13. CASE /\ reg # None
              /\ \E steps : /\ Begun(steps) /\ Begin("command", reg, steps)
                            /\ NoRegister(steps) \/ (reg' = None /\ Head(inbox) = "add")
    <2>1. PICK steps : /\ Begun(steps) /\ Begin("command", reg, steps)
                       /\ NoRegister(steps) \/ (reg' = None /\ Head(inbox) = "add")
      BY <1>13
    <2>2. reg \in Adapters /\ reg <= made BY <1>0, <1>13 DEF Kinds, Desk
    <2>3. at' = [at EXCEPT !["command"] = [of |-> reg, todo |-> steps, ok |-> FALSE]] BY <2>1 DEF Begin
    <2>4. Has(steps, "register") => reg' = None /\ Head(inbox) = "add" BY <2>1 DEF NoRegister
    <2>5. at' \in [Procs -> Tasks] /\ Paired' /\ Threads' /\ at'["command"].todo = steps
      BY <1>0, <1>1, <1>4, <2>1, <2>2, <2>3, <2>4, TakesUp
    <2>q. QED BY <1>10, <2>4, <2>5
  <1>q. QED BY CommandTakes, <1>11, <1>12, <1>13

\* A thread that takes up an adapter which is out of the registry lets it go.
Leaves(a, steps) == a # reg' /\ a \notin revived' => Leaving(steps) /\ Head(steps) = "stop"

\* What the watchers take up.
LEMMA WatchersTake ==
    ASSUME Inv, Watchers
    PROVE  \/ at' = at /\ tangled' = tangled /\ revived' = revived
           \/ /\ at["recovery"] = Idle /\ revived \subseteq revived'
              /\ \E a \in 1..made : \E steps : /\ Begun(steps) /\ Head(steps) \in {"stop", "start", "restart"}
                                              /\ NoRegister(steps) /\ Begin("recovery", a, steps)
                                              /\ Leaves(a, steps)
  <1>0. TypeOK /\ Typed BY DEF Inv
  <1>1. CASE Evaluate BY <1>1 DEF Evaluate, history
  <1>2. CASE SpawnRecovery
    <2>1. CASE Free
      <3>1. seen.of \in 1..made /\ \E steps \in {<<"restart">>, StopSteps \o <<"escalate">>} : seen.todo = steps
        BY <1>0, <1>2 DEF SpawnRecovery, Typed
      <3>2. Begin("recovery", seen.of, seen.todo) BY <1>2, <2>1 DEF SpawnRecovery
      <3>3. Begun(seen.todo) /\ Head(seen.todo) \in {"stop", "restart"} /\ NoRegister(seen.todo)
        BY <3>1, Beginnings, Longer
      <3>4. revived' = IF seen.of # reg /\ seen.todo = <<"restart">> THEN revived \cup {seen.of} ELSE revived
        BY <1>2, <2>1 DEF SpawnRecovery
      <3>5. reg' = reg BY <1>2 DEF SpawnRecovery, regVars
      <3>6. Leaves(seen.of, seen.todo)
        <4>1. CASE seen.todo = <<"restart">> BY <3>4, <3>5, <4>1 DEF Leaves
        <4>2. CASE seen.todo = StopSteps \o <<"escalate">> BY <4>2, Longer DEF Leaves
        <4>q. QED BY <3>1, <4>1, <4>2
      <3>q. QED BY <2>1, <3>1, <3>2, <3>3, <3>4, <3>6 DEF Free
    <2>2. CASE ~Free BY <1>2, <2>2 DEF SpawnRecovery, history
    <2>q. QED BY <2>1, <2>2
  <1>3. CASE Rescue
    <2>1. reg # None /\ at["recovery"] = Idle /\ Begin("recovery", reg, Remedy(reg)) /\ Remedy(reg) # <<>>
      BY <1>3 DEF Rescue, Free
    <2>2. reg \in 1..made BY <1>0, <2>1, Constants DEF TypeOK, Typed
    <2>3. Remedy(reg) = StopSteps \o StartSteps \/ Remedy(reg) = StartSteps BY <2>1 DEF Remedy
    <2>4. Begun(Remedy(reg)) /\ Head(Remedy(reg)) \in {"stop", "start"} /\ NoRegister(Remedy(reg))
      BY <2>3, Beginnings, Longer
    <2>5. reg' = reg /\ revived' = revived BY <1>3 DEF Rescue, regVars
    <2>6. Leaves(reg, Remedy(reg)) BY <2>5 DEF Leaves
    <2>q. QED BY <2>1, <2>2, <2>4, <2>5, <2>6
  <1>q. QED BY <1>1, <1>2, <1>3 DEF Watchers

LEMMA WatchersWell ==
    ASSUME Inv, Watchers
    PROVE  Well'
  <1>0. Kinds /\ Threads /\ Requested /\ TypeOK /\ Typed BY KindsAreTypes DEF Inv
  <1>1. UNCHANGED <<webVars, regVars, adVars, loopVars, quar, works, faults>>
    BY DEF Watchers, Evaluate, SpawnRecovery, Rescue
  <1>2. row' = row /\ inbox' = inbox /\ asked' = asked /\ reg' = reg /\ made' = made
    BY <1>1 DEF webVars, regVars
  <1>3. Cells' BY <1>1, CellsKept
  <1>4. seen' # None => seen'.of \in 1..made
                        /\ \E steps \in {<<"restart">>, StopSteps \o <<"escalate">>} : seen'.todo = steps
    <2>1. CASE Evaluate
      <3>1. reg # None /\ (Stalled(reg) \/ Failed(reg)) BY <2>1 DEF Evaluate
      <3>2. \E steps \in {<<"restart">>, StopSteps \o <<"escalate">>} : seen' = [of |-> reg, todo |-> steps]
        BY <3>1 DEF Stalled, Failed
      <3>3. reg \in 1..made BY <1>0, <3>1, Constants DEF TypeOK, Typed
      <3>q. QED BY <3>2, <3>3
    <2>2. CASE SpawnRecovery BY <2>2 DEF SpawnRecovery
    <2>3. CASE Rescue BY <1>0, <2>3 DEF Rescue, Typed
    <2>q. QED BY <2>1, <2>2, <2>3 DEF Watchers
  <1>5. Desk' BY <1>0, <1>2, <1>4 DEF Kinds, Desk
  <1>6. CASE at' = at
    <2>1. at' \in [Procs -> Tasks] /\ Paired' BY <1>0, <1>6 DEF Kinds, Paired
    <2>2. Threads' BY <1>0, <1>2, <1>6 DEF Threads
    <2>3. Requested' BY <1>0, <1>2, <1>6 DEF Requested, Registering
    <2>q. QED BY <1>3, <1>5, <2>1, <2>2, <2>3 DEF Kinds, Well
  <1>7. CASE at["recovery"] = Idle
             /\ \E a \in 1..made : \E steps : Begun(steps) /\ NoRegister(steps) /\ Begin("recovery", a, steps)
    <2>0. PICK a \in 1..made : \E steps : Begun(steps) /\ NoRegister(steps) /\ Begin("recovery", a, steps)
      BY <1>7
    <2>1. PICK steps : Begun(steps) /\ NoRegister(steps) /\ Begin("recovery", a, steps) BY <2>0
    <2>2. at' = [at EXCEPT !["recovery"] = [of |-> a, todo |-> steps, ok |-> FALSE]] BY <2>1 DEF Begin
    <2>3. ~Has(steps, "register") /\ "recovery" \in Procs BY <2>1 DEF NoRegister, Procs
    <2>4. made \in Adapters BY <1>0 DEF TypeOK
    <2>5. a \in Adapters /\ a <= made BY <2>4, ConstantsAssumption
    <2>6. at' \in [Procs -> Tasks] /\ Paired' /\ Threads'
          /\ \A q \in Procs \ {"recovery"} : at'[q] = at[q]
      BY <1>0, <1>2, <2>1, <2>2, <2>3, <2>5, TakesUp
    <2>7. at'["command"] = at["command"] BY <2>6 DEF Procs
    <2>8. Requested' BY <1>0, <1>2, <2>7 DEF Requested, Registering
    <2>q. QED BY <1>3, <1>5, <2>6, <2>8 DEF Kinds, Well
  <1>q. QED BY WatchersTake, <1>6, <1>7

LEMMA OthersWell ==
    ASSUME Inv, Capture \/ Stream \/ \E a \in Adapters : Thaw(a)
    PROVE  Well'
  <1>0. Cells BY KindsAreTypes DEF Inv, Kinds
  <1>1. row' = row /\ inbox' = inbox /\ asked' = asked /\ reg' = reg /\ made' = made /\ seen' = seen /\ at' = at
    BY DEF Capture, Loop, Body, Relaunch, Refused, DecoderExits, Stream, Thaw, webVars, regVars
  <1>2. ASSUME NEW a \in Adapters, NEW n \in Loops, Loop(a, n) PROVE Cells'
    <2>1. status' = status /\ quit' = quit /\ cap' = cap /\ quar' = quar /\ faults' = faults
      BY <1>2 DEF Loop, adVars
    <2>2. CASE Exit(a, n) /\ inside' = inside /\ n \notin inside[a]
      <3>1. alive' = [alive EXCEPT ![a] = alive[a] \ {n}]
            /\ thread' = [thread EXCEPT ![a] = IF thread[a] = n THEN None ELSE thread[a]]
        BY <2>2 DEF Exit
      <3>2. thread' \in [Adapters -> Loops \cup {None}] BY <1>0, <3>1 DEF Cells
      <3>3. alive' \in [Adapters -> SUBSET Loops] /\ \A b \in Adapters : inside[b] \subseteq alive'[b]
        BY <1>0, <2>2, <3>1 DEF Cells
      <3>q. QED BY <1>0, <2>1, <2>2, <3>2, <3>3 DEF Cells
    <2>3. CASE inside' = [inside EXCEPT ![a] = inside[a] \cup {n}] /\ thread' = thread /\ alive' = alive
               /\ n \in alive[a]
      <3>1. inside' \in [Adapters -> SUBSET Loops] /\ \A b \in Adapters : inside'[b] \subseteq alive[b]
        BY <1>0, <2>3 DEF Cells
      <3>q. QED BY <1>0, <2>1, <2>3, <3>1 DEF Cells
    <2>q. QED BY <1>2, <2>2, <2>3 DEF Loop
  <1>3. ASSUME NEW a \in Adapters, NEW n \in Loops, Body(a, n) PROVE Cells'
    <2>1. quit' = quit /\ quar' = quar /\ faults' = faults /\ inside' = [inside EXCEPT ![a] = inside[a] \ {n}]
      BY <1>3 DEF Body
    <2>2. status' \in [Adapters -> {"stopped", "starting", "running", "error"}]
      BY <1>0, <1>3 DEF Body, Relaunch, Cells
    <2>3. cap' \in [Adapters -> BOOLEAN] BY <1>0, <1>3 DEF Body, Relaunch, Cells
    <2>4. (thread' = thread /\ alive' = alive) \/ Exit(a, n) BY <1>3 DEF Body, Relaunch
    <2>5. thread' \in [Adapters -> Loops \cup {None}] BY <1>0, <2>4 DEF Cells, Exit
    <2>6. inside' \in [Adapters -> SUBSET Loops] /\ alive' \in [Adapters -> SUBSET Loops]
      BY <1>0, <2>1, <2>4 DEF Cells, Exit
    <2>7. \A b \in Adapters : inside'[b] \subseteq alive'[b]
      BY <1>0, <2>1, <2>4 DEF Cells, Exit
    <2>q. QED BY <1>0, <2>1, <2>2, <2>3, <2>5, <2>6, <2>7 DEF Cells
  <1>4. ASSUME NEW a \in Adapters, Refused(a) PROVE Cells'
    <2>1. quit' = quit /\ cap' = cap /\ quar' = quar /\ thread' = thread /\ alive' = alive /\ inside' = inside
          /\ faults' = faults
      BY <1>4 DEF Refused, loopVars
    <2>2. status' \in [Adapters -> {"stopped", "starting", "running", "error"}] BY <1>0, <1>4 DEF Refused, Cells
    <2>q. QED BY <1>0, <2>1, <2>2 DEF Cells
  <1>5. ASSUME Stream PROVE Cells'
    <2>1. status' = status /\ quit' = quit /\ cap' = cap /\ quar' = quar /\ thread' = thread /\ alive' = alive
          /\ inside' = inside
      BY <1>5 DEF Stream, adVars, loopVars
    <2>2. faults' \in 0..MaxFaults
      <3>1. CASE works BY <1>0, <1>5, <3>1, Constants DEF Stream, Cells
      <3>2. CASE ~works BY <1>0, <1>5, <3>2, Constants DEF Stream, Cells
      <3>q. QED BY <3>1, <3>2
    <2>q. QED BY <1>0, <2>1, <2>2 DEF Cells
  <1>6. ASSUME NEW a \in Adapters, Thaw(a) PROVE Cells'
    <2>1. status' = status /\ quit' = quit /\ cap' = cap /\ thread' = thread /\ alive' = alive
          /\ inside' = inside /\ faults' = faults
      BY <1>6 DEF Thaw, adVars, loopVars
    <2>2. quar' \in [Adapters -> BOOLEAN] BY <1>0, <1>6 DEF Thaw, Cells
    <2>q. QED BY <1>0, <2>1, <2>2 DEF Cells
  <1>7. ASSUME NEW a \in Adapters, DecoderExits(a) PROVE Cells'
    <2>1. status' = status /\ quit' = quit /\ quar' = quar /\ thread' = thread /\ alive' = alive
          /\ inside' = inside /\ faults' = faults /\ cap' = [cap EXCEPT ![a] = FALSE]
      BY <1>7 DEF DecoderExits, loopVars
    <2>2. cap' \in [Adapters -> BOOLEAN] BY <1>0, <2>1 DEF Cells
    <2>q. QED BY <1>0, <2>1, <2>2 DEF Cells
  <1>8. Cells' BY <1>2, <1>3, <1>4, <1>5, <1>6, <1>7 DEF Capture
  <1>q. QED BY <1>1, <1>8, RestWell

-----------------------------------------------------------------------------
(* An adapter that one thread handles.                                     *)

\* What other adapters' steps leave alone.
LEMMA Undisturbed ==
    ASSUME NEW a \in Adapters, Governed(a),
           status'[a] = status[a], alive'[a] = alive[a], thread'[a] = thread[a], cap'[a] = cap[a],
           Removed(a)' => Removed(a),
           \A q \in Procs : /\ (at'[q].of = a) <=> (at[q].of = a)
                            /\ at'[q].of = a => at'[q] = at[q]
    PROVE  Governed(a)'
  <1>1. Quiet(a)' <=> Quiet(a) BY DEF Quiet
  <1>2. \A h : Handled(a, h)' <=> Handled(a, h) BY DEF Handled, Doing
  <1>3. \A p, q \in Procs : at'[p].of = a /\ at'[q].of = a => p = q BY DEF Governed
  <1>4. \A n \in alive'[a] : thread'[a] = n BY DEF Governed
  <1>5. status'[a] = "stopped" => Quiet(a)' \/ Handled(a, "halt")' BY <1>1, <1>2 DEF Governed
  <1>6. Handled(a, "calm")' \/ Handled(a, "open")' => Quiet(a)' BY <1>1, <1>2 DEF Governed
  <1>7. Handled(a, "spawn")' => alive'[a] = {} /\ status'[a] # "stopped" BY <1>2 DEF Governed
  <1>8. Removed(a)' => /\ \A p \in Procs : at'[p].of = a => Leaving(at'[p].todo)
                       /\ Quiet(a)' \/ Handled(a, "stop")' \/ Handled(a, "halt")'
    BY <1>1, <1>2 DEF Governed
  <1>q. QED BY <1>3, <1>4, <1>5, <1>6, <1>7, <1>8 DEF Governed

\* The thread p, which handles a, has gone on to the list t.
Fits(a, t) ==
    /\ \A n \in alive[a] : thread[a] = n
    /\ status[a] = "stopped" => Quiet(a) \/ (t # <<>> /\ Head(t) = "halt")
    /\ t # <<>> /\ Head(t) \in {"calm", "open"} => Quiet(a)
    /\ t # <<>> /\ Head(t) = "spawn" => alive[a] = {} /\ status[a] # "stopped"

LEMMA HandlerGoverns ==
    ASSUME TypeOK, NEW a \in Adapters, Governed(a), NEW p \in Procs, at[p].of = a,
           NEW t, Moved(p, t), Fits(a, t)',
           Removed(a)' => Removed(a),
           Removed(a) => Quiet(a)' \/ (t # <<>> /\ Head(t) \in {"stop", "halt"})
    PROVE  Governed(a)'
  <1>1. \A q \in Procs : at'[q].of = a => q = p BY DEF Governed, Moved
  <1>2. at'[p].todo = t /\ at'[p].of = IF t = <<>> THEN None ELSE a BY DEF Moved
  <1>3. \A h : Handled(a, h)' <=> t # <<>> /\ Head(t) = h
    BY <1>1, <1>2, Constants DEF Handled, Doing
  <1>4. \A n \in alive'[a] : thread'[a] = n BY DEF Fits
  <1>5. status'[a] = "stopped" => Quiet(a)' \/ Handled(a, "halt")' BY <1>3 DEF Fits
  <1>6. Handled(a, "calm")' \/ Handled(a, "open")' => Quiet(a)' BY <1>3 DEF Fits
  <1>7. Handled(a, "spawn")' => alive'[a] = {} /\ status'[a] # "stopped" BY <1>3 DEF Fits
  <1>8. Removed(a)' => \A q \in Procs : at'[q].of = a => Leaving(at'[q].todo)
    BY <1>1, <1>2 DEF Governed, Moved
  <1>9. Removed(a)' => Quiet(a)' \/ Handled(a, "stop")' \/ Handled(a, "halt")' BY <1>3
  <1>q. QED BY <1>1, <1>4, <1>5, <1>6, <1>7, <1>8, <1>9 DEF Governed

\* At which step the only thread that handles a stands.
LEMMA HandledAt ==
    ASSUME TypeOK, Typed, Threads, NEW a \in Adapters, Governed(a), NEW p \in Procs, at[p].of = a,
           NEW x, Doing(p, x)
    PROVE  /\ \A h : Handled(a, h) <=> h = x
           /\ Removed(a) => x \in {"stop", "halt", "register", "escalate"}
           /\ status[a] = "stopped" /\ x # "halt" => Quiet(a)
           /\ x \in {"calm", "open"} => Quiet(a)
           /\ x = "spawn" => alive[a] = {} /\ status[a] # "stopped"
           /\ Removed(a) => Quiet(a) \/ x \in {"stop", "halt"}
  <1>1. \A h : Handled(a, h) <=> h = x BY DEF Governed, Handled, Doing
  <1>2. at[p].todo[1] = x /\ Len(at[p].todo) \in Nat \ {0} BY Tasked
  <1>3. 1 \in 1..Len(at[p].todo) BY <1>2
  <1>4. Removed(a) => x \in {"stop", "halt", "register", "escalate"}
    BY <1>2, <1>3 DEF Governed, Leaving
  <1>q. QED BY <1>1, <1>4 DEF Governed

\* A step of a capture thread of an adapter that is not quiet.
LEMMA CaptureGoverns ==
    ASSUME NEW a \in Adapters, Governed(a), ~Quiet(a), at' = at, reg' = reg, revived' = revived,
           alive'[a] \subseteq alive[a], \A n \in alive'[a] : thread'[a] = n,
           status'[a] = status[a] \/ status'[a] # "stopped"
    PROVE  Governed(a)'
  <1>2. \A h : Handled(a, h)' <=> Handled(a, h) BY DEF Handled, Doing
  <1>3. \A p, q \in Procs : at'[p].of = a /\ at'[q].of = a => p = q BY DEF Governed
  <1>5. status'[a] = "stopped" => Handled(a, "halt")' BY <1>2 DEF Governed
  <1>6. ~Handled(a, "calm")' /\ ~Handled(a, "open")' BY <1>2 DEF Governed
  <1>7. Handled(a, "spawn")' => alive'[a] = {} /\ status'[a] # "stopped" BY <1>2 DEF Governed
  <1>8. Removed(a)' => /\ \A p \in Procs : at'[p].of = a => Leaving(at'[p].todo)
                       /\ Handled(a, "stop")' \/ Handled(a, "halt")'
    BY <1>2 DEF Governed, Removed
  <1>q. QED BY <1>3, <1>5, <1>6, <1>7, <1>8 DEF Governed

\* A thread takes up an adapter that no other handles.
LEMMA TakerGoverns ==
    ASSUME TypeOK, Typed, NEW a \in Adapters, Governed(a), NEW p \in Procs, at[p] = Idle,
           \A q \in Procs \ {p} : at[q].of # a,
           NEW steps, Begun(steps), Head(steps) # "halt",
           at'[p].of = a, at'[p].todo = steps, \A q \in Procs \ {p} : at'[q] = at[q],
           status'[a] = status[a], alive'[a] = alive[a], thread'[a] = thread[a], cap'[a] = cap[a],
           Removed(a)' => Leaving(steps) /\ (Removed(a) \/ Head(steps) = "stop")
    PROVE  Governed(a)'
  <1>1. Quiet(a)' <=> Quiet(a) BY DEF Quiet
  <1>2. at[p].of # a BY Constants DEF Idle
  <1>3. \A h : ~Handled(a, h) BY <1>2 DEF Handled
  <1>4. \A q \in Procs : at'[q].of = a => q = p OBVIOUS
  <1>5. \A h : Handled(a, h)' <=> Head(steps) = h BY <1>4 DEF Handled, Doing, Begun
  <1>6. \A n \in alive'[a] : thread'[a] = n BY DEF Governed
  <1>7. status'[a] = "stopped" => Quiet(a)' BY <1>1, <1>3 DEF Governed
  <1>8. ~Handled(a, "calm")' /\ ~Handled(a, "open")' /\ ~Handled(a, "spawn")' BY <1>5 DEF Begun
  <1>9. Removed(a)' => \A q \in Procs : at'[q].of = a => Leaving(at'[q].todo) BY <1>4
  <1>10. Removed(a)' => Quiet(a)' \/ Handled(a, "stop")' BY <1>1, <1>3, <1>5 DEF Governed
  <1>q. QED BY <1>4, <1>6, <1>7, <1>8, <1>9, <1>10 DEF Governed

\* A step of a thread touches the adapter it handles only.
LEMMA WorkTouches ==
    ASSUME TypeOK, NEW p \in Procs, Work(p), at[p].of \in Adapters, NEW b \in Adapters, at[p].of # b
    PROVE  /\ status'[b] = status[b] /\ alive'[b] = alive[b] /\ thread'[b] = thread[b] /\ cap'[b] = cap[b]
           /\ tangled \subseteq tangled'
  <1> USE DEF TypeOK
  <1>1. CASE Stop(p) BY <1>1 DEF Stop, loopVars, history
  <1>2. CASE Halt(p) BY <1>2 DEF Halt, loopVars, history
  <1>3. CASE Start(p) BY <1>3 DEF Start, loopVars, history
  <1>4. CASE Calm(p) BY <1>4 DEF Calm, loopVars, history
  <1>5. CASE Open(p) BY <1>5 DEF Open, loopVars, history
  <1>6. CASE Spawn(p)
    <2>1. PICK n : thread' = [thread EXCEPT ![at[p].of] = n]
                   /\ alive' = [alive EXCEPT ![at[p].of] = alive[at[p].of] \cup {n}]
      BY <1>6 DEF Spawn
    <2>2. status' = status /\ cap' = cap /\ tangled' = tangled BY <1>6 DEF Spawn, adVars, history
    <2>q. QED BY <2>1, <2>2
  <1>7. CASE Restart(p) BY <1>7 DEF Restart, adVars, loopVars, history
  <1>8. CASE Judge(p) BY <1>8 DEF Judge, adVars, loopVars, history
  <1>9. CASE Escalate(p) BY <1>9 DEF Escalate, loopVars, history
  <1>10. CASE Register(p) BY <1>10 DEF Register, adVars, loopVars, history
  <1>q. QED BY <1>1, <1>2, <1>3, <1>4, <1>5, <1>6, <1>7, <1>8, <1>9, <1>10 DEF Work

\* A step of a thread leaves the history of restarts alone, and removes no adapter.
LEMMA WorkRemoves ==
    ASSUME NEW p \in Procs, Work(p)
    PROVE  revived' = revived
  BY DEF Work, Stop, Halt, Start, Calm, Open, Spawn, Restart, Judge, Escalate, Register, history

LEMMA HandlerWorks ==
    ASSUME TypeOK, Typed, Threads, NEW a \in Adapters, Governed(a), NEW p \in Procs, at[p].of = a,
           Work(p), a \notin tangled'
    PROVE  Governed(a)'
  <1>0. /\ status \in [Adapters -> {"stopped", "starting", "running", "error"}] /\ cap \in [Adapters -> BOOLEAN]
        /\ thread \in [Adapters -> Loops \cup {None}] /\ alive \in [Adapters -> SUBSET Loops]
    BY DEF TypeOK
  <1>1. \A n \in alive[a] : thread[a] = n BY DEF Governed
  <1>a. revived' = revived BY WorkRemoves
  <1>b. reg' = reg => (Removed(a)' <=> Removed(a)) BY <1>a DEF Removed
  <1>2. CASE Stop(p)
    <2>1. Doing(p, "stop") /\ cap' = cap /\ thread' = thread /\ alive' = alive /\ reg' = reg
      BY <1>2 DEF Stop, loopVars, Other, regVars
    <2>2. CASE status[a] = "stopped"
      <3>1. status' = status /\ Gone(p, "halt") BY <1>2, <2>2, StopGoes
      <3>2. PICK t : Moved(p, t) /\ Follows(t, "halt") BY <3>1 DEF Gone
      <3>3. Quiet(a) BY <2>1, <2>2, HandledAt
      <3>4. Quiet(a)' BY <2>1, <3>3 DEF Quiet
      <3>5. Fits(a, t)' BY <1>1, <2>1, <3>1, <3>2, <3>4 DEF Fits, Follows
      <3>q. QED BY <2>1, <3>2, <3>4, <3>5, <1>b, HandlerGoverns
    <2>3. CASE status[a] # "stopped"
      <3>1. PICK t : Moved(p, t) /\ t # <<>> /\ Head(t) = "halt" BY <1>2, <2>3, StopGoes
      <3>2. Fits(a, t)' BY <1>1, <2>1, <3>1 DEF Fits
      <3>q. QED BY <2>1, <3>1, <3>2, <1>b, HandlerGoverns
    <2>q. QED BY <2>2, <2>3
  <1>3. CASE Halt(p)
    <2>1. Doing(p, "halt") /\ Now(p, Drop(p, 1), at[p].ok) /\ cap' = [cap EXCEPT ![a] = FALSE]
          /\ thread' = thread /\ alive' = alive /\ status' = status /\ reg' = reg
      BY <1>3 DEF Halt, loopVars, Other, regVars, Step, Go
    <2>2. thread[a] = None BY <1>3 DEF Halt
    <2>3. alive[a] = {} BY <1>0, <1>1, <2>2, Constants
    <2>4. Quiet(a)' BY <1>0, <2>1, <2>3 DEF Quiet
    <2>5. at[p].ok \in BOOLEAN BY <2>1, Tasked
    <2>6. PICK t : Moved(p, t) /\ Follows(t, "halt") BY <2>1, <2>5, StepGoes DEF Gone
    <2>7. Fits(a, t)' BY <1>1, <2>1, <2>4, <2>6 DEF Fits, Follows
    <2>q. QED BY <2>1, <2>4, <2>6, <2>7, <1>b, HandlerGoverns
  <1>4. CASE Start(p)
    <2>1. Doing(p, "start") /\ cap' = cap /\ thread' = thread /\ alive' = alive /\ reg' = reg
      BY <1>4 DEF Start, loopVars, Other, regVars
    <2>2. ~Removed(a) BY <2>1, HandledAt
    <2>3. CASE status[a] = "stopped"
      <3>1. Gone(p, "start") /\ status' = [status EXCEPT ![a] = "starting"] BY <1>4, <2>3, StartGoes
      <3>2. PICK t : Moved(p, t) /\ Follows(t, "start") BY <3>1 DEF Gone
      <3>3. Quiet(a) BY <2>1, <2>3, HandledAt
      <3>4. Quiet(a)' BY <2>1, <3>3 DEF Quiet
      <3>5. Fits(a, t)' BY <1>1, <2>1, <3>2, <3>4 DEF Fits, Follows
      <3>q. QED BY <2>1, <2>2, <3>2, <3>5, <1>b, HandlerGoverns
    <2>4. CASE status[a] # "stopped"
      <3>1. PICK h \in {"stop", "spawn"} : Gone(p, h) /\ status' = status BY <1>4, <2>4, StartGoes
      <3>2. PICK t : Moved(p, t) /\ Follows(t, h) BY <3>1 DEF Gone
      <3>3. Fits(a, t)' BY <1>1, <2>1, <2>4, <3>1, <3>2 DEF Fits, Follows
      <3>q. QED BY <2>1, <2>2, <3>2, <3>3, <1>b, HandlerGoverns
    <2>q. QED BY <2>3, <2>4
  <1>5. CASE Calm(p)
    <2>1. Doing(p, "calm") /\ Now(p, Drop(p, 1), at[p].ok) /\ cap' = cap
          /\ thread' = thread /\ alive' = alive /\ reg' = reg
      BY <1>5 DEF Calm, loopVars, Other, regVars, Step, Go
    <2>2. ~Removed(a) /\ Quiet(a) BY <2>1, HandledAt
    <2>3. at[p].ok \in BOOLEAN BY <2>1, Tasked
    <2>4. PICK t : Moved(p, t) /\ Follows(t, "calm") BY <2>1, <2>3, StepGoes DEF Gone
    <2>5. Quiet(a)' BY <2>1, <2>2 DEF Quiet
    <2>6. Fits(a, t)' BY <1>1, <2>1, <2>4, <2>5 DEF Fits, Follows
    <2>q. QED BY <2>1, <2>2, <2>4, <2>6, <1>b, HandlerGoverns
  <1>6. CASE Open(p)
    <2>1. Doing(p, "open") /\ thread' = thread /\ alive' = alive /\ reg' = reg
      BY <1>6 DEF Open, loopVars, Other, regVars
    <2>2. ~Removed(a) /\ Quiet(a) BY <2>1, HandledAt
    <2>3. alive'[a] = {} BY <2>1, <2>2 DEF Quiet
    <2>4. \E h \in {"open", "spawn"} : Gone(p, h) /\ status'[a] # "stopped" BY <1>0, <1>6, OpenGoes
    <2>5. PICK h \in {"open", "spawn"} : Gone(p, h) /\ status'[a] # "stopped" BY <2>4
    <2>6. PICK t : Moved(p, t) /\ Follows(t, h) BY <2>5 DEF Gone
    <2>7. Fits(a, t)' BY <1>1, <2>1, <2>3, <2>5, <2>6 DEF Fits, Follows
    <2>q. QED BY <2>1, <2>2, <2>6, <2>7, <1>b, HandlerGoverns
  <1>7. CASE Spawn(p)
    <2>1. PICK ok \in BOOLEAN : Doing(p, "spawn") /\ Now(p, Drop(p, 1), ok) BY <1>7 DEF Spawn
    <2>2. status' = status /\ reg' = reg BY <1>7 DEF Spawn, Other, regVars, adVars
    <2>3. ~Removed(a) /\ alive[a] = {} /\ status[a] # "stopped" BY <2>1, HandledAt
    <2>4. PICK n : thread' = [thread EXCEPT ![a] = n] /\ alive' = [alive EXCEPT ![a] = alive[a] \cup {n}]
      BY <1>7 DEF Spawn
    <2>5. alive'[a] = {n} /\ thread'[a] = n BY <1>0, <2>3, <2>4
    <2>6. PICK t : Moved(p, t) /\ Follows(t, "spawn") BY <2>1, StepGoes DEF Gone
    <2>7. Fits(a, t)' BY <2>2, <2>3, <2>5, <2>6 DEF Fits, Follows
    <2>q. QED BY <2>2, <2>3, <2>6, <2>7, <1>b, HandlerGoverns
  <1>8. CASE Restart(p)
    <2>1. Doing(p, "restart") /\ cap' = cap /\ status' = status /\ thread' = thread /\ alive' = alive /\ reg' = reg
      BY <1>8 DEF Restart, loopVars, adVars, Other, regVars
    <2>2. ~Removed(a) /\ (status[a] = "stopped" => Quiet(a)) BY <2>1, HandledAt
    <2>3. PICK t : Moved(p, t) /\ Follows(t, "restart") BY <1>8, RestartGoes DEF Gone
    <2>4. Quiet(a)' <=> Quiet(a) BY <2>1 DEF Quiet
    <2>5. Fits(a, t)' BY <1>1, <2>1, <2>2, <2>3, <2>4 DEF Fits, Follows
    <2>q. QED BY <2>1, <2>2, <2>3, <2>5, <1>b, HandlerGoverns
  <1>9. CASE Judge(p)
    <2>1. Doing(p, "judge") /\ cap' = cap /\ status' = status /\ thread' = thread /\ alive' = alive /\ reg' = reg
      BY <1>9 DEF Judge, loopVars, adVars, Other, regVars
    <2>2. ~Removed(a) /\ (status[a] = "stopped" => Quiet(a)) BY <2>1, HandledAt
    <2>3. PICK t : Moved(p, t) /\ Follows(t, "judge") BY <1>9, JudgeGoes DEF Gone
    <2>4. Quiet(a)' <=> Quiet(a) BY <2>1 DEF Quiet
    <2>5. Fits(a, t)' BY <1>1, <2>1, <2>2, <2>3, <2>4 DEF Fits, Follows
    <2>q. QED BY <2>1, <2>2, <2>3, <2>5, <1>b, HandlerGoverns
  <1>10. CASE Escalate(p)
    <2>1. Doing(p, "escalate") /\ Now(p, Drop(p, 1), at[p].ok) /\ status' = [status EXCEPT ![a] = "error"]
          /\ thread' = thread /\ alive' = alive /\ reg' = reg /\ cap' = cap
      BY <1>10 DEF Escalate, loopVars, Other, regVars, Step, Go
    <2>2. Removed(a) => Quiet(a)
      <3>1. Removed(a) => Quiet(a) \/ "escalate" \in {"stop", "halt"} BY <2>1, HandledAt
      <3>q. QED BY <3>1
    <2>7. Removed(a) => Quiet(a)' BY <2>1, <2>2 DEF Quiet
    <2>3. at[p].ok \in BOOLEAN BY <2>1, Tasked
    <2>4. PICK t : Moved(p, t) /\ Follows(t, "escalate") BY <2>1, <2>3, StepGoes DEF Gone
    <2>5. status'[a] = "error" BY <1>0, <2>1
    <2>6. Fits(a, t)' BY <1>1, <2>1, <2>4, <2>5 DEF Fits, Follows
    <2>q. QED BY <2>1, <2>4, <2>6, <2>7, <1>b, HandlerGoverns
  <1>11. CASE Register(p)
    <2>1. Doing(p, "register") /\ cap' = cap /\ status' = status /\ thread' = thread /\ alive' = alive
      BY <1>11 DEF Register, loopVars, adVars
    <2>2. Moved(p, <<>>) /\ reg = None BY <1>11, RegisterGoes
    <2>3. a # reg BY <2>2, Constants
    <2>4. Removed(a)' => Removed(a) BY <1>a, <2>3 DEF Removed
    <2>5. (Removed(a) => Quiet(a)) /\ (status[a] = "stopped" => Quiet(a))
      <3>1. Removed(a) => Quiet(a) \/ "register" \in {"stop", "halt"} BY <2>1, HandledAt
      <3>2. status[a] = "stopped" /\ "register" # "halt" => Quiet(a) BY <2>1, HandledAt
      <3>q. QED BY <3>1, <3>2
    <2>6. Quiet(a)' <=> Quiet(a) BY <2>1 DEF Quiet
    <2>7. Fits(a, <<>>)' BY <1>1, <2>1, <2>5, <2>6 DEF Fits
    <2>q. QED BY <2>2, <2>4, <2>5, <2>6, <2>7, HandlerGoverns
  <1>q. QED
    BY <1>2, <1>3, <1>4, <1>5, <1>6, <1>7, <1>8, <1>9, <1>10, <1>11 DEF Work

LEMMA WorkGoverned ==
    ASSUME Inv, NEW p \in Procs, Work(p)
    PROVE  StrictGoverned'
  <1>0. TypeOK /\ Typed /\ Threads BY DEF Inv
  <1>1. PICK x : Doing(p, x)
    BY DEF Work, Stop, Halt, Start, Calm, Open, Spawn, Restart, Judge, Escalate, Register
  <1>2. at[p].of \in Adapters BY <1>0, <1>1, Tasked
  <1>3. SUFFICES ASSUME NEW a \in Adapters, a \notin tangled' PROVE Governed(a)'
    BY DEF StrictGoverned, Strict
  <1>4. tangled \subseteq tangled'
    <2>1. CASE Spawn(p) BY <2>1 DEF Spawn, history
    <2>2. CASE ~Spawn(p)
      BY <2>2 DEF Work, Stop, Halt, Start, Calm, Open, Restart, Judge, Escalate, Register, history
    <2>q. QED BY <2>1, <2>2
  <1>5. Governed(a) BY <1>3, <1>4 DEF Inv, StrictGoverned, Strict
  <1>6. CASE at[p].of = a BY <1>0, <1>3, <1>5, <1>6, HandlerWorks
  <1>7. CASE at[p].of # a
    <2>1. status'[a] = status[a] /\ alive'[a] = alive[a] /\ thread'[a] = thread[a] /\ cap'[a] = cap[a]
      BY <1>0, <1>2, <1>7, WorkTouches
    <2>2. PICK t : Moved(p, t)
      <3>1. CASE Register(p) BY <1>0, <3>1, RegisterGoes
      <3>2. CASE ~Register(p) BY <1>0, <3>2, WorkGoes DEF Gone
      <3>q. QED BY <3>1, <3>2
    <2>3. at'[p].of # a BY <1>7, <2>2, Constants DEF Moved
    <2>4. \A q \in Procs : q # p => at'[q] = at[q] BY <2>2 DEF Moved
    <2>5. Removed(a)' => Removed(a)
      <3>1. revived' = revived BY WorkRemoves
      <3>2. CASE Register(p) BY <1>0, <3>1, <3>2, RegisterGoes, Constants DEF Removed
      <3>3. CASE ~Register(p) BY <1>0, <3>1, <3>3, WorkGoes DEF regVars, Removed
      <3>q. QED BY <3>2, <3>3
    <2>q. QED BY <1>5, <1>7, <2>1, <2>3, <2>4, <2>5, Undisturbed
  <1>q. QED BY <1>6, <1>7

LEMMA BeginGoverned ==
    ASSUME Inv, NEW p \in Procs, at[p] = Idle, NEW r \in Adapters, r <= made,
           NEW steps, Begun(steps), Head(steps) # "halt", Begin(p, r, steps),
           NoRegister(steps) \/ (p = "command" /\ reg' = None),
           status' = status, alive' = alive, thread' = thread, cap' = cap, made' = made,
           reg' = reg \/ (p = "command" /\ r = reg /\ reg' = None),
           revived \subseteq revived', Leaves(r, steps)
    PROVE  StrictGoverned'
  <1>0. TypeOK /\ Typed /\ Threads BY DEF Inv
  <1>1. at' = [at EXCEPT ![p] = [of |-> r, todo |-> steps, ok |-> FALSE]]
        /\ tangled' = IF \E q \in Procs \ {p} : at[q].of = r THEN tangled \cup {r} ELSE tangled
    BY DEF Begin
  <1>2. Has(steps, "register") => p = "command" /\ reg' = None BY DEF NoRegister
  <1>3. reg' \in {reg, None} OBVIOUS
  <1>4. at'[p].of = r /\ at'[p].todo = steps /\ \A q \in Procs \ {p} : at'[q] = at[q]
    BY <1>0, <1>1, <1>2, <1>3, TakesUp
  <1>5. SUFFICES ASSUME NEW a \in Adapters, a \notin tangled' PROVE Governed(a)'
    BY DEF StrictGoverned, Strict
  <1>6. Governed(a) BY <1>1, <1>5 DEF Inv, StrictGoverned, Strict
  <1>7. CASE a = r
    <2>1. \A q \in Procs \ {p} : at[q].of # a BY <1>1, <1>5, <1>7
    <2>2. Removed(a)' => Leaving(steps) /\ Head(steps) = "stop" BY <1>7 DEF Leaves, Removed
    <2>q. QED BY <1>0, <1>4, <1>6, <1>7, <2>1, <2>2, TakerGoverns
  <1>8. CASE a # r
    <2>1. at[p].of # a BY Constants DEF Idle
    <2>2. Removed(a)' => Removed(a) BY <1>8 DEF Removed
    <2>q. QED BY <1>4, <1>6, <1>8, <2>1, <2>2, Undisturbed
  <1>q. QED BY <1>7, <1>8

LEMMA CommandGoverned ==
    ASSUME Inv, Command
    PROVE  StrictGoverned'
  <1>0. TypeOK /\ Typed /\ Threads BY DEF Inv
  <1>1. status' = status /\ alive' = alive /\ thread' = thread /\ cap' = cap /\ made' = made
        /\ at["command"] = Idle /\ "command" \in Procs
    BY DEF Command, adVars, loopVars, Procs
  <1>r. revived' = revived BY CommandTakes
  <1>2. CASE reg = None /\ reg' = None /\ at' = at /\ tangled' = tangled
    <2> SUFFICES ASSUME NEW a \in Adapters, a \notin tangled' PROVE Governed(a)'
      BY DEF StrictGoverned, Strict
    <2>1. Governed(a) BY <1>2 DEF Inv, StrictGoverned, Strict
    <2>2. Removed(a)' => Removed(a) BY <1>r, <1>2 DEF Removed
    <2>q. QED BY <1>1, <1>2, <2>1, <2>2, Undisturbed
  <1>3. CASE /\ reg = None /\ reg' = None /\ tangled' = tangled
             /\ at' = [at EXCEPT !["command"] = [of |-> made + 1, todo |-> <<"register">>, ok |-> FALSE]]
    <2> SUFFICES ASSUME NEW a \in Adapters, a \notin tangled' PROVE Governed(a)'
      BY DEF StrictGoverned, Strict
    <2>1. Governed(a) BY <1>3 DEF Inv, StrictGoverned, Strict
    <2>2. at'["command"] = [of |-> made + 1, todo |-> <<"register">>, ok |-> FALSE]
          /\ \A q \in Procs \ {"command"} : at'[q] = at[q]
      BY <1>0, <1>1, <1>3 DEF Typed
    <2>3. at'["command"].of = made + 1 /\ at'["command"].todo = <<"register">> BY <2>2
    <2>4. at["command"].of # a BY <1>1, Constants DEF Idle
    <2>5. CASE a = made + 1
      <3>1. \A q \in Procs \ {"command"} : at[q].of # a
        <4>1. made \in Nat BY <1>0, Constants DEF TypeOK
        <4>2. \A q \in Procs \ {"command"} : at[q].of # None => at[q].of <= made BY <1>0 DEF Threads
        <4>3. a # None /\ ~(a <= made) BY <2>5, <4>1, Constants
        <4>q. QED BY <4>2, <4>3
      <3>2. Begun(<<"register">>) /\ Head(<<"register">>) = "register" /\ Leaving(<<"register">>)
        BY Beginnings
      <3>3. Removed(a)' => Removed(a) BY <1>r, <1>3 DEF Removed
      <3>q. QED BY <1>0, <1>1, <2>1, <2>2, <2>3, <2>5, <3>1, <3>2, <3>3, TakerGoverns
    <2>6. CASE a # made + 1
      <3>1. Removed(a)' => Removed(a) BY <1>r, <1>3 DEF Removed
      <3>q. QED BY <1>1, <1>3, <2>1, <2>2, <2>3, <2>4, <2>6, <3>1, Undisturbed
    <2>q. QED BY <2>5, <2>6
  <1>4. CASE /\ reg # None
             /\ \E steps : /\ Begun(steps) /\ Head(steps) \in {"stop", "start"}
                           /\ Begin("command", reg, steps)
                           /\ \/ reg' = reg /\ NoRegister(steps)
                              \/ /\ reg' = None /\ Leaving(steps) /\ Head(steps) = "stop"
                                 /\ NoRegister(steps) \/ Head(inbox) = "add"
    <2>1. reg \in Adapters /\ reg <= made BY <1>0, <1>4 DEF TypeOK, Typed
    <2>2. PICK steps : /\ Begun(steps) /\ Head(steps) \in {"stop", "start"}
                       /\ Begin("command", reg, steps)
                       /\ NoRegister(steps) \/ reg' = None
                       /\ reg' = reg \/ (reg' = None /\ Leaving(steps) /\ Head(steps) = "stop")
      BY <1>4
    <2>3. Head(steps) # "halt" BY <2>2
    <2>4. Leaves(reg, steps) BY <2>2 DEF Leaves
    <2>q. QED BY <1>1, <1>r, <2>1, <2>2, <2>3, <2>4, BeginGoverned
  <1>q. QED BY CommandTakes, <1>2, <1>3, <1>4

LEMMA WatchersGoverned ==
    ASSUME Inv, Watchers
    PROVE  StrictGoverned'
  <1>0. TypeOK /\ Typed BY DEF Inv
  <1>1. status' = status /\ alive' = alive /\ thread' = thread /\ cap' = cap /\ made' = made /\ reg' = reg
    BY DEF Watchers, Evaluate, SpawnRecovery, Rescue, adVars, loopVars, regVars
  <1>2. CASE at' = at /\ tangled' = tangled /\ revived' = revived
    <2> SUFFICES ASSUME NEW a \in Adapters, a \notin tangled' PROVE Governed(a)'
      BY DEF StrictGoverned, Strict
    <2>1. Governed(a) BY <1>2 DEF Inv, StrictGoverned, Strict
    <2>2. Removed(a)' => Removed(a) BY <1>1, <1>2 DEF Removed
    <2>q. QED BY <1>1, <1>2, <2>1, <2>2, Undisturbed
  <1>3. CASE /\ at["recovery"] = Idle /\ revived \subseteq revived'
             /\ \E a \in 1..made : \E steps : /\ Begun(steps) /\ Head(steps) \in {"stop", "start", "restart"}
                                             /\ NoRegister(steps) /\ Begin("recovery", a, steps)
                                             /\ Leaves(a, steps)
    <2>0. PICK r \in 1..made : \E steps : /\ Begun(steps) /\ Head(steps) \in {"stop", "start", "restart"}
                                         /\ NoRegister(steps) /\ Begin("recovery", r, steps)
                                         /\ Leaves(r, steps)
      BY <1>3
    <2>1. PICK steps : /\ Begun(steps) /\ Head(steps) \in {"stop", "start", "restart"}
                       /\ NoRegister(steps) /\ Begin("recovery", r, steps) /\ Leaves(r, steps)
      BY <2>0
    <2>2. made \in Adapters BY <1>0 DEF TypeOK
    <2>3. r \in Adapters /\ r <= made /\ "recovery" \in Procs BY <2>2, ConstantsAssumption DEF Procs
    <2>4. Head(steps) # "halt" BY <2>1
    <2>q. QED BY <1>1, <1>3, <2>1, <2>3, <2>4, BeginGoverned
  <1>q. QED BY WatchersTake, <1>2, <1>3

LEMMA OthersGoverned ==
    ASSUME Inv, Web \/ Capture \/ Stream \/ \E a \in Adapters : Thaw(a)
    PROVE  StrictGoverned'
  <1>0. TypeOK /\ Typed BY DEF Inv
  <1>1. at' = at /\ reg' = reg /\ tangled' = tangled /\ revived' = revived
    BY DEF Web, Press, Create, Delete, Ask, Capture, Loop, Body, Relaunch, Refused, DecoderExits, Stream, Thaw,
           regVars, history
  <1> SUFFICES ASSUME NEW a \in Adapters, a \notin tangled' PROVE Governed(a)'
    BY DEF StrictGoverned, Strict
  <1>2. Governed(a) BY <1>1 DEF Inv, StrictGoverned, Strict
  <1>r. Removed(a)' => Removed(a) BY <1>1 DEF Removed
  <1>3. CASE status'[a] = status[a] /\ alive'[a] = alive[a] /\ thread'[a] = thread[a] /\ cap'[a] = cap[a]
    BY <1>1, <1>2, <1>r, <1>3, Undisturbed
  <1>4. CASE Web \/ Stream \/ \E b \in Adapters : Thaw(b)
    <2>1. status' = status /\ alive' = alive /\ thread' = thread /\ cap' = cap
      BY <1>4 DEF Web, Press, Create, Delete, Ask, Stream, Thaw, adVars, loopVars
    <2>q. QED BY <1>3, <2>1
  <1>5. ASSUME NEW b \in Adapters, NEW n \in Loops, Loop(b, n) PROVE Governed(a)'
    <2>1. status' = status /\ cap' = cap BY <1>5 DEF Loop, adVars
    <2>2. CASE Exit(b, n) /\ n \in alive[b]
      <3>1. CASE b = a
        <4>1. alive'[a] = alive[a] \ {n} BY <1>0, <2>2, <3>1 DEF Exit, TypeOK
        <4>2. \A m \in alive[a] : thread[a] = m BY <1>2 DEF Governed
        <4>3. alive'[a] = {} BY <2>2, <3>1, <4>1, <4>2
        <4>4. ~Quiet(a) BY <2>2, <3>1 DEF Quiet
        <4>q. QED BY <1>1, <1>2, <2>1, <4>3, <4>4, CaptureGoverns
      <3>2. CASE b # a
        <4>1. alive'[a] = alive[a] /\ thread'[a] = thread[a] BY <1>0, <2>2, <3>2 DEF Exit, TypeOK
        <4>q. QED BY <1>3, <2>1, <4>1
      <3>q. QED BY <3>1, <3>2
    <2>3. CASE thread' = thread /\ alive' = alive BY <1>3, <2>1, <2>3
    <2>q. QED BY <1>5, <2>2, <2>3 DEF Loop
  <1>6. ASSUME NEW b \in Adapters, NEW n \in Loops, Body(b, n) PROVE Governed(a)'
    <2>1. n \in alive[b] BY <1>0, <1>6 DEF Body, Typed
    <2>2. (thread' = thread /\ alive' = alive) \/ Exit(b, n) BY <1>6 DEF Body, Relaunch
    <2>3. CASE b = a
      <3>1. ~Quiet(a) BY <2>1, <2>3 DEF Quiet
      <3>2. alive'[a] \subseteq alive[a] BY <1>0, <2>2, <2>3 DEF Exit, TypeOK
      <3>3. \A m \in alive[a] : thread[a] = m BY <1>2 DEF Governed
      <3>4. \A m \in alive'[a] : thread'[a] = m
        <4>1. CASE thread' = thread /\ alive' = alive BY <3>3, <4>1
        <4>2. CASE Exit(b, n)
          <5>1. alive'[a] = alive[a] \ {n} BY <1>0, <2>3, <4>2 DEF Exit, TypeOK
          <5>q. QED BY <2>1, <2>3, <3>3, <5>1
        <4>q. QED BY <2>2, <4>1, <4>2
      <3>5. status'[a] = status[a] \/ status'[a] # "stopped" BY <1>0, <1>6, <2>3 DEF Body, Relaunch, TypeOK
      <3>q. QED BY <1>1, <1>2, <3>1, <3>2, <3>4, <3>5, CaptureGoverns
    <2>4. CASE b # a
      <3>1. status'[a] = status[a] BY <1>0, <1>6, <2>4 DEF Body, Relaunch, TypeOK
      <3>2. cap'[a] = cap[a] BY <1>0, <1>6, <2>4 DEF Body, Relaunch, TypeOK
      <3>3. alive'[a] = alive[a] /\ thread'[a] = thread[a] BY <1>0, <2>2, <2>4 DEF Exit, TypeOK
      <3>q. QED BY <1>3, <3>1, <3>2, <3>3
    <2>q. QED BY <2>3, <2>4
  <1>7. ASSUME NEW b \in Adapters, Refused(b) PROVE Governed(a)'
    <2>1. alive' = alive /\ thread' = thread /\ cap' = cap /\ status' = [status EXCEPT ![b] = "error"] /\ cap[b]
      BY <1>7 DEF Refused, loopVars
    <2>2. CASE b = a
      <3>1. ~Quiet(a) BY <2>1, <2>2 DEF Quiet
      <3>2. \A m \in alive'[a] : thread'[a] = m BY <1>2, <2>1 DEF Governed
      <3>3. status'[a] # "stopped" BY <1>0, <2>1, <2>2 DEF TypeOK
      <3>q. QED BY <1>1, <1>2, <2>1, <3>1, <3>2, <3>3, CaptureGoverns
    <2>3. CASE b # a
      <3>1. status'[a] = status[a] BY <1>0, <2>1, <2>3 DEF TypeOK
      <3>q. QED BY <1>3, <2>1, <3>1
    <2>q. QED BY <2>2, <2>3
  <1>8. ASSUME NEW b \in Adapters, DecoderExits(b) PROVE Governed(a)'
    <2>1. alive' = alive /\ thread' = thread /\ status' = status /\ cap' = [cap EXCEPT ![b] = FALSE] /\ cap[b]
      BY <1>8 DEF DecoderExits, loopVars
    <2>2. CASE b = a
      <3>1. ~Quiet(a) BY <2>1, <2>2 DEF Quiet
      <3>2. \A m \in alive'[a] : thread'[a] = m BY <1>2, <2>1 DEF Governed
      <3>q. QED BY <1>1, <1>2, <2>1, <3>1, <3>2, CaptureGoverns
    <2>3. CASE b # a
      <3>1. cap'[a] = cap[a] BY <1>0, <2>1, <2>3 DEF TypeOK
      <3>q. QED BY <1>3, <2>1, <3>1
    <2>q. QED BY <2>2, <2>3
  <1>q. QED BY <1>4, <1>5, <1>6, <1>7, <1>8 DEF Capture

LEMMA NextInv == Inv /\ [Next]_vars => Inv'
  <1> SUFFICES ASSUME Inv, [Next]_vars PROVE Inv' OBVIOUS
  <1>1. ASSUME Well', StrictGoverned' PROVE Inv'
    BY <1>1, KindsAreTypes DEF Well, Kinds, Cells, Desk, Paired, TypeOK, Typed, Inv, Commands
  <1>2. CASE Web BY <1>1, <1>2, WebWell, OthersGoverned
  <1>3. CASE Command BY <1>1, <1>3, CommandWell, CommandGoverned
  <1>4. CASE Capture \/ Stream \/ \E a \in Adapters : Thaw(a)
    BY <1>1, <1>4, OthersWell, OthersGoverned
  <1>5. CASE Watchers BY <1>1, <1>5, WatchersWell, WatchersGoverned
  <1>6. CASE \E p \in Procs : Work(p) BY <1>1, <1>6, WorkWell, WorkGoverned
  <1>7. CASE UNCHANGED vars
    <2>1. UNCHANGED <<webVars, regVars, adVars, loopVars, quar, works, at, seen, faults, tangled, revived>>
      BY <1>7 DEF vars, history
    <2>2. UNCHANGED <<row, inbox, asked, reg, made, status, quit, cap, thread, alive, inside>>
      BY <2>1 DEF webVars, regVars, adVars, loopVars
    <2>3. Cells' BY <2>1, CellsKept
    <2>4. Well' BY <2>1, <2>2, <2>3, RestWell
    <2>5. StrictGoverned'
      <3> SUFFICES ASSUME NEW a \in Adapters, a \notin tangled' PROVE Governed(a)'
        BY DEF StrictGoverned, Strict
      <3>1. Governed(a) BY <2>1 DEF Inv, StrictGoverned, Strict
      <3>2. Removed(a)' => Removed(a) BY <2>1, <2>2 DEF Removed
      <3>q. QED BY <2>1, <2>2, <3>1, <3>2, Undisturbed
    <2>q. QED BY <1>1, <2>4, <2>5
  <1>q. QED BY <1>2, <1>3, <1>4, <1>5, <1>6, <1>7 DEF Next

LEMMA Invariance == Spec => []Inv
  BY InitInv, NextInv, PTL DEF Spec

\* Adapters, threads and registry keep their types: a name is never registered for
\* an adapter that no request has made.
THEOREM TypeCorrect == Spec => []TypeOK
  <1>1. Inv => TypeOK BY DEF Inv
  <1>q. QED BY <1>1, Invariance, PTL

\* stop() and start() leave an adapter one capture loop at most (_capture_loop), whatever
\* the order of buttons, restarts and stream failures, removed or not, unless two threads
\* handled it at once or a join of its thread ran out of time.
THEOREM OneLoopEach == Spec => []OneLoop
  <1>1. Inv => OneLoop
    <2> SUFFICES ASSUME Inv, NEW a \in Adapters, Strict(a) PROVE Cardinality(alive[a]) <= 1
      BY DEF OneLoop
    <2>1. \A n \in alive[a] : thread[a] = n BY DEF Inv, StrictGoverned, Governed
    <2>2. alive[a] = {} \/ alive[a] = {thread[a]} BY <2>1
    <2>3. Cardinality({}) = 0 /\ Cardinality({thread[a]}) = 1 BY FS_EmptySet, FS_Singleton
    <2>4. Cardinality(alive[a]) = 0 \/ Cardinality(alive[a]) = 1 BY <2>2, <2>3
    <2>q. QED BY <2>4
  <1>q. QED BY <1>1, Invariance, PTL

\* An adapter that source_delete or a second source_add took out of the registry is
\* silent once its stop is over, although its capture loop may relaunch a decoder and
\* write RUNNING over the stop's STOPPED meanwhile.  Three cases are left out, and in each
\* the code does fail: two threads handled the adapter at once; a join of its thread ran
\* out of time; a restart that the health monitor had decided on began after the removal.
THEOREM RemovedStaysQuiet == Spec => []RemovedIsQuiet
  <1>1. Inv => RemovedIsQuiet
    BY DEF Inv, StrictGoverned, Governed, Handled, Quiet, Removed, RemovedIsQuiet
  <1>q. QED BY <1>1, Invariance, PTL
=============================================================================
