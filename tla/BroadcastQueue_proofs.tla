------------------------ MODULE BroadcastQueue_proofs ------------------------
(***************************************************************************)
(* For any publishers, subscribers and sizes: the queues keep their bound, *)
(* what is taken and what waits is in publishing order, and the fan-out    *)
(* implements LossyFanout.                                                 *)
(***************************************************************************)
EXTENDS BroadcastQueue, TLAPS

\* A chunk that a publisher has still to put is newer than all its subscriber
\* has of that publisher.
Pending ==
    \A p \in Publishers : \A s \in targets[p] :
        /\ sent[p] # 0 /\ got[s][p] < sent[p]
        /\ \A i \in 1..Len(queue[s]) : queue[s][i][1] = p => queue[s][i][2] < sent[p]
\* Nothing is taken before it is published.
TakenSent == \A s \in Subscribers, p \in Publishers : got[s][p] <= sent[p]
Inv == TypeOK /\ InOrder /\ Pending /\ TakenSent

LEMMA TypeInit == Init => TypeOK
  BY SizesAssumption DEF Init, TypeOK

\* What a step does to a queue: one new chunk at the end, or the oldest gone.
LEMMA AppendChunk ==
    ASSUME NEW q \in Seq(Chunk), NEW c \in Chunk
    PROVE  /\ Append(q, c) \in Seq(Chunk) /\ Len(Append(q, c)) = Len(q) + 1
           /\ \A i \in 1..Len(q) : Append(q, c)[i] = q[i]
           /\ Append(q, c)[Len(q) + 1] = c
  OBVIOUS

LEMMA TailChunk ==
    ASSUME NEW q \in Seq(Chunk), q # <<>>
    PROVE  /\ Tail(q) \in Seq(Chunk) /\ Len(Tail(q)) = Len(q) - 1 /\ Head(q) = q[1] /\ 1 \in 1..Len(q)
           /\ \A i \in 1..Len(Tail(q)) : Tail(q)[i] = q[i + 1] /\ i + 1 \in 1..Len(q)
  OBVIOUS

LEMMA ServeType ==
    ASSUME TypeOK, NEW p \in Publishers, NEW s \in targets[p], sent[p] # 0, HasRoom(s), Serve(p, s),
           UNCHANGED <<subscribed, sent, place, clearing, got>>
    PROVE  TypeOK'
  <1>1. <<p, sent[p]>> \in Chunk BY SizesAssumption DEF TypeOK, Chunk
  <1>2. s \in Subscribers /\ queue[s] \in Seq(Chunk) BY DEF TypeOK
  <1>3. queue' \in [Subscribers -> Seq(Chunk)] /\ \A v \in Subscribers : Len(queue'[v]) <= MaxSize
    BY <1>1, <1>2, AppendChunk, SizesAssumption DEF TypeOK, Serve, HasRoom
  <1>4. targets' \in [Publishers -> SUBSET Subscribers] /\ full' \in [Publishers -> Subscribers \cup {NoOne}]
    BY DEF TypeOK, Serve
  <1>5. \A r \in Publishers : full'[r] \in targets'[r] \cup {NoOne}
    BY DEF TypeOK, Serve
  <1>q. QED BY <1>3, <1>4, <1>5 DEF TypeOK

LEMMA DropType ==
    ASSUME TypeOK, NEW s \in Subscribers, queue[s] # <<>>,
           queue' = [queue EXCEPT ![s] = Tail(@)]
    PROVE  /\ queue' \in [Subscribers -> Seq(Chunk)]
           /\ \A v \in Subscribers : Len(queue'[v]) <= MaxSize
  <1>1. queue[s] \in Seq(Chunk) BY DEF TypeOK
  <1>q. QED BY <1>1, TailChunk, SizesAssumption DEF TypeOK

LEMMA TypeNext == Inv /\ [Next]_vars => TypeOK'
  <1> SUFFICES ASSUME Inv, [Next]_vars PROVE TypeOK' OBVIOUS
  <1> USE DEF pubVars
  <1>t. TypeOK BY DEF Inv
  <1>1. ASSUME NEW p \in Publishers, Publish(p) PROVE TypeOK'
    BY <1>1, <1>t, SizesAssumption DEF Publish, TypeOK
  <1>2. ASSUME NEW p \in Publishers, NEW s \in Subscribers, Put(p, s) PROVE TypeOK'
    <2>1. CASE HasRoom(s) /\ Serve(p, s) /\ UNCHANGED place
      BY <1>2, <2>1, <1>t, ServeType DEF Put, Inv, Pending
    <2>2. CASE ~HasRoom(s)
      <3>1. /\ full' = [full EXCEPT ![p] = s] /\ place' = [place EXCEPT ![p] = "drop"]
            /\ UNCHANGED <<subscribed, queue, targets, sent, clearing, got>>
            /\ s \in targets[p]
        BY <1>2, <2>2 DEF Put
      <3>q. QED BY <3>1, <1>t DEF TypeOK
    <2>3. (HasRoom(s) /\ Serve(p, s) /\ UNCHANGED place) \/ ~HasRoom(s)
      BY <1>2 DEF Put
    <2>q. QED BY <2>1, <2>2, <2>3
  <1>3. ASSUME NEW p \in Publishers, DropOldest(p) PROVE TypeOK'
    <2>1. full[p] \in targets[p] /\ full[p] \in Subscribers
      BY <1>3, <1>t DEF DropOldest, TypeOK
    <2>2. CASE GiveUp(p, full[p]) /\ UNCHANGED place
      BY <1>3, <2>1, <2>2, <1>t DEF DropOldest, GiveUp, TypeOK
    <2>3. CASE queue[full[p]] # <<>>
      BY <1>3, <2>1, <2>3, <1>t, DropType DEF DropOldest, TypeOK
    <2>q. QED BY <1>3, <2>2, <2>3 DEF DropOldest
  <1>4. ASSUME NEW p \in Publishers, PutAgain(p) PROVE TypeOK'
    <2>1. full[p] \in targets[p] /\ full[p] \in Subscribers
      BY <1>4, <1>t DEF PutAgain, TypeOK
    <2>2. CASE HasRoom(full[p]) /\ Serve(p, full[p])
      BY <1>4, <2>1, <2>2, <1>t, ServeType DEF PutAgain, Inv, Pending
    <2>3. CASE GiveUp(p, full[p])
      BY <1>4, <2>1, <2>3, <1>t DEF PutAgain, GiveUp, TypeOK
    <2>q. QED BY <1>4, <2>2, <2>3 DEF PutAgain
  <1>5. ASSUME NEW s \in Subscribers, Subscribe(s) PROVE TypeOK'
    BY <1>5, <1>t DEF Subscribe, TypeOK
  <1>6. ASSUME NEW s \in Subscribers, Unsubscribe(s) PROVE TypeOK'
    <2>1. queue' \in [Subscribers -> Seq(Chunk)] /\ \A v \in Subscribers : Len(queue'[v]) <= MaxSize
      BY <1>6, <1>t, SizesAssumption DEF Unsubscribe, TypeOK
    <2>2. /\ targets' \in [Publishers -> SUBSET Subscribers]
          /\ full' \in [Publishers -> Subscribers \cup {NoOne}]
          /\ \A p \in Publishers : full'[p] \in targets'[p] \cup {NoOne}
      BY <1>6, <1>t DEF Unsubscribe, TypeOK
    <2>q. QED BY <1>6, <1>t, <2>1, <2>2 DEF Unsubscribe, TypeOK
  <1>7. ASSUME NEW s \in Subscribers, Get(s) PROVE TypeOK'
    <2>1. Head(queue[s]) \in Chunk BY <1>7, <1>t, TailChunk DEF Get, TypeOK
    <2>2. got' \in [Subscribers -> [Publishers -> 0..MaxChunks]]
      BY <1>7, <1>t, <2>1, SizesAssumption DEF Get, TypeOK, Chunk
    <2>q. QED BY <1>7, <1>t, <2>2, DropType DEF Get, TypeOK
  <1>8. ASSUME NEW s \in Subscribers, Clear(s) PROVE TypeOK'
    BY <1>8, <1>t DEF Clear, TypeOK
  <1>9. ASSUME NEW s \in Subscribers, ClearOne(s) PROVE TypeOK'
    <2>1. CASE queue[s] = <<>> BY <1>9, <2>1, <1>t DEF ClearOne, TypeOK
    <2>2. CASE queue[s] # <<>> BY <1>9, <2>2, <1>t, DropType DEF ClearOne, TypeOK
    <2>q. QED BY <2>1, <2>2
  <1>10. CASE UNCHANGED vars BY <1>10, <1>t DEF vars, TypeOK
  <1>q. QED
    BY <1>1, <1>2, <1>3, <1>4, <1>5, <1>6, <1>7, <1>8, <1>9, <1>10 DEF Next, Publishing, Reading

-----------------------------------------------------------------------------
LEMMA ChunkParts ==
    ASSUME TypeOK, NEW v \in Subscribers, NEW i \in 1..Len(queue[v])
    PROVE  queue[v][i][1] \in Publishers /\ queue[v][i][2] \in Nat
  <1>1. queue[v] \in Seq(Chunk) BY DEF TypeOK
  <1>2. queue[v][i] \in Chunk BY <1>1
  <1>q. QED BY <1>2, SizesAssumption DEF Chunk

\* InOrder, one queue at a time.
LEMMA InOrderParts ==
    ASSUME \A v \in Subscribers : Ordered(queue'[v]),
           \A v \in Subscribers : \A i \in 1..Len(queue'[v]) :
              /\ got'[v][queue'[v][i][1]] < queue'[v][i][2]
              /\ queue'[v][i][2] <= sent'[queue'[v][i][1]]
    PROVE  InOrder'
  BY DEF InOrder, Ordered

Order == InOrder /\ Pending /\ TakenSent

\* A publisher's new chunk is newer than what it finds in the queue.
LEMMA ServeOrder ==
    ASSUME Inv, NEW p \in Publishers, NEW s \in targets[p], Serve(p, s), UNCHANGED <<sent, got>>
    PROVE  Order'
  <1>t. TypeOK /\ s \in Subscribers /\ queue[s] \in Seq(Chunk) BY DEF Inv, TypeOK
  <1>c. <<p, sent[p]>> \in Chunk BY SizesAssumption DEF Inv, Pending, TypeOK, Chunk
  <1>1. \A v \in Subscribers \ {s} : queue'[v] = queue[v]
    BY <1>t DEF Serve, TypeOK
  <1>2. queue'[s] = Append(queue[s], <<p, sent[p]>>)
    BY <1>t DEF Serve, TypeOK
  <1>3. /\ Len(queue'[s]) = Len(queue[s]) + 1
        /\ \A i \in 1..Len(queue[s]) : queue'[s][i] = queue[s][i]
        /\ queue'[s][Len(queue[s]) + 1] = <<p, sent[p]>>
    BY <1>2, <1>t, <1>c, AppendChunk
  <1>n. Len(queue[s]) \in Nat BY <1>t
  <1>4. Ordered(queue'[s])
    <2> SUFFICES ASSUME NEW i \in 1..Len(queue'[s]), NEW j \in 1..Len(queue'[s]),
                        i < j, queue'[s][i][1] = queue'[s][j][1]
                 PROVE  queue'[s][i][2] < queue'[s][j][2]
      BY DEF Ordered
    <2>1. i \in 1..Len(queue[s]) BY <1>3, <1>n
    <2>2. CASE j \in 1..Len(queue[s])
      BY <2>1, <2>2, <1>3, <1>t DEF Inv, InOrder, Ordered
    <2>3. CASE j = Len(queue[s]) + 1
      <3>1. queue[s][i][1] = p /\ queue'[s][j][2] = sent[p] /\ queue'[s][i] = queue[s][i]
        BY <2>1, <2>3, <1>3
      <3>q. QED BY <3>1, <2>1 DEF Inv, Pending
    <2>q. QED BY <2>2, <2>3, <1>3, <1>n
  <1>5. \A i \in 1..Len(queue'[s]) :
           got[s][queue'[s][i][1]] < queue'[s][i][2] /\ queue'[s][i][2] <= sent[queue'[s][i][1]]
    <2> SUFFICES ASSUME NEW i \in 1..Len(queue'[s])
                 PROVE  got[s][queue'[s][i][1]] < queue'[s][i][2] /\ queue'[s][i][2] <= sent[queue'[s][i][1]]
      OBVIOUS
    <2>1. CASE i \in 1..Len(queue[s]) BY <2>1, <1>3, <1>t DEF Inv, InOrder
    <2>2. CASE i = Len(queue[s]) + 1
      <3>1. queue'[s][i][1] = p /\ queue'[s][i][2] = sent[p] BY <2>2, <1>3
      <3>2. got[s][p] < sent[p] BY DEF Inv, Pending
      <3>q. QED BY <3>1, <3>2, <1>t DEF TypeOK
    <2>q. QED BY <2>1, <2>2, <1>3, <1>n
  <1>6. InOrder'
    BY <1>1, <1>4, <1>5 DEF Inv, InOrder, Ordered
  <1>7. Pending'
    <2> SUFFICES ASSUME NEW r \in Publishers, NEW v \in targets'[r]
                 PROVE  /\ sent[r] # 0 /\ got[v][r] < sent[r]
                        /\ \A i \in 1..Len(queue'[v]) : queue'[v][i][1] = r => queue'[v][i][2] < sent[r]
      BY DEF Pending
    <2>1. v \in targets[r] /\ v \in Subscribers /\ (r = p => v # s)
      BY <1>t DEF Serve, TypeOK
    <2>2. CASE v # s BY <2>1, <2>2, <1>1 DEF Inv, Pending
    <2>3. CASE v = s
      <3>1. r # p BY <2>1, <2>3
      <3>2. ASSUME NEW i \in 1..Len(queue'[s]), queue'[s][i][1] = r PROVE queue'[s][i][2] < sent[r]
        <4>1. i \in 1..Len(queue[s]) BY <3>1, <3>2, <1>3, <1>n
        <4>q. QED BY <4>1, <3>2, <2>1, <2>3, <1>3 DEF Inv, Pending
      <3>q. QED BY <3>2, <2>1, <2>3 DEF Inv, Pending
    <2>q. QED BY <2>2, <2>3
  <1>q. QED BY <1>6, <1>7 DEF Order, Inv, TakenSent

\* Taking the oldest away leaves an ordered queue, and one newer than it.
LEMMA DropOrder ==
    ASSUME Inv, NEW s \in Subscribers, queue[s] # <<>>, queue' = [queue EXCEPT ![s] = Tail(@)],
           sent' = sent, \A r \in Publishers : targets'[r] \subseteq targets[r],
           \/ got' = got
           \/ got' = [got EXCEPT ![s][Head(queue[s])[1]] = Head(queue[s])[2]]
    PROVE  Order'
  <1>t. TypeOK /\ queue[s] \in Seq(Chunk) BY DEF Inv, TypeOK
  <1>1. \A v \in Subscribers \ {s} : queue'[v] = queue[v]
    BY <1>t DEF TypeOK
  <1>2. queue'[s] = Tail(queue[s])
    BY <1>t DEF TypeOK
  <1>3. /\ Len(queue'[s]) = Len(queue[s]) - 1 /\ Head(queue[s]) = queue[s][1] /\ 1 \in 1..Len(queue[s])
        /\ \A i \in 1..Len(queue'[s]) : queue'[s][i] = queue[s][i + 1] /\ i + 1 \in 1..Len(queue[s])
    BY <1>2, <1>t, TailChunk
  <1>h. queue[s][1] \in Chunk /\ queue[s][1][1] \in Publishers
    BY <1>3, <1>t DEF Chunk
  <1>g. \A v \in Subscribers, r \in Publishers :
           \/ got'[v][r] = got[v][r]
           \/ v = s /\ r = queue[s][1][1] /\ got'[v][r] = queue[s][1][2]
    <2>1. CASE got' = got BY <2>1
    <2>2. CASE got' = [got EXCEPT ![s][queue[s][1][1]] = queue[s][1][2]]
      BY <2>2, <1>h, <1>t DEF TypeOK
    <2>q. QED BY <2>1, <2>2, <1>3
  <1>n. \A v \in Subscribers : \A i \in 1..Len(queue[v]) : queue[v][i][1] \in Publishers
    BY <1>t, ChunkParts
  <1>4. Ordered(queue'[s])
    <2> SUFFICES ASSUME NEW i \in 1..Len(queue'[s]), NEW j \in 1..Len(queue'[s]),
                        i < j, queue'[s][i][1] = queue'[s][j][1]
                 PROVE  queue'[s][i][2] < queue'[s][j][2]
      BY DEF Ordered
    <2>q. QED BY <1>3 DEF Inv, InOrder, Ordered
  <1>5. ASSUME NEW v \in Subscribers, NEW i \in 1..Len(queue'[v])
        PROVE  /\ got'[v][queue'[v][i][1]] < queue'[v][i][2]
               /\ queue'[v][i][2] <= sent[queue'[v][i][1]]
    <2>1. CASE v # s
      BY <2>1, <1>5, <1>1, <1>g, <1>n DEF Inv, InOrder
    <2>2. CASE v = s
      <3>1. queue'[s][i] = queue[s][i + 1] /\ i + 1 \in 1..Len(queue[s]) /\ 1 < i + 1
        BY <2>2, <1>5, <1>3
      <3>2. queue[s][1][1] = queue[s][i + 1][1] => queue[s][1][2] < queue[s][i + 1][2]
        BY <3>1, <1>3 DEF Inv, InOrder, Ordered
      <3>3. /\ got[s][queue[s][i + 1][1]] < queue[s][i + 1][2]
            /\ queue[s][i + 1][2] <= sent[queue[s][i + 1][1]]
        BY <3>1 DEF Inv, InOrder
      <3>q. QED BY <2>2, <3>1, <3>2, <3>3, <1>g, <1>n
    <2>q. QED BY <2>1, <2>2
  <1>6. InOrder'
    <2>1. \A v \in Subscribers : Ordered(queue'[v])
      BY <1>1, <1>4 DEF Inv, InOrder
    <2>q. QED BY <2>1, <1>5, InOrderParts
  <1>7. Pending'
    <2> SUFFICES ASSUME NEW r \in Publishers, NEW v \in targets'[r]
                 PROVE  /\ sent[r] # 0 /\ got'[v][r] < sent[r]
                        /\ \A i \in 1..Len(queue'[v]) : queue'[v][i][1] = r => queue'[v][i][2] < sent[r]
      BY DEF Pending
    <2>1. v \in targets[r] /\ v \in Subscribers BY <1>t DEF TypeOK
    <2>2. got'[v][r] < sent[r]
      BY <2>1, <1>g, <1>3 DEF Inv, Pending
    <2>3. \A i \in 1..Len(queue'[v]) : queue'[v][i][1] = r => queue'[v][i][2] < sent[r]
      <3>1. CASE v # s BY <3>1, <2>1, <1>1 DEF Inv, Pending
      <3>2. CASE v = s BY <3>2, <2>1, <1>3 DEF Inv, Pending
      <3>q. QED BY <3>1, <3>2
    <2>q. QED BY <2>1, <2>2, <2>3 DEF Inv, Pending
  <1>8. TakenSent'
    BY <1>g, <1>3 DEF Inv, TakenSent, InOrder
  <1>q. QED BY <1>6, <1>7, <1>8 DEF Order

\* Steps that leave the queues alone and promise nothing new.
LEMMA RestOrder ==
    ASSUME Inv, UNCHANGED <<queue, sent, got>>, \A r \in Publishers : targets'[r] \subseteq targets[r]
    PROVE  Order'
  BY DEF Inv, Order, InOrder, Ordered, Pending, TakenSent

LEMMA PublishOrder ==
    ASSUME Inv, NEW p \in Publishers, Publish(p)
    PROVE  Order'
  <1>t. TypeOK BY DEF Inv
  <1>1. /\ sent'[p] = sent[p] + 1 /\ \A r \in Publishers \ {p} : sent'[r] = sent[r] /\ targets'[r] = targets[r]
        /\ queue' = queue /\ got' = got /\ sent[p] \in Nat
    BY <1>t, SizesAssumption DEF Publish, TypeOK
  <1>2. \A r \in Publishers : sent[r] \in Nat /\ sent[r] <= sent'[r]
    <2> TAKE r \in Publishers
    <2>1. sent[r] \in Nat BY <1>t, SizesAssumption DEF TypeOK
    <2>q. QED BY <2>1, <1>1
  <1>n. \A v \in Subscribers : \A i \in 1..Len(queue[v]) :
           queue[v][i][1] \in Publishers /\ queue[v][i][2] \in Nat
    BY <1>t, ChunkParts
  <1>3. InOrder'
    <2>1. \A v \in Subscribers : Ordered(queue'[v])
      BY <1>1 DEF Inv, InOrder
    <2>2. ASSUME NEW v \in Subscribers, NEW i \in 1..Len(queue[v])
          PROVE  got[v][queue[v][i][1]] < queue[v][i][2] /\ queue[v][i][2] <= sent'[queue[v][i][1]]
      <3>1. got[v][queue[v][i][1]] < queue[v][i][2] /\ queue[v][i][2] <= sent[queue[v][i][1]]
        BY DEF Inv, InOrder
      <3>2. /\ sent[queue[v][i][1]] \in Nat /\ sent'[queue[v][i][1]] \in Nat
            /\ sent[queue[v][i][1]] <= sent'[queue[v][i][1]]
        BY <1>n, <1>2, <1>1
      <3>q. QED BY <3>1, <3>2, <1>n
    <2>q. QED BY <2>1, <2>2, <1>1, InOrderParts
  <1>4. Pending'
    <2> SUFFICES ASSUME NEW r \in Publishers, NEW v \in targets'[r]
                 PROVE  /\ sent'[r] # 0 /\ got[v][r] < sent'[r]
                        /\ \A i \in 1..Len(queue[v]) : queue[v][i][1] = r => queue[v][i][2] < sent'[r]
      BY <1>1 DEF Pending
    <2>1. CASE r # p BY <2>1, <1>1 DEF Inv, Pending
    <2>2. CASE r = p
      <3>1. v \in Subscribers BY <2>2, <1>t DEF Publish, TypeOK
      <3>2. got[v][p] \in Nat /\ got[v][p] <= sent[p]
        BY <3>1, <1>t DEF TypeOK, Inv, TakenSent
      <3>3. \A i \in 1..Len(queue[v]) : queue[v][i][1] = p => queue[v][i][2] <= sent[p]
        BY <3>1 DEF Inv, InOrder
      <3>q. QED BY <2>2, <3>1, <3>2, <3>3, <1>1, <1>n
    <2>q. QED BY <2>1, <2>2
  <1>5. TakenSent'
    <2> SUFFICES ASSUME NEW v \in Subscribers, NEW r \in Publishers PROVE got[v][r] <= sent'[r]
      BY <1>1 DEF TakenSent
    <2>1. got[v][r] \in Nat BY <1>t, SizesAssumption DEF TypeOK
    <2>2. got[v][r] <= sent[r] BY DEF Inv, TakenSent
    <2>3. sent[r] \in Nat /\ sent'[r] \in Nat /\ sent[r] <= sent'[r] BY <1>1, <1>2
    <2>q. QED BY <2>1, <2>2, <2>3
  <1>q. QED BY <1>3, <1>4, <1>5 DEF Order

LEMMA OrderNext == Inv /\ [Next]_vars => Order'
  <1> SUFFICES ASSUME Inv, [Next]_vars PROVE Order' OBVIOUS
  <1> USE DEF pubVars
  <1>t. TypeOK BY DEF Inv
  <1>0. ASSUME NEW p \in Publishers, NEW s \in targets[p], GiveUp(p, s), UNCHANGED <<sent, got>>
        PROVE  Order'
    BY <1>0, <1>t, RestOrder DEF GiveUp, TypeOK
  <1>2. ASSUME NEW p \in Publishers, NEW s \in Subscribers, Put(p, s) PROVE Order'
    <2>1. CASE Serve(p, s)
      <3>1. s \in targets[p] /\ UNCHANGED <<sent, got>> BY <1>2 DEF Put
      <3>q. QED BY <3>1, <2>1, ServeOrder
    <2>2. CASE UNCHANGED <<queue, targets>> BY <1>2, <2>2, RestOrder DEF Put
    <2>q. QED BY <1>2, <2>1, <2>2 DEF Put
  <1>3. ASSUME NEW p \in Publishers, DropOldest(p) PROVE Order'
    <2>1. full[p] \in targets[p] /\ full[p] \in Subscribers
      BY <1>3, <1>t DEF DropOldest, TypeOK
    <2>2. CASE GiveUp(p, full[p]) BY <1>3, <2>1, <2>2, <1>0 DEF DropOldest
    <2>3. CASE queue[full[p]] # <<>> /\ queue' = [queue EXCEPT ![full[p]] = Tail(@)] /\ targets' = targets
      BY <1>3, <2>1, <2>3, DropOrder DEF DropOldest
    <2>q. QED BY <1>3, <2>2, <2>3 DEF DropOldest
  <1>4. ASSUME NEW p \in Publishers, PutAgain(p) PROVE Order'
    <2>1. full[p] \in targets[p] /\ full[p] \in Subscribers
      BY <1>4, <1>t DEF PutAgain, TypeOK
    <2>2. CASE Serve(p, full[p]) BY <1>4, <2>1, <2>2, ServeOrder DEF PutAgain
    <2>3. CASE GiveUp(p, full[p]) BY <1>4, <2>1, <2>3, <1>0 DEF PutAgain
    <2>q. QED BY <1>4, <2>2, <2>3 DEF PutAgain
  <1>6. ASSUME NEW s \in Subscribers, Unsubscribe(s) PROVE Order'
    <2>1. /\ queue'[s] = <<>> /\ \A v \in Subscribers \ {s} : queue'[v] = queue[v]
          /\ got' = got /\ sent' = sent
          /\ \A p \in Publishers : targets'[p] = targets[p] \ {s}
      BY <1>6, <1>t DEF Unsubscribe, TypeOK
    <2>2. InOrder'
      <3>1. \A v \in Subscribers : Ordered(queue'[v])
        BY <2>1 DEF Inv, InOrder, Ordered
      <3>2. ASSUME NEW v \in Subscribers, NEW i \in 1..Len(queue'[v])
            PROVE  /\ got[v][queue'[v][i][1]] < queue'[v][i][2]
                   /\ queue'[v][i][2] <= sent[queue'[v][i][1]]
        <4>1. v # s BY <2>1, <3>2
        <4>q. QED BY <4>1, <2>1, <3>2 DEF Inv, InOrder
      <3>q. QED BY <3>1, <3>2, <2>1, InOrderParts
    <2>3. Pending' BY <2>1, <1>t DEF Inv, Pending, TypeOK
    <2>4. TakenSent' BY <2>1 DEF Inv, TakenSent
    <2>q. QED BY <2>2, <2>3, <2>4 DEF Order
  <1>7. ASSUME NEW s \in Subscribers, Get(s) PROVE Order'
    BY <1>7, DropOrder DEF Get
  <1>9. ASSUME NEW s \in Subscribers, ClearOne(s) PROVE Order'
    BY <1>9, RestOrder, DropOrder DEF ClearOne
  <1>10. ASSUME NEW s \in Subscribers, Subscribe(s) \/ Clear(s) PROVE Order'
    BY <1>10, RestOrder DEF Subscribe, Clear
  <1>11. CASE UNCHANGED vars BY <1>11, RestOrder DEF vars
  <1>q. QED
    BY PublishOrder, <1>2, <1>3, <1>4, <1>6, <1>7, <1>9, <1>10, <1>11 DEF Next, Publishing, Reading

LEMMA Invariance == Spec => []Inv
  <1>1. Init => Inv
    BY TypeInit, SizesAssumption DEF Init, Inv, InOrder, Ordered, Pending, TakenSent
  <1>2. Inv /\ [Next]_vars => Inv' BY TypeNext, OrderNext DEF Inv, Order
  <1>q. QED BY <1>1, <1>2, PTL DEF Spec

\* The queues keep their bound (BroadcastQueue.__init__, max_queue_size), and
\* every publisher's place in its snapshot is consistent.
THEOREM TypeCorrect == Spec => []TypeOK
  <1>1. Inv => TypeOK BY DEF Inv
  <1>q. QED BY <1>1, Invariance, PTL

\* What waits is in publishing order and newer than what was taken, whatever
\* overflows, clears and refused puts occur (publish, clear_subscriber_queue).
THEOREM OrderKept == Spec => []InOrder
  <1>1. Inv => InOrder BY DEF Inv
  <1>q. QED BY <1>1, Invariance, PTL

-----------------------------------------------------------------------------
\* A Get is a Hear of the abstract fan-out: what is at the head is newer than
\* all its subscriber has taken of that publisher.
LEMMA GetHears ==
    ASSUME Inv, NEW s \in Subscribers, Get(s)
    PROVE  \E p \in Publishers : \E k \in 1..sent[p] : Fanout!Hear(s, p, k)
  <1> DEFINE p == Head(queue[s])[1]
             k == Head(queue[s])[2]
  <1>1. Head(queue[s]) = queue[s][1] /\ 1 \in 1..Len(queue[s])
    BY TailChunk DEF Get, Inv, TypeOK
  <1>2. p \in Publishers /\ k \in Nat BY <1>1, ChunkParts DEF Inv
  <1>3. got[s][p] < k /\ k <= sent[p] BY <1>1 DEF Inv, InOrder
  <1>4. got[s][p] \in Nat /\ sent[p] \in Nat BY <1>2, SizesAssumption DEF Inv, TypeOK
  <1>5. k \in 1..sent[p] BY <1>2, <1>3, <1>4
  <1>6. Fanout!Hear(s, p, k) BY <1>3 DEF Get, Fanout!Hear, pubVars
  <1>q. QED BY <1>2, <1>5, <1>6

LEMMA StepImplements == Inv /\ [Next]_vars => [Fanout!Next]_<<sent, got>>
  <1> SUFFICES ASSUME Inv, [Next]_vars PROVE Fanout!Next \/ UNCHANGED <<sent, got>> OBVIOUS
  <1> USE DEF pubVars
  <1>1. ASSUME NEW p \in Publishers, Publish(p) PROVE Fanout!Next
    BY <1>1 DEF Publish, Fanout!Next, Fanout!Publish
  <1>2. ASSUME NEW p \in Publishers, Publishing(p) PROVE UNCHANGED <<sent, got>>
    BY <1>2 DEF Publishing, Put, DropOldest, PutAgain
  <1>3. ASSUME NEW s \in Subscribers, Get(s) PROVE Fanout!Next
    BY <1>3, GetHears DEF Fanout!Next
  <1>4. ASSUME NEW s \in Subscribers, Subscribe(s) \/ Unsubscribe(s) \/ Clear(s) \/ ClearOne(s)
        PROVE  UNCHANGED <<sent, got>>
    BY <1>4 DEF Subscribe, Unsubscribe, Clear, ClearOne
  <1>5. CASE UNCHANGED vars BY <1>5 DEF vars
  <1>q. QED BY <1>1, <1>2, <1>3, <1>4, <1>5 DEF Next, Reading

\* The fan-out implements LossyFanout: every subscriber hears each publisher in
\* order, each chunk at most once, with gaps.
THEOREM FanoutImplemented == Spec => ImplementsFanout
  <1>1. Init => Fanout!Init BY DEF Init, Fanout!Init
  <1>q. QED BY <1>1, StepImplements, Invariance, PTL DEF Spec, ImplementsFanout, Fanout!Spec
=============================================================================
