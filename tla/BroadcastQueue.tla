---------------------------- MODULE BroadcastQueue ----------------------------
(***************************************************************************)
(* BroadcastQueue: one bounded queue.Queue per subscriber, filled by any   *)
(* number of publishing threads (the capture loop and the EAS injections)  *)
(* and emptied by its subscriber and by clear_subscriber_queue.  The lock  *)
(* covers only the table of subscribers, and each call on a queue.Queue is *)
(* one step: a publisher that finds a queue full drops the oldest chunk    *)
(* and tries again in two steps.                                           *)
(*                                                                         *)
(* A chunk is <<p, k>>, the k-th of publisher p.                           *)
(***************************************************************************)
EXTENDS Naturals, Sequences

CONSTANTS
    Publishers,
    Subscribers,
    MaxSize,     \* max_queue_size
    MaxChunks,   \* bound: chunks of one publisher
    NoOne        \* no subscriber

ASSUME SizesAssumption == MaxSize \in Nat \ {0} /\ MaxChunks \in Nat
ASSUME NoOneAssumption == NoOne \notin Subscribers

VARIABLES
    subscribed,  \* keys of _subscribers
    queue,       \* the subscribers' queues
    sent,        \* chunks each publisher has published, the current one included
    targets,     \* subscribers of its snapshot a publisher has still to serve
    full,        \* the one whose queue it found full
    place,       \* what it does about that: "drop" the oldest, then put "again"
    clearing,    \* queues being cleared
    got          \* history: the last chunk each subscriber took of each publisher

pubVars == <<sent, targets, full, place>>
vars == <<subscribed, queue, pubVars, clearing, got>>

Chunk == Publishers \X (1..MaxChunks)

TypeOK ==
    /\ subscribed \subseteq Subscribers
    /\ queue \in [Subscribers -> Seq(Chunk)]
    /\ \A s \in Subscribers : Len(queue[s]) <= MaxSize
    /\ sent \in [Publishers -> 0..MaxChunks]
    /\ targets \in [Publishers -> SUBSET Subscribers]
    /\ full \in [Publishers -> Subscribers \cup {NoOne}]
    /\ \A p \in Publishers : full[p] \in targets[p] \cup {NoOne}
    /\ place \in [Publishers -> {"drop", "again"}]
    /\ clearing \subseteq Subscribers
    /\ got \in [Subscribers -> [Publishers -> 0..MaxChunks]]

Init ==
    /\ subscribed = {}
    /\ queue = [s \in Subscribers |-> <<>>]
    /\ sent = [p \in Publishers |-> 0]
    /\ targets = [p \in Publishers |-> {}]
    /\ full = [p \in Publishers |-> NoOne]
    /\ place = [p \in Publishers |-> "drop"]
    /\ clearing = {}
    /\ got = [s \in Subscribers |-> [p \in Publishers |-> 0]]

-----------------------------------------------------------------------------
Subscribe(s) ==
    /\ s \notin subscribed
    /\ subscribed' = subscribed \cup {s}
    /\ UNCHANGED <<queue, pubVars, clearing, got>>

\* The queue leaves the table.  Publishers that have it in their snapshot go on
\* filling it, which nobody sees: a later subscription makes a new queue.
Unsubscribe(s) ==
    /\ s \in subscribed
    /\ subscribed' = subscribed \ {s}
    /\ queue' = [queue EXCEPT ![s] = <<>>]
    /\ targets' = [p \in Publishers |-> targets[p] \ {s}]
    /\ full' = [p \in Publishers |-> IF full[p] = s THEN NoOne ELSE full[p]]
    /\ clearing' = clearing \ {s}
    /\ UNCHANGED <<sent, place, got>>

\* publish: the snapshot, under the lock ...
Publish(p) ==
    /\ targets[p] = {} /\ sent[p] < MaxChunks
    /\ sent' = [sent EXCEPT ![p] = @ + 1]
    /\ targets' = [targets EXCEPT ![p] = subscribed]
    /\ UNCHANGED <<subscribed, queue, full, place, clearing, got>>

HasRoomOneMore(s) == Len(queue[s]) <= MaxSize              \* mutant
HasRoom(s) == Len(queue[s]) < MaxSize
ServeFirst(p, s) ==                                        \* mutant
    /\ queue' = [queue EXCEPT ![s] = <<<<p, sent[p]>>>> \o @]
    /\ targets' = [targets EXCEPT ![p] = @ \ {s}]
    /\ full' = [full EXCEPT ![p] = NoOne]
Serve(p, s) ==
    /\ queue' = [queue EXCEPT ![s] = Append(@, <<p, sent[p]>>)]
    /\ targets' = [targets EXCEPT ![p] = @ \ {s}]
    /\ full' = [full EXCEPT ![p] = NoOne]
\* queue.Empty or queue.Full on the second attempt: a warning is logged.
GiveUp(p, s) ==
    /\ targets' = [targets EXCEPT ![p] = @ \ {s}]
    /\ full' = [full EXCEPT ![p] = NoOne]
    /\ UNCHANGED queue

\* ... then put_nowait on each queue in turn ...
PutWaiting(p, s) ==                                        \* mutant
    /\ full[p] = NoOne /\ s \in targets[p]
    /\ HasRoom(s) /\ Serve(p, s)
    /\ UNCHANGED <<place, subscribed, sent, clearing, got>>
Put(p, s) ==
    /\ full[p] = NoOne /\ s \in targets[p]
    /\ \/ HasRoom(s) /\ Serve(p, s) /\ UNCHANGED place
       \/ /\ ~HasRoom(s)
          /\ full' = [full EXCEPT ![p] = s]
          /\ place' = [place EXCEPT ![p] = "drop"]
          /\ UNCHANGED <<queue, targets>>
    /\ UNCHANGED <<subscribed, sent, clearing, got>>

\* ... and when it is full, get_nowait ...
DropOldest(p) ==
    LET s == full[p] IN
    /\ s # NoOne /\ place[p] = "drop"
    /\ \/ queue[s] = <<>> /\ GiveUp(p, s) /\ UNCHANGED place
       \/ /\ queue[s] # <<>>
          /\ queue' = [queue EXCEPT ![s] = Tail(@)]
          /\ place' = [place EXCEPT ![p] = "again"]
          /\ UNCHANGED <<targets, full>>
    /\ UNCHANGED <<subscribed, sent, clearing, got>>

\* ... and put_nowait again.
PutAgain(p) ==
    LET s == full[p] IN
    /\ s # NoOne /\ place[p] = "again"
    /\ \/ HasRoom(s) /\ Serve(p, s)
       \/ ~HasRoom(s) /\ GiveUp(p, s)
    /\ UNCHANGED <<place, subscribed, sent, clearing, got>>

GetNewest(s) ==                                            \* mutant
    /\ s \in subscribed /\ queue[s] # <<>>
    /\ got' = [got EXCEPT ![s][queue[s][Len(queue[s])][1]] = queue[s][Len(queue[s])][2]]
    /\ queue' = [queue EXCEPT ![s] = SubSeq(@, 1, Len(@) - 1)]
    /\ UNCHANGED <<subscribed, pubVars, clearing>>
Get(s) ==
    /\ s \in subscribed /\ queue[s] # <<>>
    /\ got' = [got EXCEPT ![s][Head(queue[s])[1]] = Head(queue[s])[2]]
    /\ queue' = [queue EXCEPT ![s] = Tail(@)]
    /\ UNCHANGED <<subscribed, pubVars, clearing>>

\* clear_subscriber_queue: get_nowait until the queue is found empty.
Clear(s) ==
    /\ s \in subscribed /\ s \notin clearing
    /\ clearing' = clearing \cup {s}
    /\ UNCHANGED <<subscribed, queue, pubVars, got>>
ClearOne(s) ==
    /\ s \in clearing
    /\ \/ queue[s] = <<>> /\ clearing' = clearing \ {s} /\ UNCHANGED queue
       \/ /\ queue[s] # <<>>
          /\ queue' = [queue EXCEPT ![s] = Tail(@)]
          /\ UNCHANGED clearing
    /\ UNCHANGED <<subscribed, pubVars, got>>

Publishing(p) == (\E s \in Subscribers : Put(p, s)) \/ DropOldest(p) \/ PutAgain(p)
Reading(s) == Subscribe(s) \/ Unsubscribe(s) \/ Get(s) \/ Clear(s) \/ ClearOne(s)
Next ==
    \/ \E p \in Publishers : Publish(p) \/ Publishing(p)
    \/ \E s \in Subscribers : Reading(s)

Spec == Init /\ [][Next]_vars

\* A publishing thread goes on with the chunk it has begun; no subscriber has
\* to read anything.
FairSpec == Spec /\ \A p \in Publishers : WF_vars(Publishing(p))

-----------------------------------------------------------------------------
\* Whatever is dropped, cleared or refused, what a subscriber has taken and what
\* waits in its queue is in publishing order for each publisher, without a
\* repeat, and nothing waits that a publisher has yet to put.
Ordered(q) == \A i, j \in 1..Len(q) : i < j /\ q[i][1] = q[j][1] => q[i][2] < q[j][2]
InOrder ==
    \A s \in Subscribers :
        /\ Ordered(queue[s])
        /\ \A i \in 1..Len(queue[s]) :
              LET p == queue[s][i][1] IN
              got[s][p] < queue[s][i][2] /\ queue[s][i][2] <= sent[p]

Fanout == INSTANCE LossyFanout WITH sent <- sent, got <- got
\* The fan-out implements LossyFanout: ordered, without repeats, with gaps.
ImplementsFanout == Fanout!Spec

\* A slow subscriber does not hold up a publisher (class docstring).
PublishEnds == \A p \in Publishers : (targets[p] # {}) ~> (targets[p] = {})
=============================================================================
