----------------------------- MODULE LossyFanout -----------------------------
(***************************************************************************)
(* What audio fan-out promises: a subscriber hears the chunks of each      *)
(* publisher in the order they were published and each at most once, with  *)
(* gaps.                                                                   *)
(***************************************************************************)
EXTENDS Naturals

CONSTANTS Publishers, Subscribers

VARIABLES
    sent,   \* chunks each publisher has published
    got     \* the last chunk each subscriber has heard of each publisher

Init ==
    /\ sent = [p \in Publishers |-> 0]
    /\ got = [s \in Subscribers |-> [p \in Publishers |-> 0]]

Publish(p) ==
    /\ sent' = [sent EXCEPT ![p] = @ + 1]
    /\ UNCHANGED got

Hear(s, p, k) ==
    /\ got[s][p] < k /\ k <= sent[p]
    /\ got' = [got EXCEPT ![s][p] = k]
    /\ UNCHANGED sent

Next ==
    \/ \E p \in Publishers : Publish(p)
    \/ \E s \in Subscribers, p \in Publishers : \E k \in 1..sent[p] : Hear(s, p, k)

Spec == Init /\ [][Next]_<<sent, got>>
=============================================================================
