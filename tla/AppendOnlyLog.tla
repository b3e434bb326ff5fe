---------------------------- MODULE AppendOnlyLog -----------------------------
(***************************************************************************)
(* What concurrent writers make of a hash-linked log: entries are added    *)
(* one at a time and stay as they are, and each names an entry that was    *)
(* already there, or the beginning.                                        *)
(***************************************************************************)
CONSTANTS
    Ids,      \* of entries
    Genesis   \* named by an entry that follows none

VARIABLE log       \* entries, by id, each with the id of the entry it names

Init == log = [i \in {} |-> Genesis]

Add(i, named) ==
    /\ i \notin DOMAIN log /\ named \in DOMAIN log \cup {Genesis}
    /\ log' = [j \in DOMAIN log \cup {i} |-> IF j = i THEN named ELSE log[j]]

Next == \E i \in Ids : \E named \in DOMAIN log \cup {Genesis} : Add(i, named)

Spec == Init /\ [][Next]_log
=============================================================================
