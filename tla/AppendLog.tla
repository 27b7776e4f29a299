----------------------------- MODULE AppendLog -----------------------------
(***************************************************************************)
(* What append_shared_list promises to the agents that share a list file   *)
(* (agents/base_agent.py, "to ensure atomic read-modify-write operations"): *)
(* the list changes only by one entry at a time, and keeps what it has.    *)
(* Every entry is a new one, so the list is described by its entries.      *)
(***************************************************************************)

CONSTANT Items
VARIABLE log

Init == log = {}

Append(x) == x \notin log /\ log' = log \cup {x}

Next == \E x \in Items : Append(x)

Spec == Init /\ [][Next]_log

=============================================================================
