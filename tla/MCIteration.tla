---------------------------- MODULE MCIteration ----------------------------
(* Iteration for TLC. *)
EXTENDS Iteration, TLC

\* What a host can do: all operations on an iterator, and Next and AsArray on
\* what its Map, Select and Reject return.
HostUses ==
  [chain : {<<>>}, op : Operations]
    \cup [chain : {<<link>> : link \in Links}, op : {"next", "asArray"}]

\* All methods of all links, which inside the package are iterators as well.
PackageUses == [chain : {<<>>} \cup {<<k>> : k \in Links} \cup (Links \X Links), op : Operations]

\* Three calls of a host on three elements, and one inside the package on four.
TwoSessions == <<[size |-> 3, uses |-> HostUses, calls |-> 3],
                 [size |-> 4, uses |-> PackageUses, calls |-> 1]>>
=============================================================================
