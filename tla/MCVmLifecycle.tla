--------------------------- MODULE MCVmLifecycle ---------------------------
(* TLC instances of VmLifecycle. *)
EXTENDS VmLifecycle, TLC

\* Every id belongs to one and the same app, or each to an app of its own.
SameApp == [i \in Ids |-> CHOOSE s \in Slugs : TRUE]
OwnApp == CHOOSE f \in [Ids -> Slugs] : \A i, j \in Ids : i # j => f[i] # f[j]

Symmetry == Permutations(Handlers) \cup Permutations(Ids)
=============================================================================
