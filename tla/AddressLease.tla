---------------------------- MODULE AddressLease ----------------------------
(***************************************************************************)
(* What the VM manager promises of its addresses, whatever the code does   *)
(* with counters, releases and restarts: a VM gets an address that no      *)
(* other live VM has, and keeps it until it dies.                          *)
(***************************************************************************)
CONSTANTS
  Holder,                          \* everything that may hold an address
  Address,
  NoAddress

VARIABLE lease                     \* [Holder -> Address \cup {NoAddress}]

Init == lease = [h \in Holder |-> NoAddress]

\* A new VM h is given an address nobody holds.
Grant(h, a) ==
  /\ lease[h] = NoAddress
  /\ \A other \in Holder : lease[other] # a
  /\ lease' = [lease EXCEPT ![h] = a]

\* Some VMs die: one of its own accord, all of them with the manager.
Drop(dead) ==
  lease' = [h \in Holder |-> IF h \in dead THEN NoAddress ELSE lease[h]]

Next ==
  \/ \E h \in Holder, a \in Address : Grant(h, a)
  \/ \E dead \in SUBSET Holder : Drop(dead)

Spec == Init /\ [][Next]_lease
=============================================================================
