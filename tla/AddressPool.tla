---------------------------- MODULE AddressPool ----------------------------
(***************************************************************************)
(* The IP allocator of the bridge network                                  *)
(* (phpless-manager/internal/network/bridge.go).  Address n stands for     *)
(* 10.0.(n \div 253 + 1).(n % 253 + 2); the code has PoolSize = 254 * 253  *)
(* of them.  Every call runs under Bridge.mu, so each is one action.       *)
(***************************************************************************)
EXTENDS Naturals

CONSTANT PoolSize                  \* addresses before third > 254

ASSUME PoolSizeAssumption == PoolSize \in Nat

Address == 0 .. PoolSize - 1

VARIABLES
  counter,                         \* next address to look at
  used                             \* addresses handed out and not released

poolVars == <<counter, used>>

PoolInit ==
  /\ counter = 0
  /\ used = {}

\* AllocateAddress: the first address from counter on that is not in use.
Allocate(a) ==
  /\ a \in counter .. PoolSize - 1
  /\ a \notin used
  /\ \A b \in counter .. a - 1 : b \in used
  /\ counter' = a + 1
  /\ used' = used \cup {a}

\* Mutant: counter is moved on before the bound is looked at.
ExhaustOver ==
  /\ \A a \in counter .. PoolSize - 1 : a \in used
  /\ counter' = PoolSize + 1
  /\ UNCHANGED used

\* AllocateAddress: "no available addresses"; the loop has used up counter.
Exhaust ==
  /\ \A a \in counter .. PoolSize - 1 : a \in used
  /\ counter' = PoolSize
  /\ UNCHANGED used

\* Mutant: a released address is handed out again.
ReleaseForReuse(a) ==
  /\ used' = used \ {a}
  /\ counter' = IF a < counter THEN a ELSE counter

\* ReleaseAddress: may be called twice, and for an address never handed out.
Release(a) ==
  /\ used' = used \ {a}
  /\ UNCHANGED counter
=============================================================================
