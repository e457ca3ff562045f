--------------------------- MODULE TurnLeaseProofs ---------------------------
EXTENDS TurnLease, TLAPS

(* The abstract lease keeps unfrozen work leased: Freeze is the only step  *)
(* that withdraws a lease under a worker, and Thaw waits for the workers.  *)
THEOREM LeaseCoversWork == Spec => []WorkIsLeased
  <1> USE DEF WorkIsLeased
  <1>1. Init => WorkIsLeased
    BY DEF Init
  <1>2. WorkIsLeased /\ [Next]_vars => WorkIsLeased'
    <2> SUFFICES ASSUME WorkIsLeased, [Next]_vars
                 PROVE  WorkIsLeased'
      OBVIOUS
    <2>1. ASSUME NEW i \in Items, Take(i)
          PROVE  WorkIsLeased'
      BY <2>1 DEF Take
    <2>2. ASSUME NEW i \in Items, Leave(i)
          PROVE  WorkIsLeased'
      BY <2>2 DEF Leave
    <2>3. ASSUME NEW i \in Items, Freeze(i)
          PROVE  WorkIsLeased'
      BY <2>3 DEF Freeze
    <2>4. ASSUME NEW i \in Items, Thaw(i)
          PROVE  WorkIsLeased'
      BY <2>4 DEF Thaw
    <2>5. CASE StopAll
      BY <2>5 DEF StopAll
    <2>6. CASE UNCHANGED vars
      BY <2>6 DEF vars
    <2> QED
      BY <2>1, <2>2, <2>3, <2>4, <2>5, <2>6 DEF Next
  <1> QED
    BY <1>1, <1>2, PTL DEF Spec
=============================================================================
