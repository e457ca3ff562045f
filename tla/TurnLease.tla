------------------------------ MODULE TurnLease ------------------------------
(***************************************************************************)
(* What the board promises about turns, without saying how: a worker works *)
(* on a card only under a durable lease, nobody else can take a leased     *)
(* card, and a lease may be withdrawn under a working worker only by       *)
(* freezing the card first.  A frozen card is thawed when nobody works on  *)
(* it any more.                                                            *)
(***************************************************************************)
CONSTANT Items

VARIABLES
    lease,    \* the items that are durably leased
    worker,   \* the items somebody works on
    frozen    \* the items nobody may take

vars == <<lease, worker, frozen>>

Init ==
    /\ lease = {}
    /\ worker = {}
    /\ frozen = {}

Take(i) ==
    /\ i \notin lease \cup worker \cup frozen
    /\ lease' = lease \cup {i}
    /\ worker' = worker \cup {i}
    /\ UNCHANGED frozen

Leave(i) ==
    /\ i \in worker
    /\ worker' = worker \ {i}
    /\ UNCHANGED <<lease, frozen>>

(* The worker of a frozen card may go on until it is stopped.              *)
Freeze(i) ==
    /\ i \in Items
    /\ lease' = lease \ {i}
    /\ frozen' = frozen \cup {i}
    /\ UNCHANGED worker

(* Everybody stops, and leases may be withdrawn with the work.             *)
StopAll ==
    /\ worker' = {}
    /\ lease' \subseteq lease
    /\ frozen' \in SUBSET Items

Thaw(i) ==
    /\ i \in frozen
    /\ worker = {}
    /\ frozen' = frozen \ {i}
    /\ \/ UNCHANGED lease
       \/ lease' = lease \ {i}
    /\ UNCHANGED worker

Next ==
    \/ \E i \in Items : Take(i) \/ Leave(i) \/ Freeze(i) \/ Thaw(i)
    \/ StopAll

Spec == Init /\ [][Next]_vars

(* What the promise amounts to: work that is not frozen is leased, and     *)
(* work that is leased cannot be taken a second time.                      *)
WorkIsLeased == worker \ frozen \subseteq lease
=============================================================================
