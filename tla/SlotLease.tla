------------------------------ MODULE SlotLease ------------------------------
(***************************************************************************)
(* What the sink promises about its slots, with no network and no keys: a  *)
(* slot is a lease that a source holds.  It is given only while free and   *)
(* only to a source that asked for it, and it comes back in three ways     *)
(* only: the owner itself left, the owner was silent for a whole Term, or  *)
(* the sink restarted.  Nobody ever takes or ends the lease of another.    *)
(***************************************************************************)
EXTENDS Integers

CONSTANTS Owners,   \* who may hold a lease
          Places,   \* the slots
          Term,     \* the silence after which a lease may be ended
          None      \* the owner of a free slot

VARIABLES phase,    \* "new", "live" or "left": how far each owner got
          owner,    \* the owner of each place, or None
          idle,     \* for how long the owner was not heard, 0 in a free place
          reign     \* how many times all leases were revoked at once

vars == <<phase, owner, idle, reign>>

Init == /\ phase = [o \in Owners |-> "new"]
        /\ owner = [p \in Places |-> None]
        /\ idle = [p \in Places |-> 0]
        /\ reign = 0

Join(o) == /\ phase[o] = "new"
           /\ phase' = [phase EXCEPT ![o] = "live"]
           /\ UNCHANGED <<owner, idle, reign>>

Leave(o) == /\ phase[o] = "live"
            /\ phase' = [phase EXCEPT ![o] = "left"]
            /\ UNCHANGED <<owner, idle, reign>>

(* A request may be delayed past the departure of the one who made it.     *)
Acquire(o, p) == /\ phase[o] # "new"
                 /\ owner[p] = None
                 /\ owner' = [owner EXCEPT ![p] = o]
                 /\ idle' = [idle EXCEPT ![p] = 0]
                 /\ UNCHANGED <<phase, reign>>

Renew(p) == /\ owner[p] # None
            /\ idle' = [idle EXCEPT ![p] = 0]
            /\ UNCHANGED <<phase, owner, reign>>

Free(p) == /\ owner' = [owner EXCEPT ![p] = None]
           /\ idle' = [idle EXCEPT ![p] = 0]
           /\ UNCHANGED <<phase, reign>>

Release(p) == /\ owner[p] # None
              /\ phase[owner[p]] = "left"
              /\ Free(p)

Expire(p) == /\ owner[p] # None
             /\ idle[p] = Term
             /\ Free(p)

(* Never the way to end a single lease: a new reign begins.                *)
Revoke == /\ owner' = [p \in Places |-> None]
          /\ idle' = [p \in Places |-> 0]
          /\ reign' = reign + 1
          /\ UNCHANGED phase

Tick == /\ idle' = [p \in Places |->
                      IF owner[p] # None /\ idle[p] < Term THEN idle[p] + 1
                                                           ELSE idle[p]]
        /\ UNCHANGED <<phase, owner, reign>>

Next == \/ \E o \in Owners : Join(o) \/ Leave(o)
        \/ \E o \in Owners, p \in Places : Acquire(o, p)
        \/ \E p \in Places : Renew(p) \/ Release(p) \/ Expire(p)
        \/ Revoke
        \/ Tick

Spec == Init /\ [][Next]_vars
=============================================================================
