-------------------------- MODULE AttemptContract ---------------------------
(***************************************************************************)
(* What verification_attempts promises its readers, whoever writes it: one *)
(* open attempt per (user, requirement), one settlement per attempt, and   *)
(* nothing leaves the table except an attempt that is still open or the    *)
(* whole account.  AttemptLifecycle implements this specification.         *)
(***************************************************************************)
CONSTANTS Attempt, Slot, User, SlotOf, OwnerOf

VARIABLE state

Settled == {"succeeded", "failed", "server_error", "cancelled"}

Init == state = [a \in Attempt |-> "none"]

(* At most one attempt of a slot is open.                                  *)
Open(a) ==
    /\ state[a] = "none"
    /\ \A b \in Attempt : SlotOf[b] = SlotOf[a] => state[b] # "open"
    /\ state' = [state EXCEPT ![a] = "open"]

Settle(a) ==
    /\ state[a] = "open"
    /\ \E o \in Settled : state' = [state EXCEPT ![a] = o]

Withdraw(a) ==
    /\ state[a] = "open"
    /\ state' = [state EXCEPT ![a] = "gone"]

Erase(u) ==
    state' = [a \in Attempt |->
                IF OwnerOf[SlotOf[a]] = u /\ state[a] # "none" THEN "gone"
                                                              ELSE state[a]]

Next ==
    \/ \E a \in Attempt : Open(a) \/ Settle(a) \/ Withdraw(a)
    \/ \E u \in User : Erase(u)

Spec == Init /\ [][Next]_state
=============================================================================
