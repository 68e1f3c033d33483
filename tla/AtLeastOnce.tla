----------------------------- MODULE AtLeastOnce -----------------------------
(***************************************************************************)
(* What the outbox promises for each of its events, without rows, claims,  *)
(* processes or retries: it is carried out, perhaps more than once, while  *)
(* it waits; it is called delivered only when it was carried out, and that *)
(* is final; or it is given up, until an operator reopens it.              *)
(***************************************************************************)
CONSTANT Ids

VARIABLES standing,   \* of each event
          done        \* the events carried out at least once

deliveryVars == <<standing, done>>

DeliveryInit ==
    /\ standing = [i \in Ids |-> "absent"]
    /\ done = {}

Move(i, from, to) ==
    /\ standing[i] = from
    /\ standing' = [standing EXCEPT ![i] = to]
    /\ UNCHANGED done

Add(i) == Move(i, "absent", "waiting")

CarryOut(i) ==
    /\ standing[i] = "waiting"
    /\ done' = done \cup {i}
    /\ UNCHANGED standing

Deliver(i) == i \in done /\ Move(i, "waiting", "delivered")

GiveUp(i) == Move(i, "waiting", "given up")

\* An operator reopens all the events that were given up.
Reopen ==
    /\ standing' = [i \in Ids |-> IF standing[i] = "given up"
                                  THEN "waiting" ELSE standing[i]]
    /\ UNCHANGED done

DeliveryNext ==
    \/ \E i \in Ids : Add(i) \/ CarryOut(i) \/ Deliver(i) \/ GiveUp(i)
    \/ Reopen

DeliverySpec == DeliveryInit /\ [][DeliveryNext]_deliveryVars

=============================================================================
