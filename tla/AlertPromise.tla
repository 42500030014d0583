---------------------------- MODULE AlertPromise ----------------------------
(***************************************************************************)
(* What the alert outbox promises about each document the watcher hands it *)
(* (db/_outbox.py: "An unattended watcher must not lose the one document   *)
(* it produced"): once accepted, it is settled, that is delivered or       *)
(* parked, once and for all, and none stays queued for ever.               *)
(***************************************************************************)
CONSTANT Documents

VARIABLE status   \* status[d]: "new", "queued", "delivered" or "parked"

Init == status = [d \in Documents |-> "new"]

Become(d, from, to) ==
  /\ status[d] = from
  /\ status' = [status EXCEPT ![d] = to]

Accept(d) == Become(d, "new", "queued")

Settle(d) == Become(d, "queued", "delivered") \/ Become(d, "queued", "parked")

Next == \E d \in Documents : Accept(d) \/ Settle(d)

Spec == Init /\ [][Next]_status /\ \A d \in Documents : WF_status(Settle(d))
=============================================================================
