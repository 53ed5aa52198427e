----------------------------- MODULE InputDelivery -----------------------------
(***************************************************************************)
(* What the submission protocol promises the user of one session, without  *)
(* locks, threads, rows or events.  An input submitted to the session is   *)
(* delivered to the provider at most once or comes to nothing; whatever    *)
(* the session says about it is true when it is said and stays true; and a *)
(* second input is admitted only when the fate of every earlier one is     *)
(* known.                                                                  *)
(***************************************************************************)
CONSTANT Submissions

VARIABLES
    fate,   \* what became of an input
    told    \* what the session says about it

Fates     == {"new", "pending", "delivered", "dropped"}
Reports   == {"nothing", "unsure", "failed", "delivered"}
Settled   == {"failed", "delivered"}

PromiseTypeOK ==
    /\ fate \in [Submissions -> Fates]
    /\ told \in [Submissions -> Reports]

PromiseInit ==
    /\ fate = [s \in Submissions |-> "new"]
    /\ told = [s \in Submissions |-> "nothing"]

Submit(s) ==
    /\ fate[s] = "new"
    /\ \A t \in Submissions : fate[t] = "new" \/ told[t] \in Settled
    /\ fate' = [fate EXCEPT ![s] = "pending"]
    /\ UNCHANGED told

Deliver(s) ==
    /\ fate[s] = "pending"
    /\ told[s] \notin Settled
    /\ fate' = [fate EXCEPT ![s] = "delivered"]
    /\ UNCHANGED told

Drop(s) ==
    /\ fate[s] = "pending"
    /\ fate' = [fate EXCEPT ![s] = "dropped"]
    /\ UNCHANGED told

\* An input that was not delivered yet is withdrawn and reported as failed.
Fail(s) ==
    /\ fate[s] \in {"pending", "dropped"}
    /\ told[s] = "nothing"
    /\ fate' = [fate EXCEPT ![s] = "dropped"]
    /\ told' = [told EXCEPT ![s] = "failed"]

Doubt(s) ==
    /\ fate[s] # "new"
    /\ told[s] = "nothing"
    /\ told' = [told EXCEPT ![s] = "unsure"]
    /\ UNCHANGED fate

Confirm(s) ==
    /\ fate[s] = "delivered"
    /\ told[s] \notin Settled
    /\ told' = [told EXCEPT ![s] = "delivered"]
    /\ UNCHANGED fate

PromiseNext ==
    \E s \in Submissions :
        Submit(s) \/ Deliver(s) \/ Drop(s) \/ Fail(s) \/ Doubt(s) \/ Confirm(s)

Promise == PromiseInit /\ [][PromiseNext]_<<fate, told>>
===============================================================================
