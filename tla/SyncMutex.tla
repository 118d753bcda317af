------------------------------ MODULE SyncMutex ------------------------------
(***************************************************************************)
(* What the sync lock of an exchange account promises its callers: at any  *)
(* time the account is free, or one sync run holds it, or a run that died  *)
(* has left it behind; an abandoned account becomes free again by itself.  *)
(* It is a lease: a holder that stays too long loses the account, which is *)
(* then shared by whoever comes until all of them are gone. SyncLock       *)
(* implements this with a Redis key that has a time to live.               *)
(***************************************************************************)
CONSTANTS
    Runs,        \* the processes that may run SyncService.run
    Free,        \* nobody syncs and a new run may enter
    Abandoned,   \* a run died inside and nobody has taken its place
    Shared       \* a holder overran its lease and others may be inside too

VARIABLE holder

TypeOK == holder \in Runs \cup {Free, Abandoned, Shared}

Init == holder = Free

Enter(r) == holder = Free /\ holder' = r

Leave(r) == holder = r /\ holder' = Free

Abandon(r) == holder = r /\ holder' = Abandoned

Recover == holder = Abandoned /\ holder' = Free

Overrun(r) == holder = r /\ holder' = Shared

Heal == holder = Shared /\ holder' \in {Free, Abandoned}

Next ==
    \/ Recover
    \/ Heal
    \/ \E r \in Runs : Enter(r) \/ Leave(r) \/ Abandon(r) \/ Overrun(r)

(* A holder does not hold for ever, and what it leaves behind becomes free *)
(* by itself. Nothing promises that a shared account heals: each run that  *)
(* leaves may delete the next one's key and let a further run in.          *)
Fairness ==
    /\ WF_holder(Recover)
    /\ \A r \in Runs : WF_holder(Leave(r) \/ Abandon(r) \/ Overrun(r))

SafeSpec == Init /\ [][Next]_holder
Spec == SafeSpec /\ Fairness
=============================================================================
