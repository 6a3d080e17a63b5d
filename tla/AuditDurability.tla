--------------------------- MODULE AuditDurability ---------------------------
(***************************************************************************)
(* What the audit write plane promises of a financial row, and nothing     *)
(* about how: AuditWritePlane implements this specification.  It is the    *)
(* durability contract of the class docstring: a row handed over is never  *)
(* silently dropped, and what has reached the disk outlives the process.   *)
(* The one exception is written into it: rows whose producers draw the     *)
(* same overflow file name are exempt, before any of them is accepted.     *)
(***************************************************************************)
CONSTANT Row
VARIABLE fate

\* Not handed over; in the memory of the process; in an overflow file; in the
\* ledger; dead-lettered with and without its args; logged as unrecoverable;
\* gone with a process; exempt.
Fates == {"absent", "pending", "spilled", "durable", "dead", "husk", "lost", "died", "exempt"}

Init == fate = [r \in Row |-> "absent"]

\* Row r alone goes from one of the fates in Old to one of those in New.
Moves(r, Old, New) ==
    /\ fate[r] \in Old /\ fate'[r] \in New
    /\ \A s \in Row \ {r} : fate'[s] = fate[s]

\* Some rows, at least one, go from fate old to fate new together.
MoveTogether(old, new) ==
    /\ \E r \in Row : fate'[r] # fate[r]
    /\ \A r \in Row : fate'[r] # fate[r] => fate[r] = old /\ fate'[r] = new

\* enqueue_financial returns.
Accept(r) == Moves(r, {"absent"}, {"pending", "spilled", "dead", "husk", "lost"})

\* Two or more producers draw one overflow file name.
Collide == MoveTogether("absent", "exempt")

\* A transaction commits.
Commit == MoveTogether("pending", "durable")

\* One row in memory is refused by the database.
Reject(r) == Moves(r, {"pending"}, {"dead", "lost"})

\* An overflow file is gone: its row was replayed or rejected.
Recover(r) == Moves(r, {"spilled"}, {"durable", "husk", "lost"})

\* The process ends: exactly the rows in memory die.
Die == \A r \in Row : fate'[r] = IF fate[r] = "pending" THEN "died" ELSE fate[r]

Next ==
    /\ fate' \in [Row -> Fates]
    /\ \/ \E r \in Row : Accept(r) \/ Reject(r) \/ Recover(r)
       \/ Commit \/ Collide \/ Die

\* A step that a producer or an operator could tell from none.
Step == fate' # fate /\ Next

Spec == Init /\ [][Step]_fate
=============================================================================
