----------------------------- MODULE LogDelivery -----------------------------
(***************************************************************************)
(* What a producer promises for the logs it is given, whatever its queues  *)
(* and threads: a log is accepted once; logs are put into packages with    *)
(* increasing indices; a package is answered, reported at exit or lost     *)
(* once and as a whole; nothing is accepted after the producer has been    *)
(* closed, and unsent data is reported only then.                          *)
(***************************************************************************)
EXTENDS Integers

CONSTANT Logs

VARIABLES fate, package, packages, closed

vars == <<fate, package, packages, closed>>

Init ==
    /\ fate = [l \in Logs |-> "new"]
    /\ package = [l \in Logs |-> 0] /\ packages = 0
    /\ closed = FALSE

Held == {l \in Logs : fate[l] = "held"}

\* G are logs that are held, all those of one package, or logs of none.
Whole(G) == G \subseteq Held /\
    \A a \in G, l \in Logs : package[a] > 0 => (package[l] = package[a] <=> l \in G)

Become(G, f) ==
    /\ fate' = [l \in Logs |-> IF l \in G THEN f ELSE fate[l]]
    /\ UNCHANGED <<package, packages, closed>>

Accept(l) == ~closed /\ fate[l] = "new" /\ Become({l}, "held")

\* A new log is dropped together with those it was put to.
Reject(l, G) == ~closed /\ fate[l] = "new" /\ Whole(G) /\ Become(G \cup {l}, "dropped")

Number(G) ==
    /\ G \subseteq Held /\ \A l \in G : package[l] = 0
    /\ packages' = packages + 1
    /\ package' = [l \in Logs |-> IF l \in G THEN packages + 1 ELSE package[l]]
    /\ UNCHANGED <<fate, closed>>

\* The service takes the package or refuses it for good; it is dropped when a queue is
\* full or it cannot be compressed, leaked when sender_data_queue is full, and reported
\* to the callback when the producer stops.
Answer(G) == Whole(G) /\ \E f \in {"sent", "discarded"} : Become(G, f)
Lose(G) == Whole(G) /\ \E f \in {"dropped", "leaked"} : Become(G, f)
Report(G) == closed /\ Whole(G) /\ Become(G, "buffered")

Close == closed' = TRUE /\ UNCHANGED <<fate, package, packages>>

Next ==
    \/ \E l \in Logs : Accept(l)
    \/ \E G \in SUBSET Logs : \/ \E l \in Logs : Reject(l, G)
                              \/ Number(G) \/ Answer(G) \/ Lose(G) \/ Report(G)
    \/ Close

Spec == Init /\ [][Next]_vars
=============================================================================
