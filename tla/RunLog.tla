------------------------------- MODULE RunLog -------------------------------
(***************************************************************************)
(* What tasks.json promises of the paid runs: a run appears, ends at most  *)
(* once, and keeps its end and its cost; no run is forgotten unless the    *)
(* whole file is lost; and never do two runs of the file run.              *)
(***************************************************************************)
CONSTANTS
    Runs,
    Endings,    \* how a run ends
    Costs,
    None        \* the file does not know the run

VARIABLE log

Open(e) == e # None /\ e.status = "running"

Logs == [Runs -> [status : Endings \cup {"running"}, cost : Costs] \cup {None}]
NoLog == [r \in Runs |-> None]

LogInit == log = NoLog

\* One write of the whole file, of however many changes.
Write ==
    /\ log' \in Logs
    /\ \A r \in Runs :
          log[r] # None => /\ log'[r] # None
                           /\ ~Open(log[r]) => log'[r] = log[r]
    /\ \A r, q \in Runs : Open(log'[r]) /\ Open(log'[q]) => r = q

Lose == log' = NoLog

LogNext == Write \/ Lose

LogSpec == LogInit /\ [][LogNext]_log
=============================================================================
