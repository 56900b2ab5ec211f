------------------------------ MODULE TradeBook ------------------------------
(***************************************************************************)
(* What the engine promises its owner about positions and their journal,   *)
(* without prices, fees, cooldowns or the order of a tick: every position  *)
(* is taken once, there is at most one per (pair, side) and at most        *)
(* MaxOpen in all, the journal shows a position closed before a trade row  *)
(* for it exists, a trade row is written once, and whatever a crash lost   *)
(* is swept from the journal by the next boot.                             *)
(***************************************************************************)
EXTENDS Integers, FiniteSets

CONSTANTS Ids, Keys, MaxOpen, None

VARIABLES used, \* ids ever taken
          held, \* id -> key of the position held, or None
          log,  \* journal state of each id
          rows  \* trade row of each id, or None

vars == <<used, held, log, rows>>

Held == {i \in Ids : held[i] # None}

Init ==
  /\ used = {}
  /\ held = [i \in Ids |-> None]
  /\ log = [i \in Ids |-> "absent"]
  /\ rows = [i \in Ids |-> None]

\* A fresh position on a free key; the journal may miss it.
Take(i, k) ==
  /\ i \notin used
  /\ \A j \in Held : held[j] # k
  /\ Cardinality(Held) < MaxOpen
  /\ used' = used \union {i}
  /\ held' = [held EXCEPT ![i] = k]
  /\ log' \in {log, [log EXCEPT ![i] = "SURFING"]}
  /\ UNCHANGED rows

MarkClosed(i) ==
  /\ i \in Held /\ log[i] = "SURFING"
  /\ log' = [log EXCEPT ![i] = "WAVE_BREAK"]
  /\ UNCHANGED <<used, held, rows>>

\* The row's amount is whatever it is, but it is written only once, and never
\* while the journal shows the position open.
WriteRow(i) ==
  /\ i \in Held /\ log[i] # "SURFING" /\ rows[i] = None
  /\ rows'[i] # None
  /\ rows' = [rows EXCEPT ![i] = rows'[i]]
  /\ UNCHANGED <<used, held, log>>

Release(i) ==
  /\ i \in Held
  /\ held' = [held EXCEPT ![i] = None]
  /\ UNCHANGED <<used, log, rows>>

\* A crash drops every position, and may burn an id that was never taken.
Lose ==
  /\ held' = [i \in Ids |-> None]
  /\ used' = used \/ \E i \in Ids : used' = used \union {i}
  /\ UNCHANGED <<log, rows>>

Sweep ==
  /\ Held = {}
  /\ log' = [i \in Ids |-> IF log[i] = "SURFING" THEN "stale" ELSE log[i]]
  /\ UNCHANGED <<used, held, rows>>

Next ==
  \/ \E i \in Ids : (\E k \in Keys : Take(i, k)) \/ MarkClosed(i) \/ WriteRow(i) \/ Release(i)
  \/ Lose \/ Sweep

Spec == Init /\ [][Next]_vars
===============================================================================
