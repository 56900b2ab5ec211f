----------------------------- MODULE ResearchLedger -----------------------------
(***************************************************************************)
(* The agentic database between the engine that writes it and the people   *)
(* and agents who evaluate and promote runs (storage/agentic.py,           *)
(* evaluation/cli.py, the telemetry of engine/runtime.py, __main__.py).    *)
(*                                                                         *)
(* The engine and every caller of the command line have a connection of    *)
(* their own.  A read sees the last commit; three reads of a report are    *)
(* three snapshots.  A write needs SQLite's write lock and holds it until  *)
(* its commit.  Every write is committed at once, except the count of a    *)
(* rejection: it stays in the engine's open transaction, with the lock,    *)
(* until a trade or a heartbeat commits.  A tick is two steps here, the    *)
(* admission and the management of the open waves.                         *)
(***************************************************************************)
EXTENDS EvaluationLayers

CONSTANTS
  Runs,      \* bound: engine starts, 1..n
  Linked,    \* runs started for an iteration (settings.iteration_id)
  Balances,  \* balances a run may start with
  Results,   \* [pair, net] of the trades a run may close
  MaxTicks,  \* bound: ticks handled in each run
  Callers,   \* processes that run the command line
  MaxCalls,  \* bound: calls of the command line
  MayKill, MayStop, MayFailDb \* what the environment does in this run

ASSUME RunAssumption == Linked \subseteq Runs /\ Runs \subseteq Nat \ {0}
ASSUME BoundAssumption ==
  /\ MaxTicks \in [Runs -> Nat] /\ MaxCalls \in Nat /\ Balances \subseteq Int
  /\ \A t \in Results : t.net \in Int
  /\ {MayKill, MayStop, MayFailDb} \subseteq BOOLEAN

VARIABLES
  pc,        \* the engine: "down", "booting", "idle", "managing"
  run,       \* its run id; 0 before the first start
  counters,  \* state.ticks, opens, closes of the process
  stopped,   \* state.stop_requested
  pending,   \* rejections in the engine's open transaction, per gate
  rows,      \* runs: the committed row of each run
  trades,    \* trades of each run, in closing order
  rejected,  \* gate_rejections: committed count per run and gate
  evals,     \* evaluations: <<run, layer, verdict>>
  decisions, \* decisions: run, action and, for the record, the report
  iteration, \* status of the iteration under test
  cli,       \* what each caller is doing
  calls,     \* calls made so far
  missed,    \* history: trades of each run the database refused
  uncounted  \* history: ticks of each run that no gate rejected, or whose
             \* rejection the database refused

engine == <<pc, run, counters, stopped, pending>>
records == <<rows, trades, rejected>>
verdicts == <<evals, decisions, iteration>>
history == <<missed, uncounted>>
vars == <<engine, records, verdicts, cli, calls, history>>

Layers == 0..5
Trade == [pair : {r.pair : r \in Results}, net : {r.net : r \in Results},
          fee : {1}, notional : {1}, gross : Int]
Row == [status : {"absent", "running", "completed", "halted", "crashed"},
        ticks : Nat, opens : Nat, closes : Nat, hours : {0}, start : Int]
Report == {<<>>} \union [{0} -> Verdicts] \union [Layers -> Verdicts]
CallState == [step : {"reading", "recording", "deciding", "settling"}, next : Layers,
              command : {"report", "promote"}, run : Runs, row : Row,
              trades : Seq(Trade), report : Report]
NoneOf == [g \in Gates |-> 0]
Zero == [ticks |-> 0, opens |-> 0, closes |-> 0]
NoRow == [status |-> "absent", ticks |-> 0, opens |-> 0, closes |-> 0, hours |-> 0,
          start |-> 0]
Idle == [step |-> "idle"]

\* The engine's transaction is open: nobody else can write.
EngineHoldsLock == \E g \in Gates : pending[g] > 0

Init ==
  /\ pc = "down" /\ run = 0 /\ counters = Zero /\ stopped = FALSE /\ pending = NoneOf
  /\ rows = [r \in Runs |-> NoRow]
  /\ trades = [r \in Runs |-> <<>>]
  /\ rejected = [r \in Runs |-> NoneOf]
  /\ evals = {} /\ decisions = {} /\ iteration = "proposed"
  /\ cli = [c \in Callers |-> Idle] /\ calls = 0
  /\ missed = [r \in Runs |-> 0] /\ uncounted = [r \in Runs |-> 0]

-----------------------------------------------------------------------------
(* The engine.                                                              *)

\* build_engine records the start of a run before it trades.
StartRun(start) ==
  /\ pc = "down" /\ run + 1 \in Runs
  /\ run' = run + 1
  /\ rows' = [rows EXCEPT ![run'] = [NoRow EXCEPT !.status = "running", !.start = start]]
  /\ pc' = "booting"
  /\ UNCHANGED <<counters, stopped, pending, trades, rejected, verdicts, cli, calls, history>>

\* engine.run() goes on to trade, and from there it never returns ...
BootSucceeds ==
  /\ pc = "booting" /\ pc' = "idle"
  /\ UNCHANGED <<run, counters, stopped, pending, records, verdicts, cli, calls, history>>

\* ... so only a boot that is refused or fails finishes its row.
FinishRun(status) ==
  /\ pc = "booting" /\ pc' = "down"
  /\ rows' = [rows EXCEPT ![run].status = status]
  /\ UNCHANGED <<run, counters, stopped, pending, trades, rejected, verdicts, cli, calls,
                 history>>

\* on_tick: a stopped engine handles no tick.
TickArrives(opens) ==
  /\ pc = "idle" /\ ~stopped /\ counters.ticks < MaxTicks[run]
  /\ counters' = [counters EXCEPT !.ticks = @ + 1, !.opens = @ + opens]
  /\ pc' = "managing"
  /\ UNCHANGED <<run, stopped, records, verdicts, cli, calls, missed>>

Uncounted == uncounted' = [uncounted EXCEPT ![run] = @ + 1] /\ UNCHANGED pending

\* A gate rejects the tick's pair: the upsert is executed, not committed.
\* Telemetry that fails is swallowed.
Reject(g) ==
  /\ TickArrives(0)
  /\ \/ pending' = [pending EXCEPT ![g] = @ + 1] /\ UNCHANGED uncounted
     \/ MayFailDb /\ Uncounted

\* Entries are allowed; the scan opens a wave or none.
Admit == (\E opens \in {0, 1} : TickArrives(opens)) /\ Uncounted

\* Seeded defects: the commit leaves the open counts behind; a close of a wave
\* that is not open.
Flushed_Dropped == rejected
CanClose_Twice == counters.opens > 0

\* A commit of the engine takes the counts of its open transaction with it.
Flushed == [rejected EXCEPT ![run] = [g \in Gates |-> @[g] + pending[g]]]
CanClose == counters.closes < counters.opens

\* record_trade derives the gross once and commits; when it fails the wave is
\* closed all the same.
CloseWave(t) ==
  /\ pc = "managing" /\ CanClose
  /\ counters' = [counters EXCEPT !.closes = @ + 1]
  /\ \/ /\ trades' = [trades EXCEPT ![run] = Append(@,
              [pair |-> t.pair, net |-> t.net, fee |-> 1, notional |-> 1, gross |-> t.net + 1])]
        /\ rejected' = Flushed /\ pending' = NoneOf /\ UNCHANGED missed
     \/ /\ MayFailDb /\ UNCHANGED <<trades, rejected, pending>>
        /\ missed' = [missed EXCEPT ![run] = @ + 1]
  /\ UNCHANGED <<pc, run, stopped, rows, verdicts, cli, calls, uncounted>>

\* The tick ends; thirty seconds after the last one, with a heartbeat.
EndTick ==
  /\ pc = "managing" /\ pc' = "idle"
  /\ UNCHANGED <<run, counters, stopped, pending, records, verdicts, cli, calls, history>>
Heartbeat ==
  /\ pc = "managing" /\ pc' = "idle"
  /\ rows' = [rows EXCEPT ![run].ticks = counters.ticks, ![run].opens = counters.opens,
                          ![run].closes = counters.closes]
  /\ rejected' = Flushed /\ pending' = NoneOf
  /\ UNCHANGED <<run, counters, stopped, trades, verdicts, cli, calls, history>>

\* From the next tick on, no tick is handled.
Stop ==
  /\ MayStop /\ pc \in {"idle", "managing"} /\ ~stopped
  /\ stopped' = TRUE
  /\ UNCHANGED <<pc, run, counters, pending, records, verdicts, cli, calls, history>>

\* The process dies: its transaction is rolled back, its row keeps its status.
Kill ==
  /\ MayKill /\ pc # "down"
  /\ pc' = "down" /\ counters' = Zero /\ stopped' = FALSE /\ pending' = NoneOf
  /\ UNCHANGED <<run, records, verdicts, cli, calls, history>>

-----------------------------------------------------------------------------
(* alpha-eval report and alpha-eval promote.  promote --dry-run writes what *)
(* report writes.                                                           *)

Goes(c, state) ==
  cli' = [cli EXCEPT ![c] = state] /\ UNCHANGED <<engine, records, history>>

\* The newest run, or one that is named.
Call(c, command, r) ==
  /\ cli[c].step = "idle" /\ calls < MaxCalls /\ r \in 1..run
  /\ calls' = calls + 1
  /\ Goes(c, [step |-> "reading", next |-> 0, command |-> command, run |-> r,
              row |-> NoRow, trades |-> <<>>, report |-> <<>>])
  /\ UNCHANGED verdicts

RowRead_Last == 1 \* seeded defect
\* Place of the row among the reads; the trades come next, the rejections last.
RowRead == 0

Reading(c, n) == cli[c].step = "reading" /\ cli[c].next = n /\ UNCHANGED <<verdicts, calls>>

ReadRow(c) ==
  /\ Reading(c, RowRead)
  /\ Goes(c, [cli[c] EXCEPT !.row = rows[cli[c].run], !.next = @ + 1])
ReadTrades(c) ==
  /\ Reading(c, 1 - RowRead)
  /\ Goes(c, [cli[c] EXCEPT !.trades = trades[cli[c].run], !.next = @ + 1])

\* rejection_summary, then evaluate_run on what was read.
Evaluate(c) ==
  /\ Reading(c, 2)
  /\ \E report \in Reports(cli[c].row, cli[c].trades, rejected[cli[c].run]) :
       Goes(c, [cli[c] EXCEPT !.report = report, !.step = "recording", !.next = 0,
                              !.row = NoRow, !.trades = <<>>])

\* Seeded defects: the last layer is not recorded; the iteration is settled
\* without a decision.
AllRecorded_OffByOne(c) == cli[c].next + 2 \notin DOMAIN cli[c].report
AfterRecording_Settles == "settling"

AllRecorded(c) == cli[c].next + 1 \notin DOMAIN cli[c].report
AfterRecording == "deciding"

\* record_evaluation commits one layer at a time.
Record(c) ==
  /\ cli[c].step = "recording" /\ ~EngineHoldsLock
  /\ evals' = evals \union {<<cli[c].run, cli[c].next, cli[c].report[cli[c].next]>>}
  /\ Goes(c, IF ~AllRecorded(c) THEN [cli[c] EXCEPT !.next = @ + 1]
             ELSE IF cli[c].command = "report" THEN Idle
             ELSE [cli[c] EXCEPT !.step = AfterRecording])
  /\ UNCHANGED <<decisions, iteration, calls>>

Action(report) == IF Promotes(report) THEN "promote" ELSE "reject"

Decide(c) ==
  /\ cli[c].step = "deciding" /\ ~EngineHoldsLock
  /\ decisions' = decisions \union
       {[run |-> cli[c].run, action |-> Action(cli[c].report), report |-> cli[c].report]}
  /\ Goes(c, IF cli[c].run \in Linked THEN [cli[c] EXCEPT !.step = "settling"] ELSE Idle)
  /\ UNCHANGED <<evals, iteration, calls>>

\* settle_iteration overwrites whatever status the iteration had.
Settle(c) ==
  /\ cli[c].step = "settling" /\ ~EngineHoldsLock
  /\ iteration' = IF Promotes(cli[c].report) THEN "promoted" ELSE "rejected"
  /\ Goes(c, Idle)
  /\ UNCHANGED <<evals, decisions, calls>>

\* The caller is killed, or waited thirty seconds for the lock and gives up:
\* what it committed stays.
Abandon(c) ==
  /\ cli[c].step # "idle"
  /\ MayKill \/ (EngineHoldsLock /\ cli[c].step # "reading")
  /\ Goes(c, Idle)
  /\ UNCHANGED <<verdicts, calls>>

Caller(c) ==
  \/ \E command \in {"report", "promote"}, r \in Runs : Call(c, command, r)
  \/ ReadRow(c) \/ ReadTrades(c) \/ Evaluate(c)
  \/ Record(c) \/ Decide(c) \/ Settle(c) \/ Abandon(c)

Tick == (\E g \in Gates : Reject(g)) \/ Admit \/ EndTick

Next ==
  \/ \E start \in Balances : StartRun(start)
  \/ BootSucceeds \/ \E status \in {"completed", "halted", "crashed"} : FinishRun(status)
  \/ Tick \/ (\E t \in Results : CloseWave(t)) \/ Heartbeat
  \/ Stop \/ Kill
  \/ \E c \in Callers : Caller(c)

Spec == Init /\ [][Next]_vars

-----------------------------------------------------------------------------
(* Properties.                                                              *)

\* Every variable keeps its type; only a process that trades has counters and
\* an open transaction, it never closed more waves than it opened, and a caller
\* records layers its report has.
TypeOK ==
  /\ pc \in {"down", "booting", "idle", "managing"} /\ run \in {0} \union Runs
  /\ pc # "down" => run \in Runs
  /\ counters \in [ticks : Nat, opens : Nat, closes : Nat]
  /\ counters.closes <= counters.opens /\ counters.opens <= counters.ticks
  /\ pc \in {"down", "booting"} => counters = Zero /\ pending = NoneOf /\ ~stopped
  /\ stopped \in BOOLEAN /\ pending \in [Gates -> Nat]
  /\ rows \in [Runs -> Row] /\ \A r \in Runs : (rows[r].status = "absent") <=> (r > run)
  /\ trades \in [Runs -> Seq(Trade)]
  /\ rejected \in [Runs -> [Gates -> Nat]]
  /\ evals \subseteq Runs \X Layers \X Verdicts
  /\ iteration \in {"proposed", "promoted", "rejected"}
  /\ cli \in [Callers -> {Idle} \union CallState]
  /\ \A c \in Callers : cli[c].step = "recording" => cli[c].next \in DOMAIN cli[c].report
  /\ calls \in 0..MaxCalls
  /\ missed \in [Runs -> Nat] /\ uncounted \in [Runs -> Nat]

\* At some moment the run had enough closed trades, its result after fees on
\* them was a gain, and its balance had stayed above zero on the way.
Earned(r) ==
  \E n \in MinStats..Len(trades[r]) :
    LET s == SubSeq(trades[r], 1, n)
    IN n > 0 /\ ~(Total(s) <= 0) /\ ~Ruined(s, rows[r].start)

\* A run is promoted only if it earned it: too little data is never a yes,
\* whatever was read in which order while the run went on.
PromotionsEarned == \A d \in decisions : d.action = "promote" => Earned(d.run)

\* Every decision has its whole report on record, wherever its caller was
\* killed or locked out.
AuditTrail ==
  \A d \in decisions : \A l \in DOMAIN d.report : <<d.run, l, d.report[l]>> \in evals

\* The status of an iteration is one that some recorded decision on a run of
\* the iteration gave it.
SettledByDecision ==
  iteration # "proposed" =>
    \E d \in decisions : d.run \in Linked
      /\ iteration = IF d.action = "promote" THEN "promoted" ELSE "rejected"

\* The three snapshots of a report do not contradict each other: the row shows
\* no close whose trade the report has not read, unless its write failed.
SnapshotCoherent ==
  \A c \in Callers : (cli[c].step = "reading" /\ cli[c].next = 2) =>
    cli[c].row.closes <= Len(cli[c].trades) + missed[cli[c].run]

\* "Why did we take no trades": every tick the row of a run shows was either
\* admitted or is counted under the gate that rejected it, also after a kill.
EveryTickAccounted ==
  \A r \in Runs :
    rows[r].ticks <= Rejected(rejected[r], Gates) + uncounted[r]

\* The drawdown computed in one pass is the worst fall from any earlier point
\* of the equity curve.
DrawdownIsWorstFall ==
  \A r \in Runs :
    LET equity == Equity(trades[r], rows[r].start)
    IN DrawdownExceeds(equity, 1, 2) <=>
         \E j \in DOMAIN equity : \E i \in 0..j :
           equity[i] > 0 /\ 2 * (equity[i] - equity[j]) > equity[i]
===============================================================================
