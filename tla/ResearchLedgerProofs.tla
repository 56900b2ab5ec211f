------------------------- MODULE ResearchLedgerProofs -------------------------
(***************************************************************************)
(* Proofs about the agentic database, for any number of runs, trades,      *)
(* callers and calls, and whatever is killed or refused between two of     *)
(* their statements.                                                       *)
(***************************************************************************)
EXTENDS ResearchLedger, FoldLemmas, SequenceTheorems, TLAPS

-----------------------------------------------------------------------------
(* Types.                                                                   *)

\* Every layer gives one of the four verdicts, so a report is a function from
\* its layers to verdicts.
LEMMA ReportType ==
  ASSUME NEW row, NEW s, NEW rejs, NEW report \in Reports(row, s, rejs)
  PROVE  report \in [{0} -> Verdicts] \union [Layers -> Verdicts]
<1>1. Integrity(s) \in Verdicts
  BY DEF Integrity, Verdicts
<1>2. Execution(row, rejs) \in Verdicts
  BY DEF Execution, Verdicts
<1>3. Statistical(s) \subseteq Verdicts
  BY DEF Statistical, Verdicts
<1>4. Economic(s) \in Verdicts
  BY DEF Economic, Verdicts
<1>5. Robustness(s) \in Verdicts
  BY DEF Robustness, Verdicts
<1>6. RiskLayer(s, row.start) \in Verdicts
  BY DEF RiskLayer, Verdicts
<1>7. CASE Integrity(s) = "fail"
  <2>1. report = [l \in {0} |-> "fail"]
    BY <1>7 DEF Reports
  <2>2. QED BY <2>1 DEF Verdicts
<1>8. CASE Integrity(s) # "fail"
  <2>1. PICK statistical \in Statistical(s) :
          report = [l \in 0..5 |->
             CASE l = 0 -> Integrity(s) [] l = 1 -> Execution(row, rejs)
               [] l = 2 -> statistical [] l = 3 -> Economic(s)
               [] l = 4 -> Robustness(s) [] l = 5 -> RiskLayer(s, row.start)]
    BY <1>8 DEF Reports
  <2>2. ASSUME NEW l \in 0..5 PROVE report[l] \in Verdicts
    <3>1. l = 0 \/ l = 1 \/ l = 2 \/ l = 3 \/ l = 4 \/ l = 5
      OBVIOUS
    <3>2. QED BY <2>1, <3>1, <1>1, <1>2, <1>3, <1>4, <1>5, <1>6
  <2>3. QED BY <2>1, <2>2 DEF Layers
<1>9. QED BY <1>7, <1>8

\* A caller that is at work has all the fields of a call.
LEMMA CallType ==
  ASSUME TypeOK, NEW c \in Callers, cli[c].step # "idle"
  PROVE  cli[c] \in CallState
BY DEF TypeOK, Idle

\* What a heartbeat writes into the row, and what a caller keeps of a read and
\* of an evaluation, has the types.
Beaten(row, ticks, opens, closes) ==
  [row EXCEPT !.ticks = ticks, !.opens = opens, !.closes = closes]
LEMMA RowUpdate ==
  ASSUME NEW row \in Row, NEW ticks \in Nat, NEW opens \in Nat, NEW closes \in Nat
  PROVE  /\ Beaten(row, ticks, opens, closes) \in Row
         /\ Beaten(row, ticks, opens, closes).status = row.status
         /\ Beaten(row, ticks, opens, closes).start = row.start
         /\ Beaten(row, ticks, opens, closes).closes = closes
BY DEF Row, Beaten
LEMMA CallUpdate ==
  ASSUME NEW call \in CallState, NEW n \in Layers, NEW row \in Row, NEW s \in Seq(Trade)
  PROVE  /\ [call EXCEPT !.row = row, !.next = n] \in CallState
         /\ [call EXCEPT !.trades = s, !.next = n] \in CallState
         /\ [call EXCEPT !.next = n] \in CallState
BY DEF CallState
LEMMA CallEvaluated ==
  ASSUME NEW call \in CallState, NEW row \in Row, NEW s \in Seq(Trade), NEW report \in Report
  PROVE  [call EXCEPT !.report = report, !.step = "recording", !.next = 0,
                      !.row = row, !.trades = s] \in CallState
<1>1. 0 \in Layers
  BY DEF Layers
<1>2. QED BY <1>1 DEF CallState

Counters == [ticks : Nat, opens : Nat, closes : Nat]

\* Counting a tick, an opening or a close keeps the counters counters.
Ticked(k, m, n) == [k EXCEPT !.ticks = m, !.opens = n]
LEMMA CounterTicked ==
  ASSUME NEW k \in Counters, NEW m \in Nat, NEW n \in Nat
  PROVE  /\ Ticked(k, m, n) \in Counters
         /\ Ticked(k, m, n).ticks = m
         /\ Ticked(k, m, n).opens = n
         /\ Ticked(k, m, n).closes = k.closes
BY DEF Counters, Ticked
LEMMA CounterClosed ==
  ASSUME NEW k \in Counters, NEW n \in Nat
  PROVE  /\ [k EXCEPT !.closes = n] \in Counters
         /\ [k EXCEPT !.closes = n].ticks = k.ticks
         /\ [k EXCEPT !.closes = n].opens = k.opens
         /\ [k EXCEPT !.closes = n].closes = n
BY DEF Counters

\* A step of a caller changes its own entry and nothing of the engine.
LEMMA GoesType ==
  ASSUME TypeOK, NEW c \in Callers, NEW state \in {Idle} \union CallState, Goes(c, state),
         state.step = "recording" => state.next \in DOMAIN state.report
  PROVE  /\ cli' \in [Callers -> {Idle} \union CallState]
         /\ \A d \in Callers : cli'[d].step = "recording" => cli'[d].next \in DOMAIN cli'[d].report
BY DEF Goes, TypeOK

\* The initial state has the types.
LEMMA InitType == Init => TypeOK
<1> SUFFICES ASSUME Init PROVE TypeOK
  OBVIOUS
<1>1. NoRow \in Row /\ NoRow.status = "absent"
  BY DEF NoRow, Row
<1>2. rows \in [Runs -> Row] /\ \A r \in Runs : (rows[r].status = "absent") <=> (r > run)
  BY <1>1, RunAssumption DEF Init
<1>3. trades \in [Runs -> Seq(Trade)]
  BY EmptySeq DEF Init
<1>4. cli \in [Callers -> {Idle} \union CallState]
      /\ \A c \in Callers : cli[c].step = "recording" => cli[c].next \in DOMAIN cli[c].report
  BY DEF Init, Idle
<1>5. counters \in [ticks : Nat, opens : Nat, closes : Nat]
      /\ counters.closes <= counters.opens /\ counters.opens <= counters.ticks
  BY DEF Init, Zero
<1>6. calls \in 0..MaxCalls
  BY BoundAssumption DEF Init
<1>7. QED
  BY <1>2, <1>3, <1>4, <1>5, <1>6 DEF Init, TypeOK, NoneOf

\* One step of the engine or of a caller keeps the types.
LEMMA NextType == TypeOK /\ [Next]_vars => TypeOK'
<1> SUFFICES ASSUME TypeOK, [Next]_vars PROVE TypeOK'
  OBVIOUS
<1> USE DEF TypeOK
<1>1. ASSUME NEW start \in Balances, StartRun(start) PROVE TypeOK'
  <2>1. run' \in Runs /\ run' = run + 1 /\ run \in Nat
    BY <1>1, RunAssumption DEF StartRun
  <2>2. [NoRow EXCEPT !.status = "running", !.start = start] \in Row
    BY BoundAssumption DEF NoRow, Row
  <2>3. rows' \in [Runs -> Row]
    BY <1>1, <2>2 DEF StartRun
  <2>4. \A r \in Runs : (rows'[r].status = "absent") <=> (r > run')
    <3> SUFFICES ASSUME NEW r \in Runs PROVE (rows'[r].status = "absent") <=> (r > run')
      OBVIOUS
    <3>1. CASE r = run'
      BY <1>1, <2>1, <3>1 DEF StartRun, NoRow
    <3>2. CASE r # run'
      BY <1>1, <2>1, <3>2, RunAssumption DEF StartRun
    <3>3. QED BY <3>1, <3>2
  <2>5. QED
    BY <1>1, <2>1, <2>3, <2>4 DEF StartRun, verdicts, history
<1>2. CASE BootSucceeds
  BY <1>2 DEF BootSucceeds, records, verdicts, history
<1>3. ASSUME NEW status \in {"completed", "halted", "crashed"}, FinishRun(status) PROVE TypeOK'
  <2>1. run \in Runs /\ rows[run] \in Row /\ rows[run].status # "absent"
    BY <1>3, RunAssumption DEF FinishRun
  <2>2. [rows[run] EXCEPT !.status = status] \in Row
    BY <2>1 DEF Row
  <2>3. [rows[run] EXCEPT !.status = status].status # "absent"
    BY <2>1 DEF Row
  <2>4. rows' \in [Runs -> Row]
    BY <1>3, <2>2 DEF FinishRun
  <2>5. \A r \in Runs : (rows'[r].status = "absent") <=> (r > run')
    BY <1>3, <2>1, <2>3 DEF FinishRun
  <2>6. QED BY <1>3, <2>4, <2>5 DEF FinishRun, verdicts, history
<1>4. ASSUME NEW opens \in {0, 1}, TickArrives(opens),
             pending' \in [Gates -> Nat], uncounted' \in [Runs -> Nat]
      PROVE  TypeOK'
  <2>1. /\ counters' \in [ticks : Nat, opens : Nat, closes : Nat]
        /\ counters'.closes <= counters'.opens /\ counters'.opens <= counters'.ticks
    <3> DEFINE m == counters.ticks + 1
               n == counters.opens + opens
    <3> HIDE DEF TypeOK
    <3>1. counters \in Counters /\ counters.closes <= counters.opens
          /\ counters.opens <= counters.ticks
      BY DEF TypeOK, Counters
    <3>2. m \in Nat /\ n \in Nat /\ n <= m /\ counters.closes <= n
      BY <3>1 DEF Counters
    <3>3. counters' = Ticked(counters, m, n)
      BY <1>4 DEF TickArrives, Ticked
    <3> HIDE DEF m, n
    <3>4. counters' \in Counters /\ counters'.ticks = m /\ counters'.opens = n
          /\ counters'.closes = counters.closes
      <4>1. /\ Ticked(counters, m, n) \in Counters /\ Ticked(counters, m, n).ticks = m
            /\ Ticked(counters, m, n).opens = n
            /\ Ticked(counters, m, n).closes = counters.closes
        BY <3>1, <3>2, CounterTicked
      <4>2. QED BY <3>3, <4>1
    <3>5. QED BY <3>1, <3>2, <3>4 DEF Counters
  <2>2. QED BY <1>4, <2>1 DEF TickArrives, records, verdicts
<1>5. ASSUME NEW g \in Gates, Reject(g) PROVE TypeOK'
  <2>1. /\ run \in Runs /\ pending \in [Gates -> Nat] /\ uncounted \in [Runs -> Nat]
        /\ pending[g] + 1 \in Nat /\ uncounted[run] + 1 \in Nat
    BY <1>5 DEF Reject, TickArrives
  <2>2. \/ pending' = [pending EXCEPT ![g] = pending[g] + 1] /\ uncounted' = uncounted
        \/ uncounted' = [uncounted EXCEPT ![run] = uncounted[run] + 1] /\ pending' = pending
    BY <1>5 DEF Reject, Uncounted
  <2>3. pending' \in [Gates -> Nat] /\ uncounted' \in [Runs -> Nat]
    <3> HIDE DEF TypeOK
    <3>1. QED BY <2>1, <2>2
  <2>4. QED BY <1>4, <1>5, <2>3 DEF Reject
<1>6. CASE Admit
  <2>1. pending' \in [Gates -> Nat] /\ uncounted' \in [Runs -> Nat]
    BY <1>6 DEF Admit, Uncounted, TickArrives
  <2>2. QED BY <1>4, <1>6, <2>1 DEF Admit
<1>7. ASSUME NEW t \in Results, CloseWave(t) PROVE TypeOK'
  <2> DEFINE new == [pair |-> t.pair, net |-> t.net, fee |-> 1, notional |-> 1,
                     gross |-> t.net + 1]
  <2> HIDE DEF TypeOK
  <2>0. run \in Runs /\ trades \in [Runs -> Seq(Trade)]
        /\ rejected \in [Runs -> [Gates -> Nat]] /\ pending \in [Gates -> Nat]
    BY <1>7 DEF CloseWave, TypeOK
  <2>1. new \in Trade
    BY BoundAssumption DEF Trade
  <2>2. trades' \in [Runs -> Seq(Trade)]
    <3>1. Append(trades[run], new) \in Seq(Trade)
      BY <2>0, <2>1, AppendProperties
    <3>2. QED BY <1>7, <2>0, <3>1 DEF CloseWave
  <2>3. rejected' \in [Runs -> [Gates -> Nat]] /\ pending' \in [Gates -> Nat]
    <3>1. Flushed \in [Runs -> [Gates -> Nat]]
      BY <2>0 DEF Flushed
    <3>2. QED BY <1>7, <2>0, <3>1 DEF CloseWave, NoneOf
  <2>4. missed' \in [Runs -> Nat]
    BY <1>7 DEF CloseWave, TypeOK
  <2>5. /\ counters' \in [ticks : Nat, opens : Nat, closes : Nat]
        /\ counters'.closes <= counters'.opens /\ counters'.opens <= counters'.ticks
    <3> DEFINE n == counters.closes + 1
    <3>1. counters \in Counters /\ counters.opens <= counters.ticks
      BY DEF TypeOK, Counters
    <3>2. n \in Nat /\ n <= counters.opens
      BY <1>7, <3>1 DEF Counters, CloseWave, CanClose
    <3>3. counters' = [counters EXCEPT !.closes = n]
      BY <1>7 DEF CloseWave
    <3> HIDE DEF n
    <3>4. counters' \in Counters /\ counters'.ticks = counters.ticks
          /\ counters'.opens = counters.opens /\ counters'.closes = n
      <4>1. /\ [counters EXCEPT !.closes = n] \in Counters
            /\ [counters EXCEPT !.closes = n].ticks = counters.ticks
            /\ [counters EXCEPT !.closes = n].opens = counters.opens
            /\ [counters EXCEPT !.closes = n].closes = n
        BY <3>1, <3>2, CounterClosed
      <4>2. QED BY <3>3, <4>1
    <3>5. QED BY <3>1, <3>2, <3>4 DEF Counters
  <2>6. QED BY <1>7, <2>2, <2>3, <2>4, <2>5 DEF CloseWave, verdicts, TypeOK
<1>8. CASE EndTick
  BY <1>8 DEF EndTick, records, verdicts, history
<1>9. CASE Heartbeat
  <2> HIDE DEF TypeOK
  <2> DEFINE new == Beaten(rows[run], counters.ticks, counters.opens, counters.closes)
  <2>1. run \in Runs /\ rows \in [Runs -> Row] /\ rows[run] \in Row
        /\ rejected \in [Runs -> [Gates -> Nat]] /\ pending \in [Gates -> Nat]
        /\ counters.ticks \in Nat /\ counters.opens \in Nat /\ counters.closes \in Nat
    BY <1>9 DEF Heartbeat, TypeOK
  <2>2. new \in Row /\ new.status = rows[run].status
    <3>1. ASSUME NEW row \in Row PROVE
            /\ Beaten(row, counters.ticks, counters.opens, counters.closes) \in Row
            /\ Beaten(row, counters.ticks, counters.opens, counters.closes).status = row.status
      BY <2>1, <3>1, RowUpdate, ZenonT(30)
    <3>2. QED BY <2>1, <3>1
  <2>3. rows' = [rows EXCEPT ![run] = new]
    BY <1>9, <2>1 DEF Heartbeat, Beaten
  <2>4. rows' \in [Runs -> Row]
    BY <2>1, <2>2, <2>3
  <2>5. \A r \in Runs : (rows'[r].status = "absent") <=> (r > run')
    BY <1>9, <2>1, <2>2, <2>3 DEF Heartbeat, TypeOK
  <2>6. rejected' \in [Runs -> [Gates -> Nat]] /\ pending' \in [Gates -> Nat]
    BY <1>9, <2>1 DEF Heartbeat, Flushed, NoneOf
  <2>7. QED BY <1>9, <2>4, <2>5, <2>6 DEF Heartbeat, verdicts, history, TypeOK
<1>10. CASE Stop
  BY <1>10 DEF Stop, records, verdicts, history
<1>11. CASE Kill
  <2>1. /\ counters' \in [ticks : Nat, opens : Nat, closes : Nat]
        /\ counters'.closes <= counters'.opens /\ counters'.opens <= counters'.ticks
    BY <1>11 DEF Kill, Zero
  <2>2. pending' \in [Gates -> Nat]
    BY <1>11 DEF Kill, NoneOf
  <2>3. QED BY <1>11, <2>1, <2>2 DEF Kill, records, verdicts, history
<1>12. ASSUME NEW c \in Callers, Caller(c) PROVE TypeOK'
  <2> DEFINE CliOK ==
        /\ cli' \in [Callers -> {Idle} \union CallState]
        /\ \A d \in Callers : cli'[d].step = "recording" => cli'[d].next \in DOMAIN cli'[d].report
  <2>1. UNCHANGED <<engine, records, history>>
    BY <1>12 DEF Caller, Call, Reading, ReadRow, ReadTrades, Evaluate, Record, Decide,
                 Settle, Abandon, Goes
  <2>2. SUFFICES /\ CliOK /\ evals' \subseteq Runs \X Layers \X Verdicts
                 /\ iteration' \in {"proposed", "promoted", "rejected"}
                 /\ calls' \in 0..MaxCalls
    BY <2>1 DEF engine, records, history
  <2>3. ASSUME NEW command \in {"report", "promote"}, NEW r \in Runs, Call(c, command, r)
        PROVE  CliOK /\ calls' \in 0..MaxCalls
    <3> DEFINE state == [step |-> "reading", next |-> 0, command |-> command, run |-> r,
                         row |-> NoRow, trades |-> <<>>, report |-> <<>>]
    <3>1. NoRow \in Row /\ <<>> \in Seq(Trade) /\ <<>> \in Report
      BY EmptySeq DEF NoRow, Row, Report
    <3>2. state \in CallState
      BY <3>1 DEF CallState, Layers
    <3>3. CliOK
      BY <2>3, <3>2, GoesType DEF Call
    <3>4. QED BY <2>3, <3>3, BoundAssumption DEF Call
  <2>4. CASE ReadRow(c)
    <3>1. cli[c] \in CallState /\ cli[c].next = 0 /\ cli[c].step = "reading"
      BY <2>4, CallType DEF ReadRow, Reading, RowRead
    <3>2. [cli[c] EXCEPT !.row = rows[cli[c].run], !.next = @ + 1] \in CallState
      <4> DEFINE n == cli[c].next + 1
      <4>1. rows[cli[c].run] \in Row
        BY <3>1 DEF CallState
      <4>2. n \in Layers
        BY <3>1 DEF Layers
      <4>3. NoRow \in Row /\ <<>> \in Seq(Trade)
        BY EmptySeq DEF NoRow, Row
      <4> HIDE DEF n, TypeOK
      <4>4. [cli[c] EXCEPT !.row = rows[cli[c].run], !.next = n] \in CallState
        BY <3>1, <4>1, <4>2, <4>3, CallUpdate
      <4>5. QED BY <4>4 DEF n
    <3>3. [cli[c] EXCEPT !.row = rows[cli[c].run], !.next = @ + 1].step = "reading"
      BY <3>1 DEF CallState
    <3>4. CliOK
      BY <2>4, <3>2, <3>3, GoesType DEF ReadRow
    <3>5. QED BY <2>4, <3>4 DEF ReadRow, Reading, verdicts
  <2>5. CASE ReadTrades(c)
    <3>1. cli[c] \in CallState /\ cli[c].next = 1 /\ cli[c].step = "reading"
      BY <2>5, CallType DEF ReadTrades, Reading, RowRead
    <3>2. [cli[c] EXCEPT !.trades = trades[cli[c].run], !.next = @ + 1] \in CallState
      <4> DEFINE n == cli[c].next + 1
      <4>1. trades[cli[c].run] \in Seq(Trade)
        BY <3>1 DEF CallState
      <4>2. n \in Layers
        BY <3>1 DEF Layers
      <4>3. NoRow \in Row /\ <<>> \in Seq(Trade)
        BY EmptySeq DEF NoRow, Row
      <4> HIDE DEF n, TypeOK
      <4>4. [cli[c] EXCEPT !.trades = trades[cli[c].run], !.next = n] \in CallState
        BY <3>1, <4>1, <4>2, <4>3, CallUpdate
      <4>5. QED BY <4>4 DEF n
    <3>3. [cli[c] EXCEPT !.trades = trades[cli[c].run], !.next = @ + 1].step = "reading"
      BY <3>1 DEF CallState
    <3>4. CliOK
      BY <2>5, <3>2, <3>3, GoesType DEF ReadTrades
    <3>5. QED BY <2>5, <3>4 DEF ReadTrades, Reading, verdicts
  <2>6. CASE Evaluate(c)
    <3>1. cli[c] \in CallState
      BY <2>6, CallType DEF Evaluate, Reading
    <3>2. PICK report \in Reports(cli[c].row, cli[c].trades, rejected[cli[c].run]) :
            Goes(c, [cli[c] EXCEPT !.report = report, !.step = "recording", !.next = 0,
                                   !.row = NoRow, !.trades = <<>>])
      BY <2>6 DEF Evaluate
    <3>3. report \in [{0} -> Verdicts] \union [Layers -> Verdicts]
      BY ReportType
    <3>4. NoRow \in Row /\ <<>> \in Seq(Trade) /\ report \in Report /\ 0 \in DOMAIN report
      <4>1. NoRow \in Row
        BY DEF NoRow, Row
      <4>2. <<>> \in Seq(Trade)
        BY EmptySeq
      <4>3. report \in Report /\ 0 \in DOMAIN report
        BY <3>3 DEF Report, Layers
      <4>4. QED BY <4>1, <4>2, <4>3
    <3>5. [cli[c] EXCEPT !.report = report, !.step = "recording", !.next = 0,
                         !.row = NoRow, !.trades = <<>>] \in CallState
      BY <3>1, <3>4, CallEvaluated
    <3>6. CliOK
      BY <3>1, <3>2, <3>4, <3>5, GoesType DEF CallState
    <3>7. QED BY <2>6, <3>6 DEF Evaluate, Reading, verdicts
  <2>7. CASE Record(c)
    <3>1. cli[c] \in CallState /\ cli[c].step = "recording" /\ cli[c].next \in DOMAIN cli[c].report
      BY <2>7, CallType DEF Record
    <3>2. cli[c].report[cli[c].next] \in Verdicts /\ cli[c].report # <<>>
      BY <3>1 DEF CallState, Report, Layers
    <3>3. evals' \subseteq Runs \X Layers \X Verdicts
      BY <2>7, <3>1, <3>2 DEF Record, CallState
    <3>4. CASE ~AllRecorded(c)
      <4>1. cli[c].next + 1 \in DOMAIN cli[c].report
        BY <3>4 DEF AllRecorded
      <4>2. cli[c].next + 1 \in Layers
        BY <3>1, <4>1 DEF CallState, Report, Layers
      <4>3. [cli[c] EXCEPT !.next = @ + 1] \in CallState
        BY <3>1, <4>2 DEF CallState
      <4>4. CliOK
        BY <2>7, <3>1, <3>4, <4>1, <4>3, GoesType DEF Record, CallState
      <4>5. QED BY <2>7, <3>3, <4>4 DEF Record
    <3>5. CASE AllRecorded(c)
      <4>1. [cli[c] EXCEPT !.step = AfterRecording] \in CallState
        BY <3>1 DEF CallState, AfterRecording
      <4>2. [cli[c] EXCEPT !.step = AfterRecording].step # "recording"
        BY <3>1 DEF CallState, AfterRecording
      <4>3. CliOK
        BY <2>7, <3>5, <4>1, <4>2, GoesType DEF Record, Idle
      <4>4. QED BY <2>7, <3>3, <4>3 DEF Record
    <3>6. QED BY <3>4, <3>5
  <2>8. CASE Decide(c)
    <3>1. cli[c] \in CallState
      BY <2>8, CallType DEF Decide
    <3>2. [cli[c] EXCEPT !.step = "settling"] \in CallState
          /\ [cli[c] EXCEPT !.step = "settling"].step # "recording"
      BY <3>1 DEF CallState
    <3>3. CliOK
      BY <2>8, <3>2, GoesType DEF Decide, Idle
    <3>4. QED BY <2>8, <3>3 DEF Decide
  <2>9. CASE Settle(c)
    <3>1. CliOK
      BY <2>9, GoesType DEF Settle, Idle
    <3>2. QED BY <2>9, <3>1 DEF Settle
  <2>10. CASE Abandon(c)
    <3>1. CliOK
      BY <2>10, GoesType DEF Abandon, Idle
    <3>2. QED BY <2>10, <3>1 DEF Abandon, verdicts
  <2>11. QED
    BY <1>12, <2>3, <2>4, <2>5, <2>6, <2>7, <2>8, <2>9, <2>10 DEF Caller, Call, verdicts
<1>13. CASE UNCHANGED vars
  BY <1>13 DEF vars, engine, records, verdicts, history
<1>14. QED
  BY <1>1, <1>2, <1>3, <1>5, <1>6, <1>7, <1>8, <1>9, <1>10, <1>11, <1>12, <1>13
  DEF Next, Tick

\* The engine, its callers and their database never leave the types (TypeOK).
THEOREM LedgerTypeCorrect == Spec => []TypeOK
<1>1. QED BY InitType, NextType, PTL DEF Spec

-----------------------------------------------------------------------------
(* What the steps do to the verdicts.                                       *)

\* The engine never writes a verdict, and does not know the callers.
LEMMA EngineStep ==
  [Next]_vars => (\E c \in Callers : Caller(c)) \/ UNCHANGED <<verdicts, cli>>
BY DEF Next, vars, StartRun, BootSucceeds, FinishRun, Tick, Reject, Admit, TickArrives,
       EndTick, CloseWave, Heartbeat, Stop, Kill

\* A call that records a layer, moves on to the decision or to the iteration
\* keeps its run and its report.
LEMMA CallKeeps ==
  ASSUME NEW call \in CallState, NEW n \in Layers, NEW step \in {"deciding", "settling"}
  PROVE  /\ [call EXCEPT !.next = n].run = call.run
         /\ [call EXCEPT !.next = n].report = call.report
         /\ [call EXCEPT !.next = n].step = call.step
         /\ [call EXCEPT !.next = n].next = n
         /\ [call EXCEPT !.step = step].run = call.run
         /\ [call EXCEPT !.step = step].report = call.report
         /\ [call EXCEPT !.step = step].step = step
BY DEF CallState

\* A caller's own entry after each of its steps, and everybody else's.
CallerMoves(c) ==
  \/ cli'[c].step = "idle" /\ UNCHANGED verdicts
  \/ /\ cli[c].step = "idle" /\ UNCHANGED verdicts
     /\ cli'[c].step = "reading" /\ cli'[c].next = 0 /\ cli'[c].run \in 1..run
  \/ /\ ReadRow(c) /\ UNCHANGED verdicts
     /\ cli'[c].step = "reading" /\ cli'[c].next = 1 /\ cli'[c].run = cli[c].run
     /\ cli'[c].row = rows[cli[c].run]
  \/ /\ ReadTrades(c) /\ UNCHANGED verdicts
     /\ cli'[c].step = "reading" /\ cli'[c].next = 2 /\ cli'[c].run = cli[c].run
     /\ cli'[c].row = cli[c].row /\ cli'[c].trades = trades[cli[c].run]
  \/ /\ Evaluate(c) /\ UNCHANGED verdicts
     /\ cli'[c].step = "recording" /\ cli'[c].next = 0 /\ cli'[c].run = cli[c].run
     /\ cli'[c].report \in Reports(cli[c].row, cli[c].trades, rejected[cli[c].run])
  \/ /\ Record(c) /\ ~AllRecorded(c)
     /\ cli'[c].step = "recording" /\ cli'[c].next = cli[c].next + 1
     /\ cli'[c].run = cli[c].run /\ cli'[c].report = cli[c].report
  \/ /\ Record(c) /\ AllRecorded(c)
     /\ cli'[c].step \in {"idle", "deciding"}
     /\ cli'[c].step # "idle" =>
          cli'[c].run = cli[c].run /\ cli'[c].report = cli[c].report
  \/ /\ Decide(c) /\ cli'[c].step \in {"idle", "settling"}
     /\ cli'[c].step # "idle" =>
          /\ cli[c].run \in Linked
          /\ cli'[c].run = cli[c].run /\ cli'[c].report = cli[c].report
  \/ Settle(c) /\ cli'[c].step = "idle"

LEMMA CallerStep ==
  ASSUME TypeOK, NEW c \in Callers, Caller(c)
  PROVE  /\ \A d \in Callers : d # c => cli'[d] = cli[d]
         /\ CallerMoves(c)
<1>1. cli \in [Callers -> {Idle} \union CallState]
  BY DEF TypeOK
<1>2. \A state : Goes(c, state) => /\ cli'[c] = state
                                   /\ \A d \in Callers : d # c => cli'[d] = cli[d]
  BY <1>1 DEF Goes
<1>3. ASSUME NEW command, NEW r, Call(c, command, r)
      PROVE  (\A d \in Callers : d # c => cli'[d] = cli[d]) /\ CallerMoves(c)
  BY <1>2, <1>3 DEF Call, CallerMoves
<1>4. CASE ReadRow(c)
  <2>1. cli[c] \in CallState /\ cli[c].step = "reading" /\ cli[c].next = 0
    BY <1>4, CallType DEF ReadRow, Reading, RowRead
  <2> DEFINE n == cli[c].next + 1
             state == [cli[c] EXCEPT !.row = rows[cli[c].run], !.next = n]
  <2>2. Goes(c, state) /\ UNCHANGED verdicts
    BY <1>4 DEF ReadRow, Reading
  <2>3. n = 1
    BY <2>1
  <2> HIDE DEF n
  <2>4. state.step = "reading" /\ state.next = n /\ state.run = cli[c].run
        /\ state.row = rows[cli[c].run]
    BY <2>1 DEF CallState
  <2> HIDE DEF state
  <2>5. cli'[c] = state /\ \A d \in Callers : d # c => cli'[d] = cli[d]
    BY <1>2, <2>2
  <2>6. QED BY <1>4, <2>2, <2>3, <2>4, <2>5 DEF CallerMoves
<1>5. CASE ReadTrades(c)
  <2>1. cli[c] \in CallState /\ cli[c].step = "reading" /\ cli[c].next = 1
    BY <1>5, CallType DEF ReadTrades, Reading, RowRead
  <2> DEFINE n == cli[c].next + 1
             state == [cli[c] EXCEPT !.trades = trades[cli[c].run], !.next = n]
  <2>2. Goes(c, state) /\ UNCHANGED verdicts
    BY <1>5 DEF ReadTrades, Reading
  <2>3. n = 2
    BY <2>1
  <2> HIDE DEF n
  <2>4. state.step = "reading" /\ state.next = n /\ state.run = cli[c].run
        /\ state.trades = trades[cli[c].run] /\ state.row = cli[c].row
    BY <2>1 DEF CallState
  <2> HIDE DEF state
  <2>5. cli'[c] = state /\ \A d \in Callers : d # c => cli'[d] = cli[d]
    BY <1>2, <2>2
  <2>6. QED BY <1>5, <2>2, <2>3, <2>4, <2>5 DEF CallerMoves
<1>6. CASE Evaluate(c)
  <2>1. cli[c] \in CallState
    BY <1>6, CallType DEF Evaluate, Reading
  <2>2. PICK report \in Reports(cli[c].row, cli[c].trades, rejected[cli[c].run]) :
          Goes(c, [cli[c] EXCEPT !.report = report, !.step = "recording", !.next = 0,
                                 !.row = NoRow, !.trades = <<>>])
    BY <1>6 DEF Evaluate
  <2> DEFINE state == [cli[c] EXCEPT !.report = report, !.step = "recording", !.next = 0,
                                     !.row = NoRow, !.trades = <<>>]
  <2>3. state.step = "recording" /\ state.next = 0 /\ state.run = cli[c].run
        /\ state.report = report
    BY <2>1 DEF CallState
  <2> HIDE DEF state
  <2>4. cli'[c] = state /\ \A d \in Callers : d # c => cli'[d] = cli[d]
    BY <1>2, <2>2 DEF state
  <2>5. UNCHANGED verdicts
    BY <1>6 DEF Evaluate, Reading
  <2>6. QED BY <1>6, <2>3, <2>4, <2>5 DEF CallerMoves
<1>7. CASE Record(c)
  <2>1. cli[c] \in CallState /\ cli[c].step = "recording"
    BY <1>7, CallType DEF Record
  <2>2. CASE AllRecorded(c)
    <3> DEFINE state == [cli[c] EXCEPT !.step = "deciding"]
    <3>1. state.step = "deciding" /\ state.run = cli[c].run /\ state.report = cli[c].report
      BY <2>1 DEF CallState
    <3>2. Goes(c, Idle) \/ Goes(c, state)
      BY <1>7, <2>2 DEF Record, AfterRecording
    <3> HIDE DEF state
    <3>3. cli'[c] \in {Idle, state} /\ \A d \in Callers : d # c => cli'[d] = cli[d]
      BY <1>2, <3>2
    <3>4. QED BY <1>7, <2>2, <3>1, <3>3 DEF CallerMoves, Idle
  <2>3. CASE ~AllRecorded(c)
    <3> DEFINE n == cli[c].next + 1
               state == [cli[c] EXCEPT !.next = n]
    <3>1. Goes(c, state)
      BY <1>7, <2>3 DEF Record
    <3>2. state.step = "recording" /\ state.next = n /\ state.run = cli[c].run
          /\ state.report = cli[c].report
      <4> HIDE DEF n
      <4>1. QED BY <2>1 DEF CallState
    <3> HIDE DEF state
    <3>3. cli'[c] = state /\ \A d \in Callers : d # c => cli'[d] = cli[d]
      BY <1>2, <3>1
    <3>4. QED BY <1>7, <2>3, <3>2, <3>3 DEF CallerMoves
  <2>4. QED BY <2>2, <2>3
<1>8. CASE Decide(c)
  <2>1. cli[c] \in CallState
    BY <1>8, CallType DEF Decide
  <2> DEFINE state == [cli[c] EXCEPT !.step = "settling"]
  <2>2. state.step = "settling" /\ state.run = cli[c].run /\ state.report = cli[c].report
    BY <2>1 DEF CallState
  <2>3. Goes(c, Idle) \/ (cli[c].run \in Linked /\ Goes(c, state))
    BY <1>8 DEF Decide
  <2> HIDE DEF state
  <2>4. /\ cli'[c] = Idle \/ (cli[c].run \in Linked /\ cli'[c] = state)
        /\ \A d \in Callers : d # c => cli'[d] = cli[d]
    BY <1>2, <2>3
  <2>5. QED BY <1>8, <2>2, <2>4 DEF CallerMoves, Idle
<1>9. CASE Settle(c)
  BY <1>2, <1>9 DEF Settle, CallerMoves, Idle
<1>10. CASE Abandon(c)
  BY <1>2, <1>10 DEF Abandon, CallerMoves, Idle
<1>11. QED BY <1>3, <1>4, <1>5, <1>6, <1>7, <1>8, <1>9, <1>10 DEF Caller

-----------------------------------------------------------------------------
\* What a caller has recorded so far: the layers before the next one while it
\* records, all of them once it decides.
RecordInv ==
  /\ \A c \in Callers : cli[c].step = "recording" =>
       \A l \in DOMAIN cli[c].report :
         l < cli[c].next => <<cli[c].run, l, cli[c].report[l]>> \in evals
  /\ \A c \in Callers : cli[c].step \in {"deciding", "settling"} =>
       \A l \in DOMAIN cli[c].report : <<cli[c].run, l, cli[c].report[l]>> \in evals
  /\ AuditTrail

\* Every decision has its whole report on record (AuditTrail): a caller that is
\* killed or locked out between two layers never decides.
THEOREM AuditSound == Spec => []AuditTrail
<1>1. Init => RecordInv
  BY DEF Init, RecordInv, AuditTrail, Idle
<1>2. TypeOK /\ RecordInv /\ [Next]_vars => RecordInv'
  <2> SUFFICES ASSUME TypeOK, RecordInv, [Next]_vars PROVE RecordInv'
    OBVIOUS
  <2>1. CASE UNCHANGED <<verdicts, cli>>
    BY <2>1 DEF RecordInv, AuditTrail, verdicts
  <2>2. ASSUME NEW c \in Callers, Caller(c) PROVE RecordInv'
    <3>1. (\A d \in Callers : d # c => cli'[d] = cli[d]) /\ CallerMoves(c)
      BY <2>2, CallerStep
    <3>2. evals \subseteq evals'
      BY <3>1 DEF CallerMoves, Record, Decide, Settle, verdicts
    <3>3. AuditTrail'
      <4>1. CASE UNCHANGED decisions
        BY <3>2, <4>1 DEF RecordInv, AuditTrail
      <4>2. CASE Decide(c)
        <5>1. \A l \in DOMAIN cli[c].report : <<cli[c].run, l, cli[c].report[l]>> \in evals
          BY <4>2 DEF RecordInv, Decide
        <5>2. ASSUME NEW d \in decisions', d \notin decisions
              PROVE  d.run = cli[c].run /\ d.report = cli[c].report
          BY <4>2, <5>2 DEF Decide
        <5>3. QED BY <3>2, <5>1, <5>2 DEF RecordInv, AuditTrail
      <4>3. QED
        BY <3>1, <4>1, <4>2 DEF CallerMoves, Record, Settle, verdicts
    <3>4. ASSUME NEW d \in Callers, d # c
          PROVE  /\ cli'[d].step = "recording" =>
                      \A l \in DOMAIN cli'[d].report :
                        l < cli'[d].next => <<cli'[d].run, l, cli'[d].report[l]>> \in evals'
                 /\ cli'[d].step \in {"deciding", "settling"} =>
                      \A l \in DOMAIN cli'[d].report :
                        <<cli'[d].run, l, cli'[d].report[l]>> \in evals'
      BY <3>1, <3>2, <3>4 DEF RecordInv
    <3>5. /\ cli'[c].step = "recording" =>
               \A l \in DOMAIN cli'[c].report :
                 l < cli'[c].next => <<cli'[c].run, l, cli'[c].report[l]>> \in evals'
          /\ cli'[c].step \in {"deciding", "settling"} =>
               \A l \in DOMAIN cli'[c].report :
                 <<cli'[c].run, l, cli'[c].report[l]>> \in evals'
      <4>1. CASE cli'[c].step \in {"idle", "reading"}
        BY <4>1
      <4>2. CASE Evaluate(c) /\ cli'[c].step = "recording" /\ cli'[c].next = 0
                 /\ cli'[c].report \in Reports(cli[c].row, cli[c].trades, rejected[cli[c].run])
        <5>1. DOMAIN cli'[c].report \subseteq Layers
          BY <4>2, ReportType DEF Layers
        <5>2. QED BY <4>2, <5>1 DEF Layers
      <4>3. CASE Record(c)
        <5>1. cli[c] \in CallState /\ cli[c].step = "recording"
              /\ cli[c].next \in DOMAIN cli[c].report
          BY <4>3, CallType DEF Record, TypeOK
        <5>2. DOMAIN cli[c].report \in {{0}, 0..5} /\ cli[c].next \in Int
          BY <5>1 DEF CallState, Report, Layers
        <5>3. <<cli[c].run, cli[c].next, cli[c].report[cli[c].next]>> \in evals'
          BY <4>3 DEF Record
        <5>4. \A l \in DOMAIN cli[c].report :
                l < cli[c].next + 1 => <<cli[c].run, l, cli[c].report[l]>> \in evals'
          <6> SUFFICES ASSUME NEW l \in DOMAIN cli[c].report, l < cli[c].next + 1
                       PROVE  <<cli[c].run, l, cli[c].report[l]>> \in evals'
            OBVIOUS
          <6>1. l \in Int
            BY <5>2
          <6>2. l < cli[c].next \/ l = cli[c].next
            BY <5>2, <6>1
          <6>3. CASE l < cli[c].next
            BY <3>2, <5>1, <6>3 DEF RecordInv
          <6>4. CASE l = cli[c].next
            BY <5>3, <6>4
          <6>5. QED BY <6>2, <6>3, <6>4
        <5>5. CASE cli'[c].step = "recording" /\ cli'[c].next = cli[c].next + 1
                   /\ cli'[c].run = cli[c].run /\ cli'[c].report = cli[c].report
          BY <5>4, <5>5
        <5>6. CASE /\ AllRecorded(c) /\ cli'[c].step \in {"idle", "deciding"}
                   /\ cli'[c].step # "idle" =>
                        cli'[c].run = cli[c].run /\ cli'[c].report = cli[c].report
          <6>1. \A l \in DOMAIN cli[c].report : l < cli[c].next + 1
            BY <5>1, <5>2, <5>6 DEF AllRecorded
          <6>2. QED BY <5>4, <5>6, <6>1
        <5>7. QED
          BY <3>1, <4>1, <4>3, <5>1, <5>5, <5>6
          DEF CallerMoves, Evaluate, Reading, Decide, Settle
      <4>4. CASE /\ Decide(c) /\ cli'[c].step \in {"idle", "settling"}
                 /\ cli'[c].step # "idle" =>
                      cli'[c].run = cli[c].run /\ cli'[c].report = cli[c].report
        BY <3>2, <4>4 DEF RecordInv, Decide
      <4>5. QED BY <3>1, <4>1, <4>2, <4>3, <4>4 DEF CallerMoves
    <3>6. QED BY <3>3, <3>4, <3>5 DEF RecordInv
  <2>3. QED BY <2>1, <2>2, EngineStep
<1>3. QED BY <1>1, <1>2, LedgerTypeCorrect, PTL DEF Spec, RecordInv

-----------------------------------------------------------------------------
\* Whoever is about to settle the iteration has decided on a run of it.
SettleInv ==
  /\ \A c \in Callers : cli[c].step = "settling" =>
       /\ cli[c].run \in Linked
       /\ \E d \in decisions : d.run = cli[c].run /\ d.action = Action(cli[c].report)
  /\ SettledByDecision

\* The status of the iteration is one that some recorded decision on a run of
\* the iteration gave it (SettledByDecision).
THEOREM SettlementSound == Spec => []SettledByDecision
<1>1. Init => SettleInv
  BY DEF Init, SettleInv, SettledByDecision, Idle
<1>2. TypeOK /\ SettleInv /\ [Next]_vars => SettleInv'
  <2> SUFFICES ASSUME TypeOK, SettleInv, [Next]_vars PROVE SettleInv'
    OBVIOUS
  <2>1. CASE UNCHANGED <<verdicts, cli>>
    BY <2>1 DEF SettleInv, SettledByDecision, verdicts
  <2>2. ASSUME NEW c \in Callers, Caller(c) PROVE SettleInv'
    <3>1. (\A d \in Callers : d # c => cli'[d] = cli[d]) /\ CallerMoves(c)
      BY <2>2, CallerStep
    <3>2. decisions \subseteq decisions'
      BY <3>1 DEF CallerMoves, Record, Decide, Settle, verdicts
    <3>3. SettledByDecision'
      <4>1. CASE UNCHANGED iteration
        BY <3>2, <4>1 DEF SettleInv, SettledByDecision
      <4>2. CASE Settle(c)
        BY <4>2 DEF SettleInv, SettledByDecision, Settle, Action
      <4>3. QED
        BY <3>1, <4>1, <4>2 DEF CallerMoves, Record, Decide, verdicts
    <3>4. ASSUME NEW e \in Callers, cli'[e].step = "settling"
          PROVE  /\ cli'[e].run \in Linked
                 /\ \E d \in decisions' : d.run = cli'[e].run /\ d.action = Action(cli'[e].report)
      <4>1. CASE e # c
        BY <3>1, <3>2, <3>4, <4>1 DEF SettleInv
      <4>2. CASE e = c
        <5>1. Decide(c) /\ cli[c].run \in Linked
              /\ cli'[c].run = cli[c].run /\ cli'[c].report = cli[c].report
          BY <3>1, <3>4, <4>2 DEF CallerMoves
        <5>2. [run |-> cli[c].run, action |-> Action(cli[c].report), report |-> cli[c].report]
                \in decisions'
          BY <5>1 DEF Decide
        <5>3. QED BY <4>2, <5>1, <5>2
      <4>3. QED BY <4>1, <4>2
    <3>5. QED BY <3>3, <3>4 DEF SettleInv
  <2>3. QED BY <2>1, <2>2, EngineStep
<1>3. QED BY <1>1, <1>2, LedgerTypeCorrect, PTL DEF Spec, SettleInv

-----------------------------------------------------------------------------
(* What the steps do to rows and trades.                                    *)

\* A trade that is added leaves every prefix of the trades before it alone.
LEMMA PrefixKept ==
  ASSUME NEW S, NEW s \in Seq(S), NEW e \in S, NEW n \in 0..Len(s)
  PROVE  SubSeq(Append(s, e), 1, n) = SubSeq(s, 1, n)
<1>1. CASE n = 0
  BY <1>1, SubSeqEmpty
<1>2. CASE n # 0
  <2>1. <<e>> \in Seq(S) /\ n \in 1..Len(s) /\ 1 \in 1..Len(s)
    BY <1>2
  <2>2. SubSeq(s \o <<e>>, 1, n) = SubSeq(s, 1, n)
    BY <2>1, SubSeqOfConcat1
  <2>3. QED BY <2>2, AppendIsConcat
<1>3. QED BY <1>1, <1>2

\* The trades of a run only grow at the end, and those of a run that has not
\* begun stay as they are; the starting balance of a run that has begun is
\* fixed, and no step makes a run not begun.
LEMMA RecordStep ==
  ASSUME TypeOK, [Next]_vars
  PROVE  /\ run' \in Nat /\ run <= run'
         /\ \A r \in Runs : r <= run => rows'[r].start = rows[r].start
         /\ \A r \in Runs : \/ trades'[r] = trades[r]
                            \/ \E t \in Trade : trades'[r] = Append(trades[r], t)
<1>1. /\ run \in Nat /\ rows \in [Runs -> Row] /\ trades \in [Runs -> Seq(Trade)]
      /\ pc # "down" => run \in Runs
  BY RunAssumption DEF TypeOK
<1>2. ASSUME NEW start \in Balances, StartRun(start)
      PROVE  /\ run' = run + 1 /\ UNCHANGED trades
             /\ \A r \in Runs : r <= run => rows'[r].start = rows[r].start
  <2>1. run' = run + 1 /\ UNCHANGED trades
    BY <1>2 DEF StartRun
  <2>2. ASSUME NEW r \in Runs, r <= run PROVE rows'[r].start = rows[r].start
    <3>1. r # run + 1
      BY <1>1, <2>2, RunAssumption
    <3>2. QED BY <1>1, <1>2, <2>1, <3>1 DEF StartRun
  <2>3. QED BY <2>1, <2>2
<1>3. ASSUME NEW status, FinishRun(status)
      PROVE  UNCHANGED <<run, trades>> /\ \A r \in Runs : rows'[r].start = rows[r].start
  <2>1. UNCHANGED <<run, trades>> /\ run \in Runs
    BY <1>1, <1>3 DEF FinishRun
  <2>2. [rows[run] EXCEPT !.status = status].start = rows[run].start
    BY <1>1, <2>1 DEF Row
  <2>3. QED BY <1>1, <1>3, <2>1, <2>2 DEF FinishRun
<1>4. ASSUME NEW t \in Results, CloseWave(t)
      PROVE  UNCHANGED <<run, rows>> /\
             \A r \in Runs : \/ trades'[r] = trades[r]
                             \/ \E e \in Trade : trades'[r] = Append(trades[r], e)
  <2> DEFINE new == [pair |-> t.pair, net |-> t.net, fee |-> 1, notional |-> 1,
                     gross |-> t.net + 1]
  <2>1. new \in Trade
    BY BoundAssumption DEF Trade
  <2>2. UNCHANGED <<run, rows>>
        /\ (UNCHANGED trades \/ trades' = [trades EXCEPT ![run] = Append(@, new)])
    BY <1>4 DEF CloseWave
  <2> HIDE DEF new
  <2>3. QED BY <1>1, <2>1, <2>2
<1>5. CASE Heartbeat
  <2>1. UNCHANGED <<run, trades>> /\ run \in Runs /\ rows[run] \in Row
        /\ counters.ticks \in Nat /\ counters.opens \in Nat /\ counters.closes \in Nat
    BY <1>1, <1>5 DEF Heartbeat, TypeOK
  <2>2. rows' = [rows EXCEPT ![run] =
                   Beaten(rows[run], counters.ticks, counters.opens, counters.closes)]
    BY <1>5, <2>1 DEF Heartbeat, Beaten
  <2>3. Beaten(rows[run], counters.ticks, counters.opens, counters.closes).start
          = rows[run].start
    <3>1. \A row \in Row, ticks \in Nat, opens \in Nat, closes \in Nat :
            Beaten(row, ticks, opens, closes).start = row.start
      BY RowUpdate
    <3>2. QED BY <2>1, <3>1
  <2>4. \A r \in Runs : rows'[r].start = rows[r].start
    BY <1>1, <2>2, <2>3
  <2>5. QED BY <1>1, <2>1, <2>4
<1>6. CASE UNCHANGED <<run, rows, trades>>
  BY <1>1, <1>6
<1>7. QED
  <2>1. CASE \E start \in Balances : StartRun(start)
    BY <1>1, <1>2, <2>1
  <2>2. CASE \E status \in {"completed", "halted", "crashed"} : FinishRun(status)
    BY <1>1, <1>3, <2>2
  <2>3. CASE \E t \in Results : CloseWave(t)
    BY <1>1, <1>4, <2>3
  <2>4. CASE Heartbeat
    BY <1>5, <2>4
  <2>5. CASE BootSucceeds \/ Tick \/ Stop \/ Kill
    BY <1>6, <2>5 DEF BootSucceeds, Tick, Reject, Admit, TickArrives, EndTick, Stop, Kill,
                      records
  <2>6. CASE \E c \in Callers : Caller(c)
    BY <1>6, <2>6 DEF Caller, Call, Reading, ReadRow, ReadTrades, Evaluate, Record, Decide,
                      Settle, Abandon, Goes, engine, records
  <2>7. CASE UNCHANGED vars
    BY <1>6, <2>7 DEF vars, engine, records
  <2>8. QED BY <2>1, <2>2, <2>3, <2>4, <2>5, <2>6, <2>7 DEF Next

-----------------------------------------------------------------------------
\* What a report must say for a promotion, and what its trades are then like.
LEMMA PromotionNeeds ==
  ASSUME NEW row, NEW s \in Seq(Trade), NEW rejs, NEW report \in Reports(row, s, rejs),
         Promotes(report)
  PROVE  Len(s) >= MinStats /\ Len(s) > 0 /\ ~(Total(s) <= 0) /\ ~Ruined(s, row.start)
<1>1. 1 \in DOMAIN report /\ report[2] = "pass" /\ report[3] = "pass"
  BY DEF Promotes, Passed
<1>2. Integrity(s) # "fail"
  <2>1. SUFFICES ASSUME Integrity(s) = "fail" PROVE FALSE
    OBVIOUS
  <2>2. report = [l \in {0} |-> "fail"]
    BY <2>1 DEF Reports
  <2>3. QED BY <1>1, <2>2
<1>3. PICK statistical \in Statistical(s) :
        report = [l \in 0..5 |->
           CASE l = 0 -> Integrity(s) [] l = 1 -> Execution(row, rejs)
             [] l = 2 -> statistical [] l = 3 -> Economic(s)
             [] l = 4 -> Robustness(s) [] l = 5 -> RiskLayer(s, row.start)]
  BY <1>2 DEF Reports
<1>4. 2 \in 0..5 /\ 3 \in 0..5 /\ 5 \in 0..5 /\ DOMAIN report = 0..5
  BY <1>3
<1>5. report[2] = statistical /\ report[3] = Economic(s) /\ report[5] = RiskLayer(s, row.start)
  BY <1>3, <1>4
<1>6. RiskLayer(s, row.start) # "fail"
  BY <1>4, <1>5 DEF Promotes
<1>7. Len(s) >= MinStats
  BY <1>1, <1>5, LayerAssumption DEF Statistical
<1>8. s # <<>> /\ ~(Total(s) <= 0)
  BY <1>1, <1>5 DEF Economic
<1>9. ~Ruined(s, row.start)
  BY <1>6, <1>8 DEF RiskLayer
<1>10. QED BY <1>7, <1>8, <1>9, EmptySeq, LenProperties

\* Run ids are numbers.
LEMMA RunNat == ASSUME TypeOK PROVE run \in Nat /\ Runs \subseteq Nat
BY RunAssumption DEF TypeOK

\* What was a prefix of the trades of a run remains one.
LEMMA PrefixStep ==
  ASSUME TypeOK, [Next]_vars, NEW r \in Runs, NEW n \in 0..Len(trades[r])
  PROVE  /\ n \in 0..Len(trades'[r]) /\ Len(trades'[r]) \in Nat
         /\ SubSeq(trades'[r], 1, n) = SubSeq(trades[r], 1, n)
<1>1. trades[r] \in Seq(Trade) /\ Len(trades[r]) \in Nat
  BY LenProperties DEF TypeOK
<1>2. CASE trades'[r] = trades[r]
  BY <1>1, <1>2
<1>3. ASSUME NEW t \in Trade, trades'[r] = Append(trades[r], t)
      PROVE  /\ n \in 0..Len(trades'[r]) /\ Len(trades'[r]) \in Nat
             /\ SubSeq(trades'[r], 1, n) = SubSeq(trades[r], 1, n)
  BY <1>1, <1>3, AppendProperties, PrefixKept
<1>4. QED BY <1>2, <1>3, RecordStep

\* A run that earned its promotion has earned it for good.
LEMMA EarnedKept ==
  ASSUME TypeOK, [Next]_vars, NEW r \in Runs, r <= run, Earned(r)
  PROVE  Earned(r)'
<1>1. rows'[r].start = rows[r].start /\ Len(trades[r]) \in Nat
  BY RecordStep, LenProperties DEF TypeOK
<1>2. PICK n \in MinStats..Len(trades[r]) :
        LET s == SubSeq(trades[r], 1, n)
        IN n > 0 /\ ~(Total(s) <= 0) /\ ~Ruined(s, rows[r].start)
  BY DEF Earned
<1>3. n \in 0..Len(trades[r]) /\ MinStats \in Nat
  BY <1>1, LayerAssumption
<1>4. n \in MinStats..Len(trades'[r]) /\ SubSeq(trades'[r], 1, n) = SubSeq(trades[r], 1, n)
  BY <1>2, <1>3, PrefixStep
<1>5. QED BY <1>1, <1>2, <1>4 DEF Earned

\* A caller has read the row of its run with its starting balance and a prefix
\* of its trades, and a report that promotes was earned.
CallerEarns(c) ==
  /\ cli[c].step # "idle" => cli[c].run <= run
  /\ cli[c].step = "reading" =>
       /\ cli[c].next \in 1..2 => cli[c].row.start = rows[cli[c].run].start
       /\ cli[c].next = 2 =>
            \E n \in 0..Len(trades[cli[c].run]) :
              cli[c].trades = SubSeq(trades[cli[c].run], 1, n)
  /\ (cli[c].step \in {"recording", "deciding", "settling"} /\ Promotes(cli[c].report)) =>
       Earned(cli[c].run)

EarnInv ==
  /\ \A c \in Callers : CallerEarns(c)
  /\ \A d \in decisions : d.run \in Runs /\ d.run <= run
  /\ PromotionsEarned

\* What the engine does, and what the other callers do, spoils nothing of it.
LEMMA EarnsKept ==
  ASSUME TypeOK, [Next]_vars, NEW c \in Callers, CallerEarns(c), cli'[c] = cli[c]
  PROVE  CallerEarns(c)'
<1>1. CASE cli[c].step = "idle"
  BY <1>1 DEF CallerEarns
<1>2. CASE cli[c].step # "idle"
  <2>1. cli[c].run \in Runs /\ cli[c].run <= run /\ run \in Nat /\ run' \in Nat /\ run <= run'
        /\ cli[c].run \in Nat
    <3>1. cli[c].run \in Runs /\ cli[c].run <= run
      BY <1>2, CallType DEF CallerEarns, CallState
    <3>2. run' \in Nat /\ run <= run'
      BY RecordStep
    <3>3. QED BY <3>1, <3>2, RunNat
  <2>2. cli'[c].run <= run'
    BY <2>1
  <2>3. rows'[cli[c].run].start = rows[cli[c].run].start
    BY <2>1, RecordStep
  <2>4. ASSUME NEW n \in 0..Len(trades[cli[c].run]),
               cli[c].trades = SubSeq(trades[cli[c].run], 1, n)
        PROVE  \E k \in 0..Len(trades'[cli[c].run]) :
                 cli[c].trades = SubSeq(trades'[cli[c].run], 1, k)
    BY <2>1, <2>4, PrefixStep
  <2>5. Earned(cli[c].run) => Earned(cli[c].run)'
    BY <2>1, EarnedKept
  <2>6. QED BY <2>2, <2>3, <2>4, <2>5 DEF CallerEarns
<1>3. QED BY <1>1, <1>2

\* A run is promoted only if it earned it (PromotionsEarned), however many trades
\* come in between the reads of its report, and whoever promotes what in which
\* order.
THEOREM PromotionSound == Spec => []PromotionsEarned
<1>1. Init => EarnInv
  BY DEF Init, EarnInv, CallerEarns, PromotionsEarned, Idle
<1>2. TypeOK /\ EarnInv /\ [Next]_vars => EarnInv'
  <2> SUFFICES ASSUME TypeOK, EarnInv, [Next]_vars PROVE EarnInv'
    OBVIOUS
  <2>1. ASSUME NEW d \in decisions
        PROVE  d.run \in Runs /\ d.run <= run' /\ (d.action = "promote" => Earned(d.run)')
    <3>1. /\ d.run \in Runs /\ d.run <= run /\ run \in Nat /\ d.run \in Nat
          /\ run' \in Nat /\ run <= run'
      <4>1. d.run \in Runs /\ d.run <= run
        BY DEF EarnInv
      <4>2. run' \in Nat /\ run <= run'
        BY RecordStep
      <4>3. QED BY <4>1, <4>2, RunNat
    <3>2. d.action = "promote" => Earned(d.run)'
      BY <3>1, EarnedKept DEF EarnInv, PromotionsEarned
    <3>3. QED BY <3>1, <3>2
  <2>2. CASE UNCHANGED <<verdicts, cli>>
    <3>1. \A c \in Callers : CallerEarns(c)'
      BY <2>2, EarnsKept DEF EarnInv
    <3>2. QED BY <2>1, <2>2, <3>1 DEF EarnInv, PromotionsEarned, verdicts
  <2>3. ASSUME NEW c \in Callers, Caller(c) PROVE EarnInv'
    <3>1. (\A d \in Callers : d # c => cli'[d] = cli[d]) /\ CallerMoves(c)
      BY <2>3, CallerStep
    <3>2. UNCHANGED <<run, rows, trades>>
      BY <2>3 DEF Caller, Call, Reading, ReadRow, ReadTrades, Evaluate, Record, Decide,
                  Settle, Abandon, Goes, engine, records
    <3>3. CallerEarns(c)
      BY DEF EarnInv
    <3>4. ASSUME Decide(c) \/ Record(c) \/ Evaluate(c) \/ ReadRow(c) \/ ReadTrades(c)
          PROVE  cli[c] \in CallState /\ cli[c].run \in Runs /\ cli[c].run <= run
                 /\ cli[c].step # "idle"
      BY <3>3, <3>4, CallType
      DEF CallerEarns, CallState, Decide, Record, Evaluate, ReadRow, ReadTrades, Reading
    <3>5. CallerEarns(c)'
      <4>1. CASE cli'[c].step = "idle"
        BY <4>1 DEF CallerEarns
      <4>2. CASE cli'[c].step = "reading" /\ cli'[c].next = 0 /\ cli'[c].run \in 1..run
        BY <3>2, <4>2 DEF CallerEarns
      <4>3. CASE ReadRow(c) /\ cli'[c].step = "reading" /\ cli'[c].next = 1
                 /\ cli'[c].run = cli[c].run /\ cli'[c].row = rows[cli[c].run]
        BY <3>2, <3>4, <4>3 DEF CallerEarns
      <4>4. CASE ReadTrades(c) /\ cli'[c].step = "reading" /\ cli'[c].next = 2
                 /\ cli'[c].run = cli[c].run /\ cli'[c].row = cli[c].row
                 /\ cli'[c].trades = trades[cli[c].run]
        <5>1. cli[c].step = "reading" /\ cli[c].next = 1
          BY <4>4 DEF ReadTrades, Reading, RowRead
        <5>2. cli[c].row.start = rows[cli[c].run].start
          BY <3>3, <5>1 DEF CallerEarns
        <5>3. trades[cli[c].run] \in Seq(Trade)
          BY <3>4, <4>4 DEF TypeOK
        <5>4. Len(trades[cli[c].run]) \in 0..Len(trades[cli[c].run])
              /\ trades[cli[c].run] = SubSeq(trades[cli[c].run], 1, Len(trades[cli[c].run]))
          BY <5>3, SubSeqFull, LenProperties
        <5>5. QED BY <3>2, <3>4, <4>4, <5>2, <5>4 DEF CallerEarns
      <4>5. CASE Evaluate(c) /\ cli'[c].step = "recording" /\ cli'[c].run = cli[c].run
                 /\ cli'[c].report \in Reports(cli[c].row, cli[c].trades, rejected[cli[c].run])
        <5>1. cli[c].step = "reading" /\ cli[c].next = 2
          BY <4>5 DEF Evaluate, Reading
        <5>2. cli[c].row.start = rows[cli[c].run].start
          BY <3>3, <5>1 DEF CallerEarns
        <5>3. PICK n \in 0..Len(trades[cli[c].run]) :
                cli[c].trades = SubSeq(trades[cli[c].run], 1, n)
          BY <3>3, <5>1 DEF CallerEarns
        <5>4. trades[cli[c].run] \in Seq(Trade) /\ cli[c].trades \in Seq(Trade)
          BY <3>4, <4>5 DEF TypeOK, CallState
        <5>5. Len(cli[c].trades) = n /\ n \in Int
          <6>1. Len(trades[cli[c].run]) \in Nat
                /\ \A i \in 1..n : trades[cli[c].run][i] \in Trade
            BY <5>4, LenProperties, ElementOfSeq
          <6>2. n \in Int /\ 1 \in Int /\ 0 <= n
            BY <6>1
          <6>3. Len(SubSeq(trades[cli[c].run], 1, n)) = IF 1 <= n THEN n - 1 + 1 ELSE 0
            BY <6>1, <6>2, SubSeqProperties
          <6>4. QED BY <5>3, <6>2, <6>3
        <5>6. ASSUME Promotes(cli'[c].report) PROVE Earned(cli[c].run)
          <6>1. /\ Len(cli[c].trades) >= MinStats /\ Len(cli[c].trades) > 0
                /\ ~(Total(cli[c].trades) <= 0)
                /\ ~Ruined(cli[c].trades, cli[c].row.start)
            BY <4>5, <5>4, <5>6, PromotionNeeds
          <6>2. n \in MinStats..Len(trades[cli[c].run]) /\ n > 0
            BY <5>3, <5>5, <6>1, LayerAssumption
          <6>3. QED BY <5>2, <5>3, <6>1, <6>2 DEF Earned
        <5>7. Earned(cli[c].run) => Earned(cli[c].run)'
          BY <3>4, <4>5, EarnedKept
        <5>8. QED BY <3>2, <3>4, <4>5, <5>6, <5>7 DEF CallerEarns
      <4>6. CASE /\ Record(c) \/ Decide(c)
                 /\ cli'[c].step \in {"recording", "deciding", "settling"}
                 /\ cli'[c].run = cli[c].run /\ cli'[c].report = cli[c].report
        <5>1. cli[c].step \in {"recording", "deciding"}
          BY <4>6 DEF Record, Decide
        <5>2. Promotes(cli[c].report) => Earned(cli[c].run)
          BY <3>3, <5>1 DEF CallerEarns
        <5>3. Earned(cli[c].run) => Earned(cli[c].run)'
          BY <3>4, <4>6, EarnedKept
        <5>4. QED BY <3>2, <3>4, <4>6, <5>2, <5>3 DEF CallerEarns
      <4>7. QED BY <3>1, <4>1, <4>2, <4>3, <4>4, <4>5, <4>6 DEF CallerMoves
    <3>6. ASSUME NEW e \in Callers, e # c PROVE CallerEarns(e)'
      BY <3>1, <3>6, EarnsKept DEF EarnInv
    <3>7. ASSUME NEW d \in decisions', d \notin decisions
          PROVE  d.run \in Runs /\ d.run <= run' /\ (d.action = "promote" => Earned(d.run)')
      <4>1. Decide(c)
        BY <3>1, <3>7 DEF CallerMoves, Record, Settle, verdicts
      <4>2. d.run = cli[c].run /\ d.action = Action(cli[c].report)
        BY <3>7, <4>1 DEF Decide
      <4>3. d.action = "promote" => Earned(cli[c].run)
        BY <3>3, <4>1, <4>2 DEF CallerEarns, Decide, Action
      <4>4. d.run \in Runs /\ d.run <= run
        BY <3>4, <4>1, <4>2
      <4>5. Earned(d.run) => Earned(d.run)'
        BY <4>4, EarnedKept
      <4>6. QED BY <3>2, <4>2, <4>3, <4>4, <4>5
    <3>8. QED BY <2>1, <3>5, <3>6, <3>7 DEF EarnInv, PromotionsEarned
  <2>4. QED BY <2>2, <2>3, EngineStep
<1>3. QED BY <1>1, <1>2, LedgerTypeCorrect, PTL DEF Spec, EarnInv

-----------------------------------------------------------------------------
\* Closes of run r that have a trade or were refused by the database.
Told(r) == Len(trades[r]) + missed[r]

\* No step takes a trade or a refusal back.
LEMMA ToldGrows ==
  ASSUME TypeOK, [Next]_vars, NEW r \in Runs
  PROVE  /\ Len(trades[r]) \in Nat /\ Len(trades'[r]) \in Nat /\ Len(trades[r]) <= Len(trades'[r])
         /\ missed[r] \in Nat /\ missed'[r] \in Nat /\ missed[r] <= missed'[r]
<1>1. trades[r] \in Seq(Trade) /\ Len(trades[r]) \in Nat /\ missed \in [Runs -> Nat]
  BY LenProperties DEF TypeOK
<1>2. Len(trades'[r]) \in Nat /\ Len(trades[r]) <= Len(trades'[r])
  <2>1. CASE trades'[r] = trades[r]
    BY <1>1, <2>1
  <2>2. ASSUME NEW t \in Trade, trades'[r] = Append(trades[r], t)
        PROVE  Len(trades'[r]) \in Nat /\ Len(trades[r]) <= Len(trades'[r])
    BY <1>1, <2>2, AppendProperties
  <2>3. QED BY <2>1, <2>2, RecordStep
<1>3. UNCHANGED missed \/ missed' = [missed EXCEPT ![run] = @ + 1]
  BY DEF Next, vars, history, Caller, Call, Reading, ReadRow, ReadTrades, Evaluate, Record,
         Decide, Settle, Abandon, Goes, StartRun, BootSucceeds, FinishRun, Tick, Reject, Admit,
         TickArrives, EndTick, CloseWave, Heartbeat, Stop, Kill
<1>4. missed'[r] \in Nat /\ missed[r] <= missed'[r]
  BY <1>1, <1>3
<1>5. QED BY <1>1, <1>2, <1>4

\* Neither the process nor its row nor a row that was read shows a close that
\* has not been told.
SnapInv ==
  /\ pc # "down" => counters.closes <= Told(run)
  /\ \A r \in Runs : rows[r].closes <= Told(r)
  /\ \A c \in Callers : (cli[c].step = "reading" /\ cli[c].next = 1) =>
       cli[c].row.closes <= Told(cli[c].run)
  /\ SnapshotCoherent

\* A report never shows a close without the trade (SnapshotCoherent), although
\* it reads them in two transactions: the row first, the trades after it.
THEOREM SnapshotSound == Spec => []SnapshotCoherent
<1>1. Init => SnapInv
  <2> SUFFICES ASSUME Init PROVE SnapInv
    OBVIOUS
  <2>1. \A r \in Runs : rows[r].closes = 0 /\ Told(r) = 0
    BY EmptySeq DEF Init, NoRow, Told
  <2>2. QED BY <2>1 DEF Init, SnapInv, SnapshotCoherent, Idle
<1>2. TypeOK /\ SnapInv /\ [Next]_vars => SnapInv'
  <2> SUFFICES ASSUME TypeOK, SnapInv, [Next]_vars PROVE SnapInv'
    OBVIOUS
  <2>1. ASSUME NEW r \in Runs PROVE Told(r) \in Nat /\ Told(r)' \in Nat /\ Told(r) <= Told(r)'
    BY ToldGrows DEF Told
  <2>2. /\ rows \in [Runs -> Row] /\ \A r \in Runs : rows[r].closes \in Nat
        /\ counters.closes \in Nat /\ (pc # "down" => run \in Runs)
    BY DEF TypeOK, Row
  <2>3. pc' # "down" => counters'.closes <= Told(run)'
    <3>1. CASE pc' \in {"down", "booting"}
      <4>1. pc' = "booting" => counters'.closes = 0 /\ run' \in Runs
        BY NextType DEF TypeOK, Zero
      <4>2. \A r \in Runs : Told(r)' \in Nat
        BY <2>1
      <4>3. QED BY <3>1, <4>1, <4>2 DEF Told
    <3>2. ASSUME NEW t \in Results, CloseWave(t) PROVE counters'.closes <= Told(run)'
      <4> DEFINE new == [pair |-> t.pair, net |-> t.net, fee |-> 1, notional |-> 1,
                         gross |-> t.net + 1]
                 n == counters.closes + 1
      <4>1. run \in Runs /\ run' = run /\ counters.closes <= Told(run) /\ counters \in Counters
        BY <2>2, <3>2 DEF CloseWave, SnapInv, TypeOK, Counters
      <4>2. counters'.closes = n
        <5>1. counters' = [counters EXCEPT !.closes = n]
          BY <3>2 DEF CloseWave
        <5> HIDE DEF n
        <5>2. QED BY <4>1, <5>1 DEF Counters
      <4>3. trades[run] \in Seq(Trade) /\ new \in Trade /\ missed[run] \in Nat
            /\ trades \in [Runs -> Seq(Trade)] /\ missed \in [Runs -> Nat]
        <5>1. new \in Trade
          BY BoundAssumption DEF Trade
        <5> HIDE DEF new
        <5>2. QED BY <4>1, <5>1 DEF TypeOK
      <4>4. \/ trades' = [trades EXCEPT ![run] = Append(trades[run], new)] /\ missed' = missed
            \/ trades' = trades /\ missed' = [missed EXCEPT ![run] = missed[run] + 1]
        BY <3>2 DEF CloseWave
      <4> HIDE DEF new
      <4>5. Len(Append(trades[run], new)) = Len(trades[run]) + 1 /\ Len(trades[run]) \in Nat
        BY <4>3, AppendProperties, LenProperties
      <4>6. Told(run)' = Told(run) + 1
        <5>1. CASE trades' = [trades EXCEPT ![run] = Append(trades[run], new)] /\ missed' = missed
          <6>1. trades'[run] = Append(trades[run], new) /\ missed'[run] = missed[run]
            BY <4>1, <4>3, <5>1
          <6>2. QED BY <4>1, <4>3, <4>5, <6>1 DEF Told
        <5>2. CASE trades' = trades /\ missed' = [missed EXCEPT ![run] = missed[run] + 1]
          <6>1. trades'[run] = trades[run] /\ missed'[run] = missed[run] + 1
            BY <4>1, <4>3, <5>2
          <6>2. QED BY <4>1, <4>3, <4>5, <6>1 DEF Told
        <5>3. QED BY <4>4, <5>1, <5>2
      <4>7. QED BY <2>1, <2>2, <4>1, <4>2, <4>6
    <3>3. ASSUME pc # "down", run' = run, counters'.closes = counters.closes
          PROVE  counters'.closes <= Told(run)'
      <4>1. run \in Runs /\ counters.closes <= Told(run)
        BY <2>2, <3>3 DEF SnapInv
      <4>2. Told(run) \in Nat /\ Told(run') \in Nat /\ Told(run) <= Len(trades'[run]) + missed'[run]
        BY <4>1, <3>3, <2>1 DEF Told
      <4>3. Len(trades'[run]) + missed'[run] \in Nat
        BY <4>1, <2>1 DEF Told
      <4>4. Told(run)' = Len(trades'[run]) + missed'[run]
        BY <3>3 DEF Told
      <4>5. QED BY <2>2, <3>3, <4>1, <4>2, <4>3, <4>4
    <3>4. ASSUME NEW opens \in {0, 1}, TickArrives(opens)
          PROVE  counters'.closes = counters.closes
      BY <3>4 DEF TickArrives, TypeOK
    <3>5. CASE Tick \/ Heartbeat \/ Stop \/ (\E c \in Callers : Caller(c)) \/ UNCHANGED vars
      <4>1. pc' = "down" \/ (pc # "down" /\ run' = run) \/ (pc' = pc /\ run' = run)
        BY <3>5 DEF Tick, Reject, Admit, TickArrives, EndTick, Heartbeat, Stop, Caller, Call,
             Reading, ReadRow, ReadTrades, Evaluate, Record, Decide, Settle, Abandon, Goes,
             engine, vars
      <4>2. counters'.closes = counters.closes
        BY <3>4, <3>5 DEF Tick, Reject, Admit, EndTick, Heartbeat, Stop, Caller, Call,
             Reading, ReadRow, ReadTrades, Evaluate, Record, Decide, Settle, Abandon, Goes,
             engine, vars
      <4>3. QED BY <3>3, <4>1, <4>2
    <3>6. CASE \/ \E start \in Balances : StartRun(start)
               \/ \E status \in {"completed", "halted", "crashed"} : FinishRun(status)
               \/ Kill
      BY <3>1, <3>6 DEF StartRun, FinishRun, Kill
    <3>7. CASE BootSucceeds
      <4>1. counters.closes = 0 /\ pc # "down" /\ run' = run /\ counters' = counters
        BY <3>7 DEF BootSucceeds, TypeOK, Zero
      <4>2. QED BY <3>3, <4>1
    <3>8. QED BY <3>2, <3>5, <3>6, <3>7 DEF Next
  <2>4. ASSUME NEW r \in Runs PROVE rows'[r].closes <= Told(r)'
    <3>1. CASE rows'[r].closes = rows[r].closes
      BY <2>1, <2>2, <3>1 DEF SnapInv
    <3>2. CASE rows'[r].closes = 0
      BY <2>1, <3>2
    <3>3. CASE r = run /\ pc # "down" /\ rows'[r].closes = counters.closes
      BY <2>1, <2>2, <3>3 DEF SnapInv
    <3>4. ASSUME NEW start \in Balances, StartRun(start)
          PROVE  rows'[r].closes \in {0, rows[r].closes}
      <4>1. [NoRow EXCEPT !.status = "running", !.start = start].closes = 0
        BY DEF NoRow
      <4>2. QED BY <2>2, <3>4, <4>1 DEF StartRun
    <3>5. ASSUME NEW status, FinishRun(status) PROVE rows'[r].closes = rows[r].closes
      <4>1. [rows[run] EXCEPT !.status = status].closes = rows[run].closes
        BY <2>2, <3>5 DEF Row, FinishRun
      <4>2. QED BY <2>2, <3>5, <4>1 DEF FinishRun
    <3>6. CASE Heartbeat
      <4>1. run \in Runs /\ rows[run] \in Row /\ counters.ticks \in Nat /\ counters.opens \in Nat
        BY <2>2, <3>6 DEF Heartbeat, TypeOK
      <4>2. rows' = [rows EXCEPT ![run] =
                       Beaten(rows[run], counters.ticks, counters.opens, counters.closes)]
        BY <3>6, <4>1 DEF Heartbeat, Beaten
      <4>3. \A row \in Row, ticks \in Nat, opens \in Nat, closes \in Nat :
              Beaten(row, ticks, opens, closes).closes = closes
        BY RowUpdate
      <4>4. Beaten(rows[run], counters.ticks, counters.opens, counters.closes).closes
              = counters.closes
        BY <2>2, <4>1, <4>3
      <4>5. CASE r = run
        BY <2>2, <3>3, <3>6, <4>2, <4>4, <4>5 DEF Heartbeat
      <4>6. CASE r # run
        BY <2>2, <3>1, <4>2, <4>6
      <4>7. QED BY <4>5, <4>6
    <3>7. CASE UNCHANGED rows
      BY <3>1, <3>7
    <3>8. CASE \/ BootSucceeds \/ Tick \/ Stop \/ Kill \/ (\E t \in Results : CloseWave(t))
               \/ (\E c \in Callers : Caller(c)) \/ UNCHANGED vars
      <4>1. UNCHANGED rows
        BY <3>8 DEF BootSucceeds, Tick, Reject, Admit, TickArrives, EndTick, Stop, Kill,
             CloseWave, Caller, Call, Reading, ReadRow, ReadTrades, Evaluate, Record, Decide,
             Settle, Abandon, Goes, records, vars
      <4>2. QED BY <3>7, <4>1
    <3>9. QED BY <3>1, <3>2, <3>4, <3>5, <3>6, <3>8 DEF Next
  <2>5. ASSUME NEW c \in Callers, cli'[c].step = "reading"
        PROVE  /\ cli'[c].next = 1 =>
                    cli'[c].row.closes <= Len(trades'[cli'[c].run]) + missed'[cli'[c].run]
               /\ cli'[c].next = 2 =>
                    cli'[c].row.closes <= Len(cli'[c].trades) + missed'[cli'[c].run]
    <3>1. CASE cli'[c] = cli[c]
      <4>1. cli[c] \in CallState /\ cli[c].run \in Runs /\ cli[c].row.closes \in Nat
            /\ Len(cli[c].trades) \in Nat
        BY <2>5, <3>1, CallType, LenProperties DEF CallState, Row
      <4>2. /\ missed[cli[c].run] \in Nat /\ missed'[cli[c].run] \in Nat
            /\ missed[cli[c].run] <= missed'[cli[c].run]
            /\ Len(trades[cli[c].run]) \in Nat /\ Len(trades'[cli[c].run]) \in Nat
            /\ Len(trades[cli[c].run]) <= Len(trades'[cli[c].run])
        BY <4>1, ToldGrows
      <4>3. cli[c].next = 1 => cli[c].row.closes <= Len(trades[cli[c].run]) + missed[cli[c].run]
        BY <2>5, <3>1 DEF SnapInv, Told
      <4>4. cli[c].next = 2 => cli[c].row.closes <= Len(cli[c].trades) + missed[cli[c].run]
        BY <2>5, <3>1 DEF SnapInv, SnapshotCoherent
      <4>5. cli[c].next = 1 => cli[c].row.closes <= Len(trades'[cli[c].run]) + missed'[cli[c].run]
        <5>1. PICK r \in Runs : r = cli[c].run
          BY <4>1
        <5>2. Told(r) \in Nat /\ Told(r)' \in Nat /\ Told(r) <= Told(r)'
          BY <2>1
        <5>3. cli[c].next = 1 => cli[c].row.closes <= Told(r)
          BY <4>3, <5>1 DEF Told
        <5>4. cli[c].next = 1 => cli[c].row.closes <= Told(r)'
          BY <4>1, <5>2, <5>3
        <5>5. QED BY <5>1, <5>4 DEF Told
      <4>6. cli[c].next = 2 => cli[c].row.closes <= Len(cli[c].trades) + missed'[cli[c].run]
        BY <4>1, <4>2, <4>4
      <4>7. QED BY <3>1, <4>5, <4>6
    <3>2. ASSUME Caller(c), cli'[c] # cli[c]
          PROVE  /\ cli'[c].next = 1 =>
                      cli'[c].row.closes <= Len(trades'[cli'[c].run]) + missed'[cli'[c].run]
                 /\ cli'[c].next = 2 =>
                      cli'[c].row.closes <= Len(cli'[c].trades) + missed'[cli'[c].run]
      <4>1. CallerMoves(c) /\ UNCHANGED <<rows, trades, missed>>
        BY <3>2, CallerStep DEF Caller, Call, Reading, ReadRow, ReadTrades, Evaluate, Record,
             Decide, Settle, Abandon, Goes, records, history
      <4>2. CASE cli'[c].next = 0
        BY <4>2
      <4>3. CASE ReadRow(c) /\ cli'[c].next = 1 /\ cli'[c].run = cli[c].run
                 /\ cli'[c].row = rows[cli[c].run]
        <5>1. cli[c].run \in Runs
          BY <4>3, CallType DEF ReadRow, Reading, CallState
        <5>2. rows[cli[c].run].closes <= Len(trades[cli[c].run]) + missed[cli[c].run]
          BY <5>1 DEF SnapInv, Told
        <5>3. QED BY <4>1, <4>3, <5>2
      <4>4. CASE ReadTrades(c) /\ cli'[c].next = 2 /\ cli'[c].run = cli[c].run
                 /\ cli'[c].row = cli[c].row /\ cli'[c].trades = trades[cli[c].run]
        <5>1. cli[c].step = "reading" /\ cli[c].next = 1
          BY <4>4 DEF ReadTrades, Reading, RowRead
        <5>2. cli[c].row.closes <= Len(trades[cli[c].run]) + missed[cli[c].run]
          BY <5>1 DEF SnapInv, Told
        <5>3. QED BY <4>1, <4>4, <5>2
      <4>5. QED BY <2>5, <4>1, <4>2, <4>3, <4>4 DEF CallerMoves, Record, Decide
    <3>3. cli'[c] = cli[c] \/ Caller(c)
      <4>1. CASE UNCHANGED <<verdicts, cli>>
        BY <4>1
      <4>2. ASSUME NEW d \in Callers, Caller(d) PROVE cli'[c] = cli[c] \/ Caller(c)
        BY <4>2, CallerStep
      <4>3. QED BY <4>1, <4>2, EngineStep
    <3>4. QED BY <3>1, <3>2, <3>3
  <2>6. \A c \in Callers : (cli'[c].step = "reading" /\ cli'[c].next = 1) =>
          cli'[c].row.closes <= Told(cli[c].run)'
    BY <2>5 DEF Told
  <2>7. SnapshotCoherent'
    BY <2>5 DEF SnapshotCoherent
  <2>8. QED BY <2>3, <2>4, <2>6, <2>7 DEF SnapInv
<1>3. QED BY <1>1, <1>2, LedgerTypeCorrect, PTL DEF Spec, SnapInv

-----------------------------------------------------------------------------
(* The ticks of a run and the rejections on record.                         *)

\* What the tables say of the ticks of a run, and what the engine's open
\* transaction will add.
Accounted(r) == SumOver(rejected[r], Gates) + uncounted[r]
InFlight == SumOver(pending, Gates)

LEMMA AccountTypes ==
  TypeOK =>
    /\ IsFiniteSet(Gates) /\ IntsOn(pending, Gates) /\ InFlight \in Nat
    /\ \A r \in Runs : IntsOn(rejected[r], Gates) /\ Accounted(r) \in Nat
<1> SUFFICES ASSUME TypeOK
             PROVE  /\ IsFiniteSet(Gates) /\ IntsOn(pending, Gates) /\ InFlight \in Nat
                    /\ \A r \in Runs : IntsOn(rejected[r], Gates) /\ Accounted(r) \in Nat
  OBVIOUS
<1>1. IsFiniteSet(Gates)
  BY LayerAssumption
<1>2. \A g \in Gates : pending[g] \in Nat
  BY DEF TypeOK
<1>3. \A r \in Runs : uncounted[r] \in Nat /\ \A g \in Gates : rejected[r][g] \in Nat
  BY DEF TypeOK
<1>4. InFlight \in Nat /\ IntsOn(pending, Gates)
  BY <1>1, <1>2, SumNat DEF InFlight, IntsOn
<1>5. ASSUME NEW r \in Runs PROVE IntsOn(rejected[r], Gates) /\ Accounted(r) \in Nat
  <2>1. SumOver(rejected[r], Gates) \in Nat
    BY <1>1, <1>3, SumNat
  <2>2. QED BY <1>3, <2>1 DEF Accounted, IntsOn
<1>6. QED BY <1>1, <1>4, <1>5

\* A rejection that reaches the transaction is one more in flight.
LEMMA RejectionCounts ==
  ASSUME TypeOK, NEW g \in Gates, pending' = [pending EXCEPT ![g] = @ + 1]
  PROVE  InFlight' = InFlight + 1
<1>1. pending \in [Gates -> Nat] /\ pending[g] \in Nat
  BY DEF TypeOK
<1>2. pending'[g] = pending[g] + 1 /\ pending'[g] \in Int
      /\ \A h \in Gates \ {g} : pending'[h] = pending[h]
  BY <1>1
<1>3. SumOver(pending', Gates) = SumOver(pending, Gates) + pending'[g] - pending[g]
  <2>1. IsFiniteSet(Gates) /\ IntsOn(pending, Gates)
    BY AccountTypes
  <2> DEFINE old == pending  new == pending'
  <2> HIDE DEF old, new
  <2>2. IntsOn(old, Gates) /\ new[g] \in Int /\ \A h \in Gates \ {g} : new[h] = old[h]
    BY <1>2, <2>1 DEF old, new
  <2>3. SumOver(new, Gates) = SumOver(old, Gates) + new[g] - old[g]
    BY <2>1, <2>2, SumUpdate
  <2>4. QED BY <2>3 DEF old, new
<1>4. QED BY <1>1, <1>2, <1>3, AccountTypes DEF InFlight

\* A commit moves what was in flight into the table, for its own run.
LEMMA CommitCounts ==
  ASSUME TypeOK, run \in Runs, run' = run, uncounted' = uncounted,
         rejected' = Flushed, pending' = NoneOf
  PROVE  /\ Accounted(run)' = Accounted(run) + InFlight /\ InFlight' = 0
         /\ \A r \in Runs : r # run => Accounted(r)' = Accounted(r)
<1> DEFINE new == [g \in Gates |-> rejected[run][g] + pending[g]]
<1>1. rejected \in [Runs -> [Gates -> Nat]] /\ rejected' = [rejected EXCEPT ![run] = new]
  BY DEF TypeOK, Flushed
<1> HIDE DEF new
<1>2. rejected'[run] = new /\ \A r \in Runs : r # run => rejected'[r] = rejected[r]
  BY <1>1
<1>3. SumOver(new, Gates) = SumOver(rejected[run], Gates) + SumOver(pending, Gates)
  <2>1. \A g \in Gates : new[g] = rejected[run][g] + pending[g]
    BY DEF new
  <2>2. QED BY <2>1, AccountTypes, SumPlus
<1>4. InFlight' = 0
  <2>1. \A g \in Gates : pending'[g] = 0
    BY DEF NoneOf
  <2>2. QED BY <2>1, AccountTypes, SumZero DEF InFlight
<1>5. /\ SumOver(rejected[run], Gates) \in Int /\ SumOver(pending, Gates) \in Int
      /\ uncounted[run] \in Nat
  BY AccountTypes, SumType DEF TypeOK
<1>6. Accounted(run)' = SumOver(new, Gates) + uncounted[run]
  BY <1>2 DEF Accounted
<1>7. QED BY <1>2, <1>3, <1>4, <1>5, <1>6 DEF Accounted, InFlight

\* No process has handled a tick that is neither in the tables nor in flight.
AccountInv ==
  /\ pc # "down" => counters.ticks <= Accounted(run) + InFlight
  /\ \A r \in Runs : rows[r].ticks <= Accounted(r)

\* Every tick the row of a run shows was admitted or is counted under a gate
\* (EveryTickAccounted): the heartbeat that writes the row commits, with it, the
\* counts that were still in the engine's open transaction.
THEOREM TicksAccounted == Spec => []EveryTickAccounted
<1>1. Init => AccountInv
  <2> SUFFICES ASSUME Init PROVE AccountInv
    OBVIOUS
  <2>1. TypeOK
    BY InitType
  <2>2. pc = "down" /\ \A r \in Runs : rows[r].ticks = 0
    BY DEF Init, NoRow
  <2>3. QED BY <2>1, <2>2, AccountTypes DEF AccountInv
<1>2. TypeOK' => InFlight' \in Nat /\ \A r \in Runs : Accounted(r)' \in Nat
  <2>1. TypeOK' => (InFlight \in Nat /\ \A r \in Runs : Accounted(r) \in Nat)'
    <3>1. TypeOK => InFlight \in Nat /\ \A r \in Runs : Accounted(r) \in Nat
      BY AccountTypes
    <3>2. QED BY <3>1, PTL
  <2>2. QED BY <2>1
<1>3. TypeOK /\ TypeOK' /\ AccountInv /\ [Next]_vars => AccountInv'
  <2> SUFFICES ASSUME TypeOK, TypeOK', AccountInv, [Next]_vars PROVE AccountInv'
    OBVIOUS
  <2>1. /\ rows \in [Runs -> Row] /\ \A r \in Runs : rows[r].ticks \in Nat
        /\ counters \in Counters /\ counters.ticks \in Nat
        /\ (pc # "down" => run \in Runs)
    BY DEF TypeOK, Row, Counters
  <2>2. InFlight \in Nat /\ \A r \in Runs : Accounted(r) \in Nat
    BY AccountTypes
  <2>3. InFlight' \in Nat /\ \A r \in Runs : Accounted(r)' \in Nat
    BY <1>2
  <2>4. ASSUME UNCHANGED <<rejected, uncounted>> PROVE \A r \in Runs : Accounted(r)' = Accounted(r)
    BY <2>4 DEF Accounted
  <2>5. ASSUME UNCHANGED <<rejected, pending, uncounted, rows, run>>,
               pc' # "down" => pc # "down" /\ counters'.ticks = counters.ticks
        PROVE  AccountInv'
    BY <2>4, <2>5 DEF AccountInv, InFlight, Accounted
  <2>6. ASSUME NEW start \in Balances, StartRun(start) PROVE AccountInv'
    <3>1. /\ counters'.ticks = 0 /\ run' \in Runs /\ UNCHANGED <<rejected, uncounted>>
      BY <2>6 DEF StartRun, TypeOK, Zero, history
    <3>2. [NoRow EXCEPT !.status = "running", !.start = start].ticks = 0
      BY DEF NoRow
    <3>3. \A r \in Runs : rows'[r].ticks \in {0, rows[r].ticks}
      BY <2>1, <2>6, <3>2 DEF StartRun
    <3>4. \A r \in Runs : rows'[r].ticks <= Accounted(r)'
      BY <2>1, <2>2, <2>4, <3>1, <3>3 DEF AccountInv
    <3>5. Accounted(run)' \in Nat
      BY <2>3, <3>1 DEF Accounted
    <3>6. QED BY <2>3, <3>1, <3>4, <3>5 DEF AccountInv
  <2>7. ASSUME NEW status, FinishRun(status) PROVE AccountInv'
    <3>1. pc' = "down" /\ UNCHANGED <<rejected, uncounted>> /\ run \in Runs
      BY <2>1, <2>7 DEF FinishRun, history
    <3>2. [rows[run] EXCEPT !.status = status].ticks = rows[run].ticks
      BY <2>1, <3>1 DEF Row
    <3>3. \A r \in Runs : rows'[r].ticks = rows[r].ticks
      BY <2>1, <2>7, <3>2 DEF FinishRun
    <3>4. QED BY <2>4, <3>1, <3>3 DEF AccountInv
  <2>8. ASSUME NEW opens \in {0, 1}, TickArrives(opens),
               \/ UNCHANGED uncounted /\ InFlight' = InFlight + 1
               \/ Uncounted
        PROVE  AccountInv'
    <3>1. /\ counters'.ticks = counters.ticks + 1 /\ run \in Runs /\ pc # "down"
          /\ UNCHANGED <<run, rows, rejected>>
      BY <2>1, <2>8 DEF TickArrives, records, Counters
    <3>2. CASE UNCHANGED uncounted /\ InFlight' = InFlight + 1
      <4>1. \A r \in Runs : Accounted(r)' = Accounted(r)
        BY <2>4, <3>1, <3>2
      <4>2. Accounted(run)' = Accounted(run)
        BY <3>1, <3>2 DEF Accounted
      <4>3. QED BY <2>1, <2>2, <3>1, <3>2, <4>1, <4>2 DEF AccountInv
    <3>3. CASE Uncounted
      <4>1. /\ uncounted' = [uncounted EXCEPT ![run] = uncounted[run] + 1] /\ UNCHANGED pending
            /\ uncounted \in [Runs -> Nat]
        BY <3>3 DEF Uncounted, TypeOK
      <4>2. /\ uncounted'[run] = uncounted[run] + 1 /\ uncounted[run] \in Nat
            /\ \A r \in Runs : r # run => uncounted'[r] = uncounted[r]
        BY <3>1, <4>1
      <4>3. \A r \in Runs : SumOver(rejected[r], Gates) \in Int
        BY AccountTypes, SumType
      <4>4. Accounted(run)' = Accounted(run) + 1
        BY <3>1, <4>2, <4>3 DEF Accounted
      <4>5. \A r \in Runs : r # run => Accounted(r)' = Accounted(r)
        BY <3>1, <4>2 DEF Accounted
      <4>6. InFlight' = InFlight
        BY <4>1 DEF InFlight
      <4>7. \A r \in Runs : rows'[r].ticks <= Accounted(r)'
        <5>1. ASSUME NEW r \in Runs PROVE rows'[r].ticks <= Accounted(r)'
          <6>1. CASE r = run
            <7>1. Accounted(r)' = Accounted(run)'
              BY <3>1, <6>1 DEF Accounted
            <7>2. QED BY <2>1, <2>2, <3>1, <4>4, <6>1, <7>1 DEF AccountInv
          <6>2. CASE r # run
            BY <3>1, <4>5, <6>2 DEF AccountInv
          <6>3. QED BY <6>1, <6>2
        <5>2. QED BY <5>1
      <4>8. QED BY <2>1, <2>2, <3>1, <4>4, <4>6, <4>7 DEF AccountInv
    <3>4. QED BY <2>8, <3>2, <3>3
  <2>9. ASSUME NEW g \in Gates, Reject(g) PROVE AccountInv'
    BY <2>8, <2>9, RejectionCounts DEF Reject
  <2>10. CASE Admit
    BY <2>8, <2>10 DEF Admit
  <2>11. ASSUME run \in Runs, run' = run, uncounted' = uncounted, pc # "down",
                rejected' = Flushed, pending' = NoneOf, counters'.ticks = counters.ticks,
                \A r \in Runs : \/ rows'[r].ticks = rows[r].ticks
                                \/ r = run /\ rows'[r].ticks = counters.ticks
         PROVE  AccountInv'
    <3>1. /\ Accounted(run)' = Accounted(run) + InFlight /\ InFlight' = 0
          /\ \A r \in Runs : r # run => Accounted(r)' = Accounted(r)
      BY <2>11, CommitCounts
    <3>2. counters.ticks <= Accounted(run) + InFlight
      BY <2>11 DEF AccountInv
    <3>3. ASSUME NEW r \in Runs PROVE rows'[r].ticks <= Accounted(r)'
      <4>1. CASE r = run
        <5>1. Accounted(r)' = Accounted(run)'
          BY <2>11, <4>1 DEF Accounted
        <5>2. rows[run].ticks <= Accounted(run)
          BY <2>11 DEF AccountInv
        <5>3. QED BY <2>1, <2>2, <2>11, <3>1, <3>2, <4>1, <5>1, <5>2
      <4>2. CASE r # run
        BY <2>11, <3>1, <4>2 DEF AccountInv
      <4>3. QED BY <4>1, <4>2
    <3>4. QED BY <2>1, <2>2, <2>11, <3>1, <3>2, <3>3 DEF AccountInv
  <2>12. ASSUME NEW t \in Results, CloseWave(t) PROVE AccountInv'
    <3>1. /\ pc # "down" /\ pc' = pc /\ run' = run /\ run \in Runs
          /\ UNCHANGED <<rows, uncounted>>
      BY <2>1, <2>12 DEF CloseWave
    <3>2. counters'.ticks = counters.ticks
      BY <2>1, <2>12 DEF CloseWave, Counters
    <3>3. \/ rejected' = Flushed /\ pending' = NoneOf
          \/ UNCHANGED <<rejected, pending>>
      BY <2>12 DEF CloseWave
    <3>4. QED BY <2>5, <2>11, <3>1, <3>2, <3>3
  <2>13. CASE Heartbeat
    <3>1. /\ pc # "down" /\ run' = run /\ run \in Runs /\ counters' = counters
          /\ uncounted' = uncounted /\ rejected' = Flushed /\ pending' = NoneOf
      BY <2>1, <2>13 DEF Heartbeat, history
    <3>2. /\ rows[run] \in Row /\ counters.opens \in Nat /\ counters.closes \in Nat
          /\ rows' = [rows EXCEPT ![run] =
                       Beaten(rows[run], counters.ticks, counters.opens, counters.closes)]
      BY <2>1, <2>13, <3>1 DEF Heartbeat, Beaten, Counters
    <3>3. Beaten(rows[run], counters.ticks, counters.opens, counters.closes).ticks
            = counters.ticks
      BY <2>1, <3>2 DEF Beaten, Row
    <3>4. \A r \in Runs : \/ rows'[r].ticks = rows[r].ticks
                          \/ r = run /\ rows'[r].ticks = counters.ticks
      BY <2>1, <3>1, <3>2, <3>3
    <3>5. QED BY <2>11, <3>1, <3>4
  <2>14. CASE BootSucceeds \/ EndTick \/ Stop \/ Kill \/ (\E c \in Callers : Caller(c))
              \/ UNCHANGED vars
    <3>1. /\ UNCHANGED <<rejected, uncounted, rows, run>>
          /\ pc' # "down" => pc # "down" /\ UNCHANGED <<pending, counters>>
      BY <2>14 DEF BootSucceeds, EndTick, Stop, Kill, Caller, Call, Reading, ReadRow,
           ReadTrades, Evaluate, Record, Decide, Settle, Abandon, Goes, engine, records,
           history, vars
    <3>2. QED BY <2>4, <3>1 DEF AccountInv, InFlight, Accounted
  <2>15. QED
    BY <2>6, <2>7, <2>9, <2>10, <2>12, <2>13, <2>14 DEF Next, Tick
<1>4. TypeOK /\ AccountInv => EveryTickAccounted
  BY DEF AccountInv, EveryTickAccounted, Accounted, Rejected, SumOver
<1>5. QED BY <1>1, <1>3, <1>4, LedgerTypeCorrect, PTL DEF Spec
-----------------------------------------------------------------------------
(* The equity curve and the drawdown.                                       *)

\* The result of a run is an integer, and so is every point of its equity curve.
LEMMA TotalType ==
  ASSUME NEW s, NEW n \in Nat, DOMAIN s = 1..n, \A i \in 1..n : s[i].net \in Int
  PROVE  Total(s) \in Int
<1> DEFINE pick == LastPick(n)  S == 1..n
           step == [p \in S \X Int |-> p[2] + s[p[1]].net]
           P(h) == h = [t \in SUBSET S |->
                          IF t = {} THEN 0 ELSE h[t \ {Max(t)}] + s[Max(t)].net]
           F == CHOOSE h : P(h)
<1>1. Total(s) = F[S]
  BY DEF Total, FoldLeft, MapThenFoldSet
<1>2. IsFiniteSet(S) /\ Picks(pick, S)
  BY LastPicks
<1>3. \A i \in S, v \in Int : step[<<i, v>>] = v + s[i].net /\ step[<<i, v>>] \in Int
  OBVIOUS
<1>4. StepsWithin(step, S, Int)
  BY <1>3 DEF StepsWithin
<1>5. \A t \in SUBSET S : t # {} => /\ pick[t] = Max(t) /\ Max(t) \in S
                                    /\ t \ {Max(t)} \in SUBSET S
  BY <1>2 DEF LastPick, Picks
<1> HIDE DEF pick, step, S
<1>6. \E h : P(h)
  <2>1. PICK h \in [SUBSET S -> Int] : Folds(h, S, pick, 0, step)
    <3>1. 0 \in Int
      OBVIOUS
    <3>2. QED BY <1>2, <1>4, <3>1, FoldExists
  <2>2. ASSUME NEW t \in SUBSET S
        PROVE  h[t] = IF t = {} THEN 0 ELSE h[t \ {Max(t)}] + s[Max(t)].net
    <3>1. CASE t = {}
      BY <2>1, <3>1 DEF Folds
    <3>2. CASE t # {}
      <4>1. pick[t] = Max(t) /\ Max(t) \in S /\ t \ {Max(t)} \in SUBSET S
        BY <1>5, <3>2
      <4>2. h[t] = step[<<Max(t), h[t \ {Max(t)}]>>]
        BY <2>1, <3>2, <4>1 DEF Folds
      <4>3. QED BY <1>3, <2>1, <3>2, <4>1, <4>2
    <3>3. QED BY <3>1, <3>2
  <2>3. P(h)
    BY <2>1, <2>2
  <2>4. QED BY <2>3
<1>7. P(F)
  <2> HIDE DEF P
  <2>1. QED BY <1>6
<1> HIDE DEF F
<1>8. FoldsWithin(F, S, pick, Int, 0, step)
  <2>1. \A t \in SUBSET S : F[t] = IF t = {} THEN 0 ELSE F[t \ {Max(t)}] + s[Max(t)].net
    BY <1>7
  <2>2. F[{}] = 0
    BY <2>1
  <2>3. ASSUME NEW t \in SUBSET S, t # {}, F[t \ {pick[t]}] \in Int
        PROVE  F[t] = step[<<pick[t], F[t \ {pick[t]}]>>]
    <3>1. pick[t] = Max(t) /\ Max(t) \in S
      BY <1>5, <2>3
    <3>2. step[<<Max(t), F[t \ {Max(t)}]>>] = F[t \ {Max(t)}] + s[Max(t)].net
      BY <1>3, <2>3, <3>1
    <3>3. QED BY <2>1, <2>3, <3>1, <3>2
  <2>4. QED BY <2>2, <2>3 DEF FoldsWithin
<1>9. QED BY <1>1, <1>2, <1>4, <1>8, FoldTyped

\* The state that the pass over n points carries: the highest point yet, and
\* whether a point has fallen below half of the highest before it.
Carried == [peak : Int, deep : BOOLEAN]
\* What the pass does with the next point.
Passes(acc, value) ==
  LET peak == PeakAfter(acc.peak, value)
  IN [peak |-> peak, deep |-> acc.deep \/ (peak > 0 /\ 2 * (peak - value) > 1 * peak)]

\* The pass has a state after each of its points.
LEMMA DrawdownPass ==
  ASSUME NEW n \in Nat, NEW equity, DOMAIN equity = 0..n, \A i \in 0..n : equity[i] \in Int
  PROVE  \E acc \in [0..(n + 1) -> Carried] :
           /\ acc[0] = [peak |-> equity[0], deep |-> FALSE]
           /\ acc[n + 1].deep <=> DrawdownExceeds(equity, 1, 2)
           /\ \A k \in 1..(n + 1) : acc[k] = Passes(acc[k - 1], equity[k - 1])
<1> DEFINE seq == [i \in 1..Cardinality(DOMAIN equity) |-> equity[i - 1]]
           base == [peak |-> equity[0], deep |-> FALSE]
           pick == LastPick(n + 1)  S == 1..(n + 1)
           step == [p \in S \X Carried |-> Passes(p[2], seq[p[1]])]
           P(h) == h = [t \in SUBSET S |->
                          IF t = {} THEN base ELSE Passes(h[t \ {Max(t)}], seq[Max(t)])]
           F == CHOOSE h : P(h)
<1>1. Cardinality(DOMAIN equity) = n + 1
  BY FS_Interval
<1>2. DOMAIN seq = S /\ \A k \in S : seq[k] = equity[k - 1] /\ seq[k] \in Int
  BY <1>1
<1>3. DrawdownExceeds(equity, 1, 2) = F[S].deep
  BY <1>2 DEF DrawdownExceeds, FoldLeft, MapThenFoldSet, Passes
<1>4. IsFiniteSet(S) /\ Picks(pick, S)
  BY LastPicks
<1>5. base \in Carried
  BY DEF Carried
<1>6. \A v \in Carried, x \in Int : Passes(v, x) \in Carried
  BY DEF Carried, Passes, PeakAfter
<1> HIDE DEF base, seq
<1>7. \A i \in S, v \in Carried : /\ step[<<i, v>>] = Passes(v, seq[i])
                                  /\ step[<<i, v>>] \in Carried
  BY <1>2, <1>6
<1>8. StepsWithin(step, S, Carried)
  BY <1>7 DEF StepsWithin
<1>9. \A t \in SUBSET S : t # {} => /\ pick[t] = Max(t) /\ Max(t) \in S
                                    /\ t \ {Max(t)} \in SUBSET S
  BY <1>4 DEF LastPick, Picks
<1> HIDE DEF pick, step, S
<1>10. \E h : P(h)
  <2>1. PICK h \in [SUBSET S -> Carried] : Folds(h, S, pick, base, step)
    BY <1>4, <1>5, <1>8, FoldExists
  <2>2. ASSUME NEW t \in SUBSET S
        PROVE  h[t] = IF t = {} THEN base ELSE Passes(h[t \ {Max(t)}], seq[Max(t)])
    <3>1. CASE t = {}
      BY <2>1, <3>1 DEF Folds
    <3>2. CASE t # {}
      <4>1. pick[t] = Max(t) /\ Max(t) \in S /\ t \ {Max(t)} \in SUBSET S
        BY <1>9, <3>2
      <4>2. h[t] = step[<<Max(t), h[t \ {Max(t)}]>>]
        BY <2>1, <3>2, <4>1 DEF Folds
      <4>3. QED BY <1>7, <2>1, <3>2, <4>1, <4>2
    <3>3. QED BY <3>1, <3>2
  <2>3. P(h)
    BY <2>1, <2>2
  <2>4. QED BY <2>3
<1>11. P(F)
  <2> HIDE DEF P
  <2>1. QED BY <1>10
<1> HIDE DEF F
<1>12. FoldsWithin(F, S, pick, Carried, base, step)
  <2>1. \A t \in SUBSET S :
          F[t] = IF t = {} THEN base ELSE Passes(F[t \ {Max(t)}], seq[Max(t)])
    BY <1>11
  <2>2. F[{}] = base
    BY <2>1
  <2>3. ASSUME NEW t \in SUBSET S, t # {}, F[t \ {pick[t]}] \in Carried
        PROVE  F[t] = step[<<pick[t], F[t \ {pick[t]}]>>]
    <3>1. pick[t] = Max(t) /\ Max(t) \in S
      BY <1>9, <2>3
    <3>2. step[<<Max(t), F[t \ {Max(t)}]>>] = Passes(F[t \ {Max(t)}], seq[Max(t)])
      BY <1>7, <2>3, <3>1
    <3>3. QED BY <2>1, <2>3, <3>1, <3>2
  <2>4. QED BY <2>2, <2>3 DEF FoldsWithin
<1>13. PICK acc \in [0..(n + 1) -> Carried] :
         /\ acc[0] = base /\ acc[n + 1] = F[1..(n + 1)]
         /\ \A k \in 1..(n + 1) : acc[k] = step[<<k, acc[k - 1]>>]
  BY <1>5, <1>8, <1>12, FoldFromLeft DEF pick, S
<1>14. acc[0] = [peak |-> equity[0], deep |-> FALSE]
  BY <1>13 DEF base
<1>15. acc[n + 1].deep <=> DrawdownExceeds(equity, 1, 2)
  BY <1>3, <1>13 DEF S
<1>16. ASSUME NEW k \in 1..(n + 1) PROVE acc[k] = Passes(acc[k - 1], equity[k - 1])
  <2>1. k \in S /\ acc[k - 1] \in Carried
    BY <1>13 DEF S
  <2>2. QED BY <1>2, <1>7, <1>13, <2>1
<1>17. QED BY <1>14, <1>15, <1>16

\* After k points the pass carries the highest of them, and knows whether one of
\* them lies below half of a point before it: below half of the highest before
\* it is the same, for the highest falls the furthest.
LEMMA WorstFall ==
  ASSUME NEW n \in Nat, NEW equity, DOMAIN equity = 0..n, \A i \in 0..n : equity[i] \in Int
  PROVE  DrawdownExceeds(equity, 1, 2) <=>
           \E j \in 0..n : \E i \in 0..j :
             equity[i] > 0 /\ 2 * (equity[i] - equity[j]) > equity[i]
<1> DEFINE Fell(i, j) == equity[i] > 0 /\ 2 * (equity[i] - equity[j]) > equity[i]
<1>1. PICK acc \in [0..(n + 1) -> Carried] :
        /\ acc[0] = [peak |-> equity[0], deep |-> FALSE]
        /\ acc[n + 1].deep <=> DrawdownExceeds(equity, 1, 2)
        /\ \A k \in 1..(n + 1) : acc[k] = Passes(acc[k - 1], equity[k - 1])
  BY DrawdownPass
<1>2. ASSUME NEW k \in 0..(n + 1)
      PROVE  acc[k].peak \in Int /\ acc[k].deep \in BOOLEAN
  BY <1>1 DEF Carried
<1> DEFINE Highest(k) == /\ \A i \in 0..(k - 1) : equity[i] <= acc[k].peak
                         /\ \E i \in 0..n : i <= k /\ equity[i] = acc[k].peak
                                            /\ (k > 0 => i < k)
           Known(k) == acc[k].deep <=> \E j \in 0..(k - 1) : \E i \in 0..j : Fell(i, j)
           Good == {k \in 0..(n + 1) : Highest(k) /\ Known(k)}
<1>3. 0 \in Good
  <2>1. Highest(0)
    BY <1>1
  <2>2. Known(0)
    BY <1>1
  <2>3. QED BY <2>1, <2>2
<1>4. ASSUME NEW k \in 1..(n + 1), k - 1 \in Good PROVE k \in Good
  <2> DEFINE x == equity[k - 1]  old == acc[k - 1]  new == acc[k]
  <2>1. k - 1 \in 0..n /\ x \in Int /\ old.peak \in Int /\ old.deep \in BOOLEAN
    BY <1>2
  <2>2. /\ new.peak = IF x > old.peak THEN x ELSE old.peak
        /\ new.deep <=> old.deep \/ (new.peak > 0 /\ 2 * (new.peak - x) > 1 * new.peak)
    <3>1. acc[k] = Passes(acc[k - 1], equity[k - 1])
      BY <1>1
    <3> DEFINE peak == IF x > old.peak THEN x ELSE old.peak
               deep == old.deep \/ (peak > 0 /\ 2 * (peak - x) > 1 * peak)
    <3>2. new = [peak |-> peak, deep |-> deep]
      BY <3>1, Zenon DEF Passes, PeakAfter
    <3> HIDE DEF peak, deep
    <3>3. new.peak = peak /\ new.deep = deep
      BY <3>2
    <3>4. QED BY <3>3 DEF peak, deep
  <2>3. Highest(k - 1) /\ Known(k - 1)
    BY <1>4
  <2>4. new.peak \in Int
    BY <2>1, <2>2
  <2>5. \A i \in 0..(k - 1) : equity[i] <= new.peak
    <3>1. TAKE i \in 0..(k - 1)
    <3>2. equity[i] \in Int /\ (i = k - 1 \/ i \in 0..(k - 1 - 1))
      OBVIOUS
    <3>3. new.peak >= x /\ new.peak >= old.peak
      BY <2>1, <2>2
    <3>4. CASE i = k - 1
      BY <3>3, <3>4
    <3>5. CASE i \in 0..(k - 1 - 1)
      <4>1. equity[i] <= old.peak
        BY <2>3, <3>5
      <4> HIDE DEF x, old, new
      <4>2. QED BY <2>1, <2>4, <3>2, <3>3, <4>1
    <3>6. QED BY <3>2, <3>4, <3>5
  <2>6. PICK m \in 0..(k - 1) : equity[m] = new.peak
    <3>1. CASE x > old.peak
      BY <2>1, <2>2, <3>1
    <3>2. CASE ~(x > old.peak)
      BY <2>1, <2>2, <2>3, <3>2
    <3>3. QED BY <3>1, <3>2
  <2>7. Highest(k)
    BY <2>5, <2>6
  <2>8. (\E i \in 0..(k - 1) : Fell(i, k - 1)) <=>
          new.peak > 0 /\ 2 * (new.peak - x) > 1 * new.peak
    <3>1. ASSUME NEW i \in 0..(k - 1), Fell(i, k - 1)
          PROVE  new.peak > 0 /\ 2 * (new.peak - x) > 1 * new.peak
      <4>1. equity[i] \in Int /\ equity[i] <= new.peak
        BY <2>5
      <4>2. QED BY <2>1, <2>4, <3>1, <4>1
    <3>2. ASSUME new.peak > 0 /\ 2 * (new.peak - x) > 1 * new.peak
          PROVE  Fell(m, k - 1)
      BY <2>1, <2>4, <2>6, <3>2
    <3>3. QED BY <2>6, <3>1, <3>2
  <2>9. (\E j \in 0..(k - 1) : \E i \in 0..j : Fell(i, j)) <=>
          \/ \E j \in 0..(k - 1 - 1) : \E i \in 0..j : Fell(i, j)
          \/ \E i \in 0..(k - 1) : Fell(i, k - 1)
    <3>1. \A j \in 0..(k - 1) : j = k - 1 \/ j \in 0..(k - 1 - 1)
      OBVIOUS
    <3>2. k - 1 \in 0..(k - 1) /\ \A j \in 0..(k - 1 - 1) : j \in 0..(k - 1)
      OBVIOUS
    <3> HIDE DEF Fell
    <3>3. QED BY <3>1, <3>2
  <2>10. Known(k)
    <3> HIDE DEF Fell
    <3>1. QED BY <2>2, <2>3, <2>8, <2>9
  <2>11. QED BY <2>7, <2>10
<1>5. 0..(n + 1) \subseteq Good
  <2>1. n + 1 \in Nat
    OBVIOUS
  <2> HIDE DEF Good
  <2>2. QED BY <1>3, <1>4, <2>1, PrefixInduction
<1>6. n + 1 \in Good
  <2> HIDE DEF Good
  <2>1. QED BY <1>5
<1>7. Known(n + 1)
  BY <1>6
<1>8. QED BY <1>1, <1>7

\* The equity curve of a run is made of integers, one for its start and one for
\* each of its trades.
LEMMA EquityType ==
  ASSUME TypeOK, NEW r \in Runs
  PROVE  LET equity == Equity(trades[r], rows[r].start)
         IN /\ Len(trades[r]) \in Nat /\ DOMAIN equity = 0..Len(trades[r])
            /\ \A i \in 0..Len(trades[r]) : equity[i] \in Int
<1>1. trades[r] \in Seq(Trade) /\ rows[r].start \in Int
  BY DEF TypeOK, Row
<1>2. Len(trades[r]) \in Nat
  BY <1>1
<1>3. ASSUME NEW i \in 0..Len(trades[r])
      PROVE  Total(SubSeq(trades[r], 1, i)) \in Int
  <2> DEFINE s == SubSeq(trades[r], 1, i)
  <2>1. i \in Int /\ \A j \in 1..i : trades[r][j] \in Trade
    BY <1>1, <1>2
  <2>2. s \in Seq(Trade) /\ Len(s) = i
    BY <2>1, SubSeqProperties
  <2>3. DOMAIN s = 1..i /\ \A j \in 1..i : s[j] \in Trade
    BY <2>2
  <2>4. \A j \in 1..i : s[j].net \in Int
    BY <2>3, BoundAssumption DEF Trade
  <2> HIDE DEF s
  <2>5. Total(s) \in Int
    BY <2>3, <2>4, TotalType
  <2>6. QED BY <2>5 DEF s
<1>4. QED BY <1>1, <1>2, <1>3 DEF Equity

\* The pass of layer five over the equity curve, which looks at every point
\* once, finds the worst fall from any earlier point.
THEOREM DrawdownSound == Spec => []DrawdownIsWorstFall
<1>1. TypeOK => DrawdownIsWorstFall
  <2>1. SUFFICES ASSUME TypeOK, NEW r \in Runs
                 PROVE  LET equity == Equity(trades[r], rows[r].start)
                        IN DrawdownExceeds(equity, 1, 2) <=>
                             \E j \in DOMAIN equity : \E i \in 0..j :
                               equity[i] > 0 /\ 2 * (equity[i] - equity[j]) > equity[i]
    BY DEF DrawdownIsWorstFall
  <2> DEFINE equity == Equity(trades[r], rows[r].start)
  <2>2. /\ Len(trades[r]) \in Nat /\ DOMAIN equity = 0..Len(trades[r])
        /\ \A i \in 0..Len(trades[r]) : equity[i] \in Int
    BY <2>1, EquityType
  <2> HIDE DEF equity
  <2>3. DrawdownExceeds(equity, 1, 2) <=>
          \E j \in DOMAIN equity : \E i \in 0..j :
            equity[i] > 0 /\ 2 * (equity[i] - equity[j]) > equity[i]
    BY <2>2, WorstFall
  <2>4. QED BY <2>3 DEF equity
<1>2. QED BY <1>1, LedgerTypeCorrect, PTL
===============================================================================
