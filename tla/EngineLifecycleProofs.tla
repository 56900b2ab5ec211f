------------------------ MODULE EngineLifecycleProofs ------------------------
(***************************************************************************)
(* Proofs about the life of the process, for every pair list and whatever  *)
(* stops, failures and crashes the environment may produce.                *)
(***************************************************************************)
EXTENDS EngineLifecycle, TLAPS

-----------------------------------------------------------------------------
\* A task that is about to be created has no cycle under way: before the process
\* trades there is no task, before the restart there is no second one.  The event
\* loop stops a process only while it trades.
TypeInv ==
  /\ TypeOK
  /\ cmd["main"] \in {"open", "write"} => phase = "running"
  /\ phase # "running" => universe = "scoring" /\ poll = NoTasks
  /\ universe # "done" => poll["refixed"] = "none"

\* The state of the process keeps its types (TypeOK): the event loop clears the
\* flag only while the boot waits for it, a task has a cycle only while it polls,
\* and a stop meets a clear only while it is under way.
THEOREM LifecycleTypeCorrect == Spec => []TypeOK
<1>1. Init => TypeInv
  <2> SUFFICES ASSUME Init PROVE TypeInv
    OBVIOUS
  <2>1. "main" \in Threads /\ cmd["main"] = "idle" /\ poll["refixed"] = "none"
    BY DEF Init, NoTasks, Threads, Tasks
  <2>2. ws \in [Tasks -> Gone] /\ poll \in [Tasks -> Gone]
    BY DEF Init, NoTasks, Gone
  <2>3. QED BY <2>1, <2>2 DEF Init, TypeInv, TypeOK, Gone, Clearing
<1>2. TypeInv /\ [Next]_vars => TypeInv'
  <2> SUFFICES ASSUME TypeInv, [Next]_vars PROVE TypeInv'
    OBVIOUS
  <2> USE DEF TypeInv, TypeOK, signals, feed, poller, Gone, Clearing
  <2>a. \A h : /\ h \in Contested <=> h \in Threads /\ cmd[h] \in {"open", "write"}
               /\ h \in Contested' <=> h \in Threads /\ cmd'[h] \in {"open", "write"}
    BY DEF Contested
  <2> USE <2>a
  <2>1. CASE Dies /\ UNCHANGED flag
    BY <2>1 DEF Dies, NoTasks, Tasks, Threads
  <2>2. CASE Boot \/ BootClears
    <3>1. CASE Boot
      BY <3>1 DEF Boot
    <3>2. CASE BootClears
      BY <3>2 DEF BootClears, Threads
    <3>3. QED BY <2>2, <3>1, <3>2
  <2>3. CASE StartFeeds
    BY <2>3 DEF StartFeeds, Tasks, NoTasks
  <2>4. ASSUME NEW h \in Threads, RequestStop(h) PROVE TypeInv'
    BY <2>4 DEF RequestStop, MayCommand
  <2>5. CASE Resume
    BY <2>5 DEF Resume, MayCommand, Threads
  <2>6. ASSUME NEW h \in Threads, OpenFlag(h) PROVE TypeInv'
    <3>1. CASE cmd' = [cmd EXCEPT ![h] = "write"] /\ UNCHANGED contested
      BY <2>6, <3>1 DEF OpenFlag, Truncated
    <3>2. CASE cmd' = [cmd EXCEPT ![h] = "idle"] /\ contested' = contested \ {h}
      BY <2>6, <3>2 DEF OpenFlag, Truncated
    <3>3. QED BY <2>6, <3>1, <3>2 DEF OpenFlag
  <2>7. ASSUME NEW h \in Threads, WriteFlag(h) PROVE TypeInv'
    BY <2>7 DEF WriteFlag
  <2>8. ASSUME NEW h \in Threads, LookAtFlag(h) \/ RemoveFlag(h) PROVE TypeInv'
    BY <2>8 DEF LookAtFlag, RemoveFlag, Cleared, Threads
  <2>9. ASSUME NEW t \in Tasks, WsTask(t) \/ WsOpen(t) \/ WsStops(t) PROVE TypeInv'
    <3>1. /\ \E state \in {"connecting", "dead", "reading", "backoff"} :
               ws' = [ws EXCEPT ![t] = state]
          /\ feedRunning' \in BOOLEAN
          /\ UNCHANGED <<signals, poller, universe, position>>
      BY <2>9 DEF WsTask, WsStart, WsOpen, WsFail, WsEnd, WsRetry, WsStops, WsGoesTo,
                  NextRound
    <3>2. QED BY <3>1
  <2>10. ASSUME NEW t \in Tasks, PollTask(t) PROVE TypeInv'
    <3> USE ListAssumption DEF EventLoop, NoTasks, Tasks
    <3>1. CASE PollStart(t)
      BY <3>1 DEF PollStart, PollRound, StartsRunning
    <3>2. CASE PollSleeps(t) \/ PollStops(t)
      BY <3>2 DEF PollSleeps, PollStops, AfterStop
    <3>3. CASE PollWakes(t)
      BY <3>3 DEF PollWakes, PollRound
    <3>4. ASSUME NEW p \in Pairs, PollTick(t, p) \/ PollMisses(t, p) PROVE TypeInv'
      BY <3>4 DEF PollTick, PollMisses
    <3>5. QED BY <2>10, <3>1, <3>2, <3>3, <3>4 DEF PollTask
  <2>11. CASE KeepList \/ StopFeed
    <3>1. CASE KeepList
      BY <3>1 DEF KeepList, UniverseGoesTo, EventLoop
    <3>2. CASE StopFeed
      BY <3>2 DEF StopFeed, UniverseGoesTo, EventLoop
    <3>3. QED BY <2>11, <3>1, <3>2
  <2>12. CASE StopPoller
    BY <2>12 DEF StopPoller, UniverseGoesTo, EventLoop, Tasks
  <2>13. CASE RestartFeeds
    BY <2>13 DEF RestartFeeds, RestartedPoll, UniverseGoesTo, EventLoop, Tasks
  <2>14. CASE \E p \in Pairs : Age(p)
    BY <2>14 DEF Age
  <2>15. CASE UNCHANGED vars
    BY <2>15 DEF vars
  <2>16. QED
    BY <2>1, <2>2, <2>3, <2>4, <2>5, <2>6, <2>7, <2>8, <2>9, <2>10, <2>11, <2>12,
       <2>13, <2>14, <2>15
    DEF Next, BootStep, FileStep, BootFails, BootRefused, Crash, Refine
<1>3. QED BY <1>1, <1>2, PTL DEF Spec, TypeInv

-----------------------------------------------------------------------------
\* A stop under way that has met no clear is in memory, nobody is clearing, and
\* the file is there once it has been opened; the same holds after it.
KeptInv ==
  /\ cmd \in [Threads -> {"idle", "open", "write", "look", "remove"}]
  /\ owner = "here" => /\ stopReq /\ flag # "absent"
                       /\ \A g \in Threads : cmd[g] \notin Clearing
  /\ \A h \in Threads : (cmd[h] \in {"open", "write"} /\ h \notin contested) =>
       /\ stopReq
       /\ \A g \in Threads : cmd[g] \notin Clearing
       /\ cmd[h] = "write" => flag # "absent"

\* However the Telegram thread, the signal handler and the boot interleave, a
\* stop that was written and met no clear is both in memory and on disk
\* (StopIsKept).
THEOREM StopKept == Spec => []StopIsKept
<1>1. Init => KeptInv
  BY DEF Init, KeptInv, Clearing
<1>2. KeptInv /\ [Next]_vars => KeptInv'
  <2> SUFFICES ASSUME KeptInv, [Next]_vars PROVE KeptInv'
    OBVIOUS
  <2> USE DEF KeptInv, Clearing, signals
  <2>1. CASE UNCHANGED signals
    BY <2>1
  <2>2. CASE Dies /\ UNCHANGED flag
    BY <2>2 DEF Dies
  <2>3. ASSUME NEW h \in Threads, RequestStop(h) PROVE KeptInv'
    BY <2>3 DEF RequestStop, MayCommand
  <2>4. ASSUME NEW h \in Threads, OpenFlag(h) PROVE KeptInv'
    BY <2>4 DEF OpenFlag, Truncated
  <2>5. ASSUME NEW h \in Threads, WriteFlag(h) PROVE KeptInv'
    BY <2>5 DEF WriteFlag
  <2>6. CASE Resume
    BY <2>6 DEF Resume, MayCommand, Contested, Threads
  <2>7. CASE BootClears
    BY <2>7 DEF BootClears, Contested, Threads
  <2>8. ASSUME NEW h \in Threads, LookAtFlag(h) PROVE KeptInv'
    BY <2>8 DEF LookAtFlag, Cleared
  <2>9. ASSUME NEW h \in Threads, RemoveFlag(h) PROVE KeptInv'
    BY <2>9 DEF RemoveFlag, Cleared
  <2>10. CASE Boot \/ StartFeeds
    BY <2>10 DEF Boot, StartFeeds
  <2>11. QED
    BY <2>1, <2>2, <2>3, <2>4, <2>5, <2>6, <2>7, <2>8, <2>9, <2>10
    DEF Next, BootStep, FileStep, BootFails, BootRefused, Crash, WsTask, WsStart, WsOpen,
        WsFail, WsEnd, WsRetry, WsStops, WsGoesTo, PollTask, PollStart, PollTick,
        PollMisses, PollStops, PollSleeps, PollWakes, KeepList, StopFeed, Refine,
        StopPoller, RestartFeeds, UniverseGoesTo, Age, vars
<1>3. KeptInv => StopIsKept
  BY DEF KeptInv, StopIsKept
<1>4. QED BY <1>1, <1>2, <1>3, PTL DEF Spec

-----------------------------------------------------------------------------
\* Outside the restart of the feeds, each has a task that is about to start, or
\* its running flag is set and a task is alive.
Trading == phase = "running" /\ ~stopped
Settled == Trading /\ universe \in {"scoring", "done"}
WsStates == Gone \union {"created", "connecting", "reading", "closed", "backoff"}
PollStates == Gone \union {"created", "polling", "sleeping", "waking"}
UpInv ==
  /\ ws \in [Tasks -> WsStates] /\ poll \in [Tasks -> PollStates]
  /\ cmd \in [Threads -> {"idle", "open", "write"} \union Clearing]
  /\ cmd["main"] \in Clearing => phase = "clearing"
  /\ phase # "running" => universe = "scoring" /\ ws = NoTasks /\ poll = NoTasks
  /\ Trading => ~stopReq
  /\ Settled => \/ \E t \in Tasks : ws[t] = "created"
                \/ feedRunning /\ \E t \in Tasks : ws[t] \notin Gone
  /\ Settled => \/ \E t \in Tasks : poll[t] = "created"
                \/ pollRunning /\ \E t \in Tasks : poll[t] \notin Gone

\* As long as no stop was requested, neither feed is ever left without a task:
\* the restart of the feeds cannot lose one to the loops it stops (FeedsStayUp).
THEOREM FeedsUp == Spec => []FeedsStayUp
<1>1. Init => UpInv
  BY DEF Init, UpInv, NoTasks, Trading, Settled, WsStates, PollStates, Gone, Clearing,
         Threads
<1>2. UpInv /\ [Next]_vars => UpInv'
  <2> SUFFICES ASSUME UpInv, [Next]_vars PROVE UpInv'
    OBVIOUS
  <2> USE DEF UpInv, Trading, Settled, signals, feed, poller, Gone, WsStates,
             PollStates, Clearing, Threads
  <2>1. CASE Dies
    BY <2>1 DEF Dies, NoTasks
  <2>2. CASE Boot \/ BootClears
    BY <2>2 DEF Boot, BootClears
  <2>3. CASE StartFeeds
    BY <2>3 DEF StartFeeds, Tasks
  <2>4. ASSUME NEW h \in Threads, RequestStop(h) PROVE UpInv'
    BY <2>4 DEF RequestStop
  <2>5. CASE Resume
    BY <2>5 DEF Resume
  <2>6. ASSUME NEW h \in Threads, FileStep(h) PROVE UpInv'
    BY <2>6 DEF FileStep, OpenFlag, WriteFlag, LookAtFlag, RemoveFlag, Cleared
  <2>7. ASSUME NEW t \in Tasks, WsTask(t) \/ WsOpen(t) \/ WsStops(t) PROVE UpInv'
    BY <2>7 DEF WsTask, WsStart, WsOpen, WsFail, WsEnd, WsRetry, WsStops, WsGoesTo,
                NextRound, EventLoop
  <2>8. ASSUME NEW t \in Tasks, PollTask(t) PROVE UpInv'
    BY <2>8 DEF PollTask, PollStart, PollTick, PollMisses, PollStops, PollSleeps,
                PollWakes, PollRound, StartsRunning, AfterStop, EventLoop
  <2>9. CASE KeepList
    BY <2>9 DEF KeepList, UniverseGoesTo, EventLoop
  <2>10. CASE StopFeed
    BY <2>10 DEF StopFeed, UniverseGoesTo, EventLoop
  <2>11. CASE StopPoller
    BY <2>11 DEF StopPoller, UniverseGoesTo, EventLoop
  <2>12. CASE RestartFeeds
    BY <2>12 DEF RestartFeeds, RestartedPoll, UniverseGoesTo, EventLoop, Tasks
  <2>13. CASE \E p \in Pairs : Age(p)
    BY <2>13 DEF Age
  <2>14. CASE UNCHANGED vars
    BY <2>14 DEF vars
  <2>15. QED
    BY <2>1, <2>2, <2>3, <2>4, <2>5, <2>6, <2>7, <2>8, <2>9, <2>10, <2>11, <2>12,
       <2>13, <2>14
    DEF Next, BootStep, BootFails, BootRefused, Crash, Refine
<1>3. UpInv => FeedsStayUp
  BY DEF UpInv, FeedsStayUp, Trading, Settled, Gone
<1>4. QED BY <1>1, <1>2, <1>3, PTL DEF Spec
===============================================================================
