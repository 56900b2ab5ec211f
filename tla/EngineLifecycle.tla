---------------------------- MODULE EngineLifecycle ----------------------------
(***************************************************************************)
(* The life of the process around the trading core: boot, the stop flag    *)
(* file, the /stop and /resume commands, the two price feeds, the universe *)
(* task that replaces the pair list and restarts the feeds, crash and      *)
(* restart (engine/runtime.py, marketdata/feed.py, marketdata/rest.py,     *)
(* notify/telegram.py, __main__.py).                                       *)
(*                                                                         *)
(* Three things interleave: the coroutines of the event loop, one step     *)
(* between two awaits at a time; the Telegram thread, one step per file    *)
(* operation; and the process being killed.  A tick is one step here: what *)
(* it does to a position is WaveEngine's subject, and of a position this   *)
(* module keeps only whether the pair has one and whether it is past       *)
(* max_wave_age_s, when the next tick of the pair closes it.               *)
(***************************************************************************)
EXTENDS Integers

CONSTANTS
  Pairs,    \* the pair list the process boots with
  Selected, \* the list the ranker refines it to
  Commanders, \* threads a stop can come from in this run
  MayCrash, MayFailIO \* what else the environment does in this run

ASSUME ListAssumption == Selected # {} /\ Selected \subseteq Pairs
ASSUME SwitchAssumption ==
  Commanders \subseteq {"main", "telegram"} /\ {MayCrash, MayFailIO} \subseteq BOOLEAN

VARIABLES
  phase,       \* where the process is: "down", "boot", "clearing", "check", "running"
  cmd,         \* next file operation of a stop or clear under way, per thread
  stopReq,     \* state.stop_requested
  flag,        \* the stop flag file: "absent", "empty" (opened, not written), "full"
  feedRunning, \* FeedMux._running
  ws,          \* FeedMux.connect, one state per task that runs it
  pollRunning, \* RestPoller._running
  pollPairs,   \* RestPoller._pairs
  poll,        \* RestPoller.run, one state per task that runs it
  cycle,       \* pairs a poller task has still to ask for in this cycle
  universe,    \* the universe task
  position,    \* pair -> "none", "young", "aged"
  owner,       \* history: last owner's stop: "none", "here" (this process), "before"
  stopped,     \* history: a stop was requested since this process started trading
  contested    \* history: threads whose stop under way has met a clear

Threads == {"main", "telegram"}
Tasks == {"first", "refixed"} \* created by run() and by _refine_pair_list
Clearing == {"look", "remove"}

signals == <<phase, cmd, stopReq, flag, owner, stopped, contested>>
feed == <<feedRunning, ws>>
poller == <<pollRunning, pollPairs, poll, cycle>>
vars == <<signals, feed, poller, universe, position>>

NoTasks == [t \in Tasks |-> "none"]

Init ==
  /\ phase = "boot" /\ cmd = [h \in Threads |-> "idle"]
  /\ stopReq = FALSE /\ flag = "absent"
  /\ feedRunning = FALSE /\ ws = NoTasks
  /\ pollRunning = FALSE /\ pollPairs = Pairs /\ poll = NoTasks
  /\ cycle = [t \in Tasks |-> {}]
  /\ universe = "scoring"
  /\ position = [p \in Pairs |-> "none"]
  /\ owner = "none" /\ stopped = FALSE /\ contested = {}

\* The process is gone: the file and the owner's wish remain.
Dies ==
  /\ phase' = "down" /\ cmd' = [h \in Threads |-> "idle"] /\ stopReq' = FALSE
  /\ feedRunning' = FALSE /\ ws' = NoTasks
  /\ pollRunning' = FALSE /\ pollPairs' = Pairs /\ poll' = NoTasks
  /\ cycle' = [t \in Tasks |-> {}]
  /\ universe' = "scoring"
  /\ position' = [p \in Pairs |-> "none"]
  /\ owner' = IF owner = "none" THEN "none" ELSE "before"
  /\ stopped' = FALSE /\ contested' = {}

Crash == MayCrash /\ phase # "down" /\ Dies /\ UNCHANGED flag

\* restart: unless-stopped.  The listener thread runs from here on.
Boot ==
  /\ phase = "down" /\ phase' = "boot"
  /\ UNCHANGED <<cmd, stopReq, flag, owner, stopped, contested, feed, poller, universe, position>>

-----------------------------------------------------------------------------
(* request_stop and clear_stop, one file operation at a time.               *)

MayCommand(h) ==
  /\ h \in Commanders /\ cmd[h] = "idle"
  /\ IF h = "main" THEN phase = "running" ELSE phase # "down"

\* /stop on the Telegram thread, or a signal handled by the event loop.
RequestStop(h) ==
  /\ MayCommand(h)
  /\ cmd' = [cmd EXCEPT ![h] = "open"]
  /\ stopReq' = TRUE /\ stopped' = TRUE
  /\ contested' = IF \E g \in Threads : cmd[g] \in Clearing
                  THEN contested \union {h} ELSE contested
  /\ UNCHANGED <<phase, flag, owner, feed, poller, universe, position>>

Truncated_NotCreated == flag \* seeded defect
Truncated == "empty"

\* open(path, "w"): when it fails the stop stays in memory only.
OpenFlag(h) ==
  /\ cmd[h] = "open"
  /\ \/ flag' = Truncated /\ cmd' = [cmd EXCEPT ![h] = "write"]
        /\ UNCHANGED contested
     \/ MayFailIO /\ cmd' = [cmd EXCEPT ![h] = "idle"] /\ UNCHANGED flag
        /\ contested' = contested \ {h}
  /\ UNCHANGED <<phase, stopReq, owner, stopped, feed, poller, universe, position>>

\* The stop counts as the owner's last word when it is written and has met no
\* clear on the way.
WriteFlag(h) ==
  /\ cmd[h] = "write"
  /\ cmd' = [cmd EXCEPT ![h] = "idle"]
  /\ \/ /\ flag' = IF flag = "empty" THEN "full" ELSE flag
        /\ owner' = IF h \notin contested THEN "here" ELSE owner
     \/ MayFailIO /\ UNCHANGED <<flag, owner>>
  /\ contested' = contested \ {h}
  /\ UNCHANGED <<phase, stopReq, stopped, feed, poller, universe, position>>

Contested == {h \in Threads : cmd[h] \in {"open", "write"}}

\* /resume, on the Telegram thread.
Resume ==
  /\ MayCommand("telegram")
  /\ cmd' = [cmd EXCEPT !["telegram"] = "look"]
  /\ stopReq' = FALSE /\ owner' = "none" /\ contested' = Contested
  /\ UNCHANGED <<phase, flag, stopped, feed, poller, universe, position>>

\* run() calls the same clear_stop at every boot; a stop that this process has
\* already taken is lost with it.
BootClears ==
  /\ phase = "boot" /\ phase' = "clearing"
  /\ cmd' = [cmd EXCEPT !["main"] = "look"]
  /\ stopReq' = FALSE
  /\ owner' = IF owner = "here" THEN "none" ELSE owner
  /\ contested' = Contested
  /\ UNCHANGED <<flag, stopped, feed, poller, universe, position>>

\* clear_stop is over; at boot, run() goes on to look for the flag.
Cleared_PhaseLeft(h) == cmd' = [cmd EXCEPT ![h] = "idle"] /\ phase' = phase \* seeded defect
Cleared(h) ==
  /\ cmd' = [cmd EXCEPT ![h] = "idle"]
  /\ phase' = IF h = "main" THEN "check" ELSE phase

\* clear_stop reads the flag before it removes it, whatever its age.  An empty
\* flag does not unpack: the ValueError ends the boot, or is swallowed by the
\* listener.
LookAtFlag(h) ==
  /\ cmd[h] = "look"
  /\ \/ flag = "full" /\ cmd' = [cmd EXCEPT ![h] = "remove"] /\ UNCHANGED phase
     \/ flag = "absent" /\ Cleared(h)
     \/ flag = "empty" /\ h = "telegram" /\ Cleared(h)
  /\ UNCHANGED <<stopReq, flag, owner, stopped, contested, feed, poller, universe,
                 position>>
BootFails == cmd["main"] = "look" /\ flag = "empty" /\ Dies /\ UNCHANGED flag

RemoveFlag(h) ==
  /\ cmd[h] = "remove" /\ Cleared(h)
  /\ flag' = "absent" \/ (MayFailIO /\ UNCHANGED flag)
  /\ UNCHANGED <<stopReq, owner, stopped, contested, feed, poller, universe, position>>

\* The flag is back: run() returns and the process ends.
BootRefused == phase = "check" /\ flag # "absent" /\ Dies /\ UNCHANGED flag

\* run() creates the two feed tasks and the universe task.
StartFeeds ==
  /\ phase = "check" /\ flag = "absent"
  /\ phase' = "running" /\ stopped' = stopReq
  /\ ws' = [ws EXCEPT !["first"] = "created"]
  /\ poll' = [poll EXCEPT !["first"] = "created"]
  /\ UNCHANGED <<cmd, stopReq, flag, owner, contested, feedRunning, pollRunning, pollPairs,
                 cycle, universe, position>>

-----------------------------------------------------------------------------
(* FeedMux.connect.  Its ticks carry no pair (_dispatch parses with pair ""):*)
(* they reach no position, and matter only when they meet a stop.           *)

EventLoop == phase = "running" /\ cmd["main"] = "idle"

WsGoesTo(t, state) ==
  /\ EventLoop /\ ws' = [ws EXCEPT ![t] = state]
  /\ UNCHANGED <<signals, poller, universe, position>>

\* The top of the while loop.
NextRound == IF feedRunning THEN "connecting" ELSE "dead"

WsStart(t) == ws[t] = "created" /\ feedRunning' = TRUE /\ WsGoesTo(t, "connecting")
WsOpen(t) == ws[t] = "connecting" /\ WsGoesTo(t, "reading") /\ UNCHANGED feedRunning
\* The attempt fails.  A proxy is never connected to: the task sleeps and tries
\* again, which is this step and WsRetry for ever.
WsFail(t) == ws[t] = "connecting" /\ WsGoesTo(t, "backoff") /\ UNCHANGED feedRunning
\* The socket ends, or the read loop sees it should not be running: with data
\* and no error straight to the next round, otherwise after a pause.
WsEnd(t) ==
  /\ ws[t] \in {"reading", "closed"}
  /\ \E state \in {"backoff", NextRound} : WsGoesTo(t, state)
  /\ UNCHANGED feedRunning
WsRetry(t) == ws[t] = "backoff" /\ WsGoesTo(t, NextRound) /\ UNCHANGED feedRunning
\* A tick reaches a stopped engine: on_tick raises CancelledError.
WsStops(t) ==
  /\ ws[t] = "reading" /\ feedRunning /\ stopReq
  /\ feedRunning' = FALSE /\ WsGoesTo(t, "dead")

WsTask(t) == WsStart(t) \/ WsFail(t) \/ WsEnd(t) \/ WsRetry(t)

-----------------------------------------------------------------------------
(* RestPoller.run.                                                          *)

\* Seeded defects: the flag stop() left behind is not set again; a cancelled
\* cycle is treated like a failed one.
StartsRunning_Forgotten == pollRunning
AfterStop_Swallowed == "sleeping"

StartsRunning == TRUE
AfterStop == "dead"

\* The top of the while loop: another cycle over the list of the moment, or the
\* end of the task.
PollRound(t, running) ==
  IF running
  THEN poll' = [poll EXCEPT ![t] = "polling"] /\ cycle' = [cycle EXCEPT ![t] = pollPairs]
  ELSE poll' = [poll EXCEPT ![t] = "dead"] /\ UNCHANGED cycle

PollStart(t) ==
  /\ EventLoop /\ poll[t] = "created"
  /\ pollRunning' = StartsRunning
  /\ PollRound(t, StartsRunning)
  /\ UNCHANGED <<signals, feed, pollPairs, universe, position>>

\* The price of a pair arrives and on_tick handles it: a position past its age
\* is closed, a younger one may be, and a pair without one may get one.
PollTick(t, p) ==
  /\ EventLoop /\ poll[t] = "polling" /\ p \in cycle[t] /\ ~stopReq
  /\ cycle' = [cycle EXCEPT ![t] = @ \ {p}]
  /\ \/ position' = [position EXCEPT ![p] = "none"]
     \/ position[p] = "young" /\ UNCHANGED position
     \/ position[p] = "none" /\ position' = [position EXCEPT ![p] = "young"]
  /\ UNCHANGED <<signals, feed, pollRunning, pollPairs, poll, universe>>

\* The request fails or times out.
PollMisses(t, p) ==
  /\ EventLoop /\ poll[t] = "polling" /\ p \in cycle[t]
  /\ cycle' = [cycle EXCEPT ![t] = @ \ {p}]
  /\ UNCHANGED <<signals, feed, pollRunning, pollPairs, poll, universe, position>>

\* A price reaches a stopped engine: on_tick raises CancelledError, run() ends.
PollStops(t) ==
  /\ EventLoop /\ poll[t] = "polling" /\ cycle[t] # {} /\ stopReq
  /\ poll' = [poll EXCEPT ![t] = AfterStop]
  /\ cycle' = [cycle EXCEPT ![t] = {}]
  /\ UNCHANGED <<signals, feed, pollRunning, pollPairs, universe, position>>

PollSleeps(t) ==
  /\ EventLoop /\ poll[t] = "polling" /\ cycle[t] = {}
  /\ poll' = [poll EXCEPT ![t] = "sleeping"]
  /\ UNCHANGED <<signals, feed, pollRunning, pollPairs, cycle, universe, position>>

PollWakes(t) ==
  /\ EventLoop /\ poll[t] \in {"sleeping", "waking"}
  /\ PollRound(t, pollRunning)
  /\ UNCHANGED <<signals, feed, pollRunning, pollPairs, universe, position>>

PollTask(t) ==
  \/ PollStart(t) \/ PollSleeps(t) \/ PollWakes(t)
  \/ \E p \in Pairs : PollTick(t, p) \/ PollMisses(t, p)
  \/ PollStops(t)

-----------------------------------------------------------------------------
(* The universe task: the first ranking that succeeds refines the pair list *)
(* and restarts both feeds.                                                 *)

UniverseGoesTo(state) ==
  EventLoop /\ universe' = state /\ UNCHANGED <<signals, position>>

\* Fewer than five pairs were ranked: the list stays, and is never refined.
KeepList == universe = "scoring" /\ UniverseGoesTo("done") /\ UNCHANGED <<feed, poller>>

\* feed.stop(): a connected socket is closed, and its read loop will end.
StopFeed ==
  /\ universe = "scoring" /\ UniverseGoesTo("closingFeed")
  /\ feedRunning' = FALSE
  /\ ws' = [t \in Tasks |-> IF ws[t] = "reading" THEN "closed" ELSE ws[t]]
  /\ UNCHANGED poller

\* poller.stop() and the new list, then five seconds of sleep.  A poller that is
\* asleep now went to sleep for five seconds earlier: it wakes first.
StopPoller ==
  /\ universe = "closingFeed" /\ \A t \in Tasks : ws[t] # "closed"
  /\ UniverseGoesTo("pausing")
  /\ pollRunning' = FALSE /\ pollPairs' = Selected
  /\ poll' = [t \in Tasks |-> IF poll[t] = "sleeping" THEN "waking" ELSE poll[t]]
  /\ UNCHANGED <<feed, cycle>>

RestartedPoll_Forgotten == poll \* seeded defect
RestartedPoll == [poll EXCEPT !["refixed"] = "created"]

RestartFeeds ==
  /\ universe = "pausing" /\ \A t \in Tasks : poll[t] # "waking"
  /\ UniverseGoesTo("done")
  /\ ws' = [ws EXCEPT !["refixed"] = "created"]
  /\ poll' = RestartedPoll
  /\ UNCHANGED <<feedRunning, pollRunning, pollPairs, cycle>>

Refine == StopPoller \/ RestartFeeds

\* A position reaches max_wave_age_s.
Age(p) ==
  /\ phase = "running" /\ position[p] = "young"
  /\ position' = [position EXCEPT ![p] = "aged"]
  /\ UNCHANGED <<signals, feed, poller, universe>>

BootStep == Boot \/ BootClears \/ BootFails \/ BootRefused \/ StartFeeds
FileStep(h) == OpenFlag(h) \/ WriteFlag(h) \/ LookAtFlag(h) \/ RemoveFlag(h)

Next ==
  \/ BootStep \/ Crash \/ Resume
  \/ \E h \in Threads : RequestStop(h) \/ FileStep(h)
  \/ \E t \in Tasks : WsTask(t) \/ WsOpen(t) \/ WsStops(t) \/ PollTask(t)
  \/ KeepList \/ StopFeed \/ Refine
  \/ \E p \in Pairs : Age(p)

Spec == Init /\ [][Next]_vars

\* The threads run and time passes; a connection that is tried again and again is
\* established (there is no proxy).  So does a price arrive that is asked for again
\* and again, whichever task asks; the pollers ask for every pair of their list
\* alike, also for one that a ranking is about to drop.
FairSpec ==
  /\ Spec
  /\ WF_vars(BootStep \/ Refine \/ \E h \in Threads : FileStep(h))
  /\ \A t \in Tasks :
       /\ WF_vars(WsTask(t)) /\ SF_vars(WsOpen(t)) /\ SF_vars(WsStops(t))
       /\ WF_vars(PollTask(t)) /\ SF_vars(PollStops(t))
  /\ \A p \in Pairs : WF_vars(Age(p)) /\ SF_vars(\E t \in Tasks : PollTick(t, p))

-----------------------------------------------------------------------------
(* Properties.                                                              *)

Gone == {"none", "dead"}

TypeOK ==
  /\ phase \in {"down", "boot", "clearing", "check", "running"}
  /\ cmd \in [Threads -> {"idle", "open", "write"} \union Clearing]
  /\ cmd["main"] \in Clearing <=> phase = "clearing"
  /\ stopReq \in BOOLEAN /\ flag \in {"absent", "empty", "full"}
  /\ feedRunning \in BOOLEAN /\ pollRunning \in BOOLEAN
  /\ pollPairs \in {Pairs, Selected}
  /\ ws \in [Tasks -> Gone \union {"created", "connecting", "reading", "closed", "backoff"}]
  /\ poll \in [Tasks -> Gone \union {"created", "polling", "sleeping", "waking"}]
  /\ cycle \in [Tasks -> SUBSET Pairs]
  /\ \A t \in Tasks : cycle[t] # {} => poll[t] = "polling"
  /\ universe \in {"scoring", "closingFeed", "pausing", "done"}
  /\ position \in [Pairs -> {"none", "young", "aged"}]
  /\ owner \in {"none", "here", "before"} /\ stopped \in BOOLEAN
  /\ contested \subseteq Contested

\* runtime.run: both feeds run permanently.  As long as nobody asked for a stop,
\* whatever the network does and however the restart of the feeds interleaves
\* with them, each has a task that is alive or about to be created.
FeedsStayUp ==
  (phase = "running" /\ ~stopped /\ universe \in {"scoring", "done"}) =>
    /\ \E t \in Tasks : ws[t] \notin Gone
    /\ \E t \in Tasks : poll[t] \notin Gone

\* request_stop: a stop that was carried out and not followed by a clear is both
\* in memory and on disk.
StopIsKept == owner = "here" => stopReq /\ flag # "absent"

\* on_tick: a stop that lasts ends every task that feeds the engine, and no
\* handler swallows it.
StopQuiesces ==
  <>[](phase = "running" /\ stopReq /\ cmd["main"] = "idle") =>
    <>[](\A t \in Tasks : ws[t] \in Gone /\ poll[t] \in Gone)

\* RestPoller.run, on_tick: a position is closed in the end, across failed requests
\* and the restart of the feeds, unless its pair leaves the poller's list or a stop
\* or a restart comes first.  A pair that is about to be dropped is served too.
KeptPairsServed ==
  \A p \in Pairs :
    position[p] # "none"
      ~> (position[p] = "none" \/ p \notin pollPairs \/ stopped \/ phase # "running")

\* runtime.py:391-392 says nothing ever leaves an open position unmanaged.
NoPositionOrphaned ==
  \A p \in Pairs : position[p] # "none" ~> position[p] = "none"

\* README.md:134-136 says the engine refuses to trade at boot while the owner's
\* stop stands.
StopSurvivesRestart ==
  [][phase = "check" /\ phase' = "running" => owner # "before"]_vars
===============================================================================
