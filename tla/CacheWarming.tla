--------------------------- MODULE CacheWarming ---------------------------
(***************************************************************************)
(* cache/warmer.go: periodic warming.  A call of ScheduleWarming adds its  *)
(* job under the lock, and then starts the scheduler unless there is one,  *)
(* without it: two first calls may both start a goroutine.  The goroutine  *)
(* reads the ticker from the struct each time around its loop, and         *)
(* StopWarming clears it there.  What warming a key does to the cache is   *)
(* CacheManager's WarmKey.                                                 *)
(***************************************************************************)
EXTENDS Integers

CONSTANTS WarmJobs,  \* the jobs, each scheduled by a call of its own
          MaxRuns    \* bound on the runs of a job at a time

ASSUME WarmingAssumption == MaxRuns \in Nat \ {0}

VARIABLES warmJob,     \* job -> "none", "active" or "stopped"
          due,         \* job -> it never ran, or its interval is over
          runs,        \* job -> its goroutines in WarmKeys
          scheduler,   \* job -> where its call of ScheduleWarming is
          loop,        \* job -> the goroutine that its call started, if any
          warmTicker,  \* is cw.warmTicker set?
          tick,        \* a tick waits in the ticker's channel
          stopState,   \* where StopWarming is
          crashed      \* a panic has ended the process

warmingVars == <<warmJob, due, runs, scheduler, loop, warmTicker, tick, stopState, crashed>>

WarmingInit ==
    /\ warmJob = [j \in WarmJobs |-> "none"]
    /\ due = [j \in WarmJobs |-> FALSE]
    /\ runs = [j \in WarmJobs |-> 0]
    /\ scheduler = [j \in WarmJobs |-> "idle"]
    /\ loop = [j \in WarmJobs |-> "none"]
    /\ warmTicker = FALSE /\ tick = FALSE /\ stopState = "no" /\ crashed = FALSE

-----------------------------------------------------------------------------
(* ScheduleWarming.                                                        *)

ScheduleWarming(j) ==
    /\ scheduler[j] = "idle"
    /\ warmJob' = [warmJob EXCEPT ![j] = "active"]
    /\ due' = [due EXCEPT ![j] = TRUE]
    /\ scheduler' = [scheduler EXCEPT ![j] = "check"]
    /\ UNCHANGED <<runs, loop, warmTicker, tick, stopState, crashed>>

\* startWarmingScheduler returns when there is a ticker; StopWarming leaves none.
SchedulerRunning(j) ==
    /\ scheduler[j] = "check"
    /\ scheduler' = [scheduler EXCEPT ![j] = IF warmTicker THEN "done" ELSE "start"]
    /\ UNCHANGED <<warmJob, due, runs, loop, warmTicker, tick, stopState, crashed>>

startWarmingScheduler(j) ==
    /\ scheduler[j] = "start"
    /\ warmTicker' = TRUE
    /\ loop' = [loop EXCEPT ![j] = "enter"]
    /\ scheduler' = [scheduler EXCEPT ![j] = "done"]
    /\ UNCHANGED <<warmJob, due, runs, tick, stopState, crashed>>

-----------------------------------------------------------------------------
(* The goroutine of the scheduler.                                         *)

\* The select reads cw.warmTicker.C: a nil pointer after StopWarming.
EnterSelect(j) ==
    /\ loop[j] = "enter"
    /\ IF warmTicker THEN loop' = [loop EXCEPT ![j] = "select"] /\ UNCHANGED crashed
                     ELSE crashed' = TRUE /\ UNCHANGED loop
    /\ UNCHANGED <<warmJob, due, runs, scheduler, warmTicker, tick, stopState>>

TickerFires ==
    /\ warmTicker /\ ~tick
    /\ tick' = TRUE
    /\ UNCHANGED <<warmJob, due, runs, scheduler, loop, warmTicker, stopState, crashed>>

\* Faulty variant: without the for around the select.
processWarmingJobsOnce(j) ==
    /\ loop[j] = "select" /\ tick
    /\ tick' = FALSE
    /\ runs' = [k \in WarmJobs |-> IF warmJob[k] = "active" /\ due[k] /\ runs[k] < MaxRuns THEN runs[k] + 1
                                   ELSE runs[k]]
    /\ loop' = [loop EXCEPT ![j] = "gone"]
    /\ UNCHANGED <<warmJob, due, scheduler, warmTicker, stopState, crashed>>

\* Every active job that is due gets a goroutine, also one that still runs.
processWarmingJobs(j) ==
    /\ loop[j] = "select" /\ tick
    /\ tick' = FALSE
    /\ runs' = [k \in WarmJobs |-> IF warmJob[k] = "active" /\ due[k] /\ runs[k] < MaxRuns THEN runs[k] + 1
                                   ELSE runs[k]]
    /\ loop' = [loop EXCEPT ![j] = "enter"]
    /\ UNCHANGED <<warmJob, due, scheduler, warmTicker, stopState, crashed>>

SchedulerReturns(j) ==
    /\ loop[j] = "select" /\ stopState = "closed"
    /\ loop' = [loop EXCEPT ![j] = "gone"]
    /\ UNCHANGED <<warmJob, due, runs, scheduler, warmTicker, tick, stopState, crashed>>

\* WarmKeys ends, after all keys or when the five minutes are over, and LastRun becomes
\* the time of the tick that started it.
WarmKeysEnds(j) ==
    /\ runs[j] > 0
    /\ runs' = [runs EXCEPT ![j] = @ - 1]
    /\ due' = [due EXCEPT ![j] = FALSE]
    /\ UNCHANGED <<warmJob, scheduler, loop, warmTicker, tick, stopState, crashed>>

IntervalPasses(j) ==
    /\ warmJob[j] # "none" /\ ~due[j]
    /\ due' = [due EXCEPT ![j] = TRUE]
    /\ UNCHANGED <<warmJob, runs, scheduler, loop, warmTicker, tick, stopState, crashed>>

-----------------------------------------------------------------------------
(* StopWarming: the jobs, the ticker, the channel.                         *)

StopJobs ==
    /\ stopState \in {"no", "closed"}
    /\ warmJob' = [j \in WarmJobs |-> IF warmJob[j] = "active" THEN "stopped" ELSE warmJob[j]]
    /\ stopState' = IF stopState = "no" THEN "jobs" ELSE "again"
    /\ UNCHANGED <<due, runs, scheduler, loop, warmTicker, tick, crashed>>

StopTicker ==
    /\ stopState = "jobs"
    /\ warmTicker' = FALSE
    /\ stopState' = "ticker"
    /\ UNCHANGED <<warmJob, due, runs, scheduler, loop, tick, crashed>>

\* The second close of stopChan panics.
CloseStopChan ==
    /\ stopState \in {"ticker", "again"}
    /\ IF stopState = "ticker" THEN stopState' = "closed" /\ UNCHANGED crashed
                              ELSE crashed' = TRUE /\ UNCHANGED stopState
    /\ UNCHANGED <<warmJob, due, runs, scheduler, loop, warmTicker, tick>>

WarmerStep(j) == ~crashed /\ (SchedulerRunning(j) \/ startWarmingScheduler(j) \/ EnterSelect(j) \/ WarmKeysEnds(j))

LoopStep(j) == ~crashed /\ (processWarmingJobs(j) \/ SchedulerReturns(j))

TimeStep == ~crashed /\ (TickerFires \/ \E j \in WarmJobs : IntervalPasses(j))

WarmingNext ==
    \/ ~crashed /\ (StopJobs \/ StopTicker \/ CloseStopChan \/ \E j \in WarmJobs : ScheduleWarming(j))
    \/ \E j \in WarmJobs : WarmerStep(j) \/ LoopStep(j)
    \/ TimeStep

\* Goroutines that can run do, one of those that wait for a tick takes it, and time passes.
WarmingFairness ==
    /\ \A j \in WarmJobs : WF_warmingVars(WarmerStep(j))
    /\ WF_warmingVars(\E j \in WarmJobs : LoopStep(j))
    /\ WF_warmingVars(~crashed /\ TickerFires)
    /\ \A j \in WarmJobs : WF_warmingVars(~crashed /\ IntervalPasses(j))

-----------------------------------------------------------------------------
(* Properties.                                                             *)

\* JobsWarmed: a job that is scheduled runs, again and again, until StopWarming is called:
\* whichever call started the goroutine, though two may have, though a slow run overlaps
\* the next, and with no panic before a stop (ScheduleWarming, processWarmingJobs).
JobsWarmed == \A j \in WarmJobs : warmJob[j] = "active" ~> (runs[j] > 0 \/ stopState # "no")
=============================================================================
