------------------------------- MODULE WatchDog -------------------------------
(***************************************************************************)
(* The watchdog daemon's loop (src/daemons/daemons.cc).  Children exit     *)
(* and raise SIGCHLD; sighdlr writes one byte to a non-blocking self-pipe; *)
(* run_loop polls the pipe, drains it (input_notify) and reaps the exited  *)
(* children (check_watchdog).  A stop request ends the loop; the daemon    *)
(* force-kills its children and waits for them, re-signalling every 5 s at *)
(* most 6 times, before it exits.                                          *)
(*                                                                         *)
(* check_watchdog and the handler that sets stop are not in the           *)
(* repository: check_watchdog reaps every exited child (waitpid in a loop) *)
(* and the stop handler interrupts a poll that is blocked.                 *)
(***************************************************************************)
EXTENDS Naturals

CONSTANTS
  Children,  \* the watched child processes
  PipeCap    \* bytes the pipe holds before a non-blocking write fails

ASSUME ConstAssumption == PipeCap \in Nat \ {0}

\* while (stopretry < 6 && get_process_count() > 0)
MaxStopRetry == 6

VARIABLES
  child,      \* child[c]: "run", "killed" (signalled), "dead" (zombie), "reaped"
  sigPending, \* a SIGCHLD is pending; pending SIGCHLDs coalesce
  pipe,       \* bytes in the self-pipe
  pc,         \* where run_loop is
  revents,    \* POLLIN on the pipe when poll returned
  stop,       \* the stop flag
  intr,       \* the stop signal interrupted a blocked poll
  stopretry   \* run_loop's stopretry

vars == <<child, sigPending, pipe, pc, revents, stop, intr, stopretry>>

Init ==
  /\ child = [c \in Children |-> "run"]
  /\ sigPending = FALSE
  /\ pipe = 0
  /\ pc = "top"
  /\ revents = FALSE
  /\ stop = FALSE
  /\ intr = FALSE
  /\ stopretry = 0

-----------------------------------------------------------------------------
(* The children and the signals.                                           *)

ChildExit(c) ==
  /\ child[c] \in {"run", "killed"}
  /\ child' = [child EXCEPT ![c] = "dead"]
  /\ sigPending' = TRUE
  /\ UNCHANGED <<pipe, pc, revents, stop, intr, stopretry>>

\* sighdlr -> WatchDogPipe::wake: write one byte; it is lost when the pipe
\* is full.
Sighdlr ==
  /\ sigPending
  /\ sigPending' = FALSE
  /\ pipe' = IF pipe < PipeCap THEN pipe + 1 ELSE pipe
  /\ UNCHANGED <<child, pc, revents, stop, intr, stopretry>>

\* A stop signal sets stop and interrupts a poll that is already blocked.
Stop ==
  /\ ~stop
  /\ stop' = TRUE
  /\ intr' = (pc = "poll")
  /\ UNCHANGED <<child, sigPending, pipe, pc, revents, stopretry>>

-----------------------------------------------------------------------------
(* run_loop.                                                               *)

\* Mutant: one waitpid per call instead of a loop.
CheckWatchdogOne ==
  \/ /\ \A c \in Children : child[c] # "dead"
     /\ UNCHANGED child
  \/ \E c \in Children :
       /\ child[c] = "dead"
       /\ child' = [child EXCEPT ![c] = "reaped"]

\* check_watchdog: reap every exited child.
CheckWatchdog ==
  child' = [c \in Children |-> IF child[c] = "dead" THEN "reaped" ELSE child[c]]

\* while (!stop)
LoopTest ==
  /\ pc = "top"
  /\ pc' = IF stop THEN "force_kill" ELSE "pre_poll"
  /\ UNCHANGED <<child, sigPending, pipe, revents, stop, intr, stopretry>>

\* expire_micro_seconds, then poll blocks.
EnterPoll ==
  /\ pc = "pre_poll"
  /\ pc' = "poll"
  /\ UNCHANGED <<child, sigPending, pipe, revents, stop, intr, stopretry>>

\* poll returns; if (stop) break.
PollReturn ==
  /\ pc = "poll"
  /\ revents' = (pipe > 0)
  /\ intr' = FALSE
  /\ pc' = IF stop THEN "force_kill" ELSE "drain"
  /\ UNCHANGED <<child, sigPending, pipe, stop, stopretry>>

\* poll returns because the pipe is readable or it was interrupted.
PollWakeup == (pipe > 0 \/ intr) /\ PollReturn

\* poll returns at its timeout (up to an hour).
PollTimeout == PollReturn

\* WatchDogPipe::input_notify reads until a short read, then
\* check_watchdog.
Drain ==
  /\ pc = "drain"
  /\ pipe' = IF revents THEN 0 ELSE pipe
  /\ pc' = "check"
  /\ UNCHANGED <<child, sigPending, revents, stop, intr, stopretry>>

Check ==
  /\ pc = "check"
  /\ CheckWatchdog
  /\ pc' = "top"
  /\ UNCHANGED <<sigPending, pipe, revents, stop, intr, stopretry>>

\* force_kill_allwatchdog; check_watchdog.
ForceKill ==
  /\ pc = "force_kill"
  /\ child' = [c \in Children |->
                 IF child[c] = "run" THEN "killed"
                 ELSE IF child[c] = "dead" THEN "reaped" ELSE child[c]]
  /\ pc' = "stop_loop"
  /\ UNCHANGED <<sigPending, pipe, revents, stop, intr, stopretry>>

StopLoopGuard ==
  stopretry < MaxStopRetry /\ \E c \in Children : child[c] # "reaped"

\* One round of the stop loop: poll one second, drain, check_watchdog.
StopRound ==
  /\ pipe' = 0
  /\ CheckWatchdog

\* Mutant: stopretry never incremented.
StopRetryNoCount ==
  /\ pc = "stop_loop" /\ StopLoopGuard
  /\ StopRound
  /\ UNCHANGED <<sigPending, pc, revents, stop, intr, stopretry>>

\* stoptimer <= now: stopretry++, kill_allwatchdog, then a round.
StopRetry ==
  /\ pc = "stop_loop" /\ StopLoopGuard
  /\ stopretry' = stopretry + 1
  /\ StopRound
  /\ UNCHANGED <<sigPending, pc, revents, stop, intr>>

\* The 5 s have not passed: a round only.
StopWait ==
  /\ pc = "stop_loop" /\ StopLoopGuard
  /\ StopRound
  /\ UNCHANGED <<sigPending, pc, revents, stop, intr, stopretry>>

\* delete notifier; force_kill_allwatchdog; exit(0).
StopExit ==
  /\ pc = "stop_loop" /\ ~StopLoopGuard
  /\ pc' = "exited"
  /\ UNCHANGED <<child, sigPending, pipe, revents, stop, intr, stopretry>>

MainStep ==
  \/ LoopTest \/ EnterPoll \/ PollWakeup \/ Drain \/ Check
  \/ ForceKill \/ StopRetry \/ StopExit

Next ==
  \/ \E c \in Children : ChildExit(c)
  \/ Sighdlr \/ Stop
  \/ MainStep \/ PollTimeout \/ StopWait

\* The loop runs whenever it is not blocked, signals are delivered, and
\* time passes in the stop loop; poll's timeout is not relied on.
Spec == Init /\ [][Next]_vars /\ WF_vars(MainStep) /\ WF_vars(Sighdlr)

\* The same, with poll's timeout firing eventually.
SpecTimeout == Spec /\ WF_vars(PollTimeout)

-----------------------------------------------------------------------------
TypeOK ==
  /\ child \in [Children -> {"run", "killed", "dead", "reaped"}]
  /\ sigPending \in BOOLEAN /\ pipe \in 0 .. PipeCap
  /\ pc \in {"top", "pre_poll", "poll", "drain", "check", "force_kill",
             "stop_loop", "exited"}
  /\ revents \in BOOLEAN /\ stop \in BOOLEAN /\ intr \in BOOLEAN
  /\ stopretry \in 0 .. MaxStopRetry

\* The self-pipe never lets run_loop block in poll with nothing pending
\* while a child is an unreaped zombie: coalesced SIGCHLDs and wake bytes
\* lost to a full pipe are covered by check_watchdog reaping every exited
\* child, so no zombie waits for poll's timeout.
NoZombieWhileIdle ==
  (pc = "poll" /\ pipe = 0 /\ ~sigPending)
    => \A c \in Children : child[c] # "dead"

\* A stop request ends run_loop with exit(0), even when a child never dies.
StopTerminates == stop ~> pc = "exited"
=============================================================================
