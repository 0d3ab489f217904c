--------------------------- MODULE WatchDog_proofs ---------------------------
(***************************************************************************)
(* Proofs about the watchdog loop (WatchDog) for every set of children and *)
(* every pipe capacity.                                                    *)
(*                                                                         *)
(* NoZombieWhileIdle speaks of the poll point only, and is not inductive:  *)
(* EnterPoll moves the loop to poll without looking at anything.  IdleInv  *)
(* states it at every point of the loop before poll as well (the top of    *)
(* the loop and the deadline computation): since check_watchdog last ran,  *)
(* every child that exited has left a pending SIGCHLD or a byte in the     *)
(* pipe, and nothing in between empties the pipe.                          *)
(***************************************************************************)
EXTENDS WatchDog, TLAPS

USE ConstAssumption DEF MaxStopRetry

\* No zombie at the top of the loop, before poll, or in poll, unless a
\* SIGCHLD or a wake byte is pending.
IdleInv ==
  (pc \in {"top", "pre_poll", "poll"} /\ pipe = 0 /\ ~sigPending)
    => \A c \in Children : child[c] # "dead"

IInv == TypeOK /\ IdleInv

LEMMA IInvInit == Init => IInv
  <1> SUFFICES ASSUME Init PROVE IInv
    OBVIOUS
  <1>1. child \in [Children -> {"run", "killed", "dead", "reaped"}]
    BY DEF Init
  <1>2. sigPending \in BOOLEAN /\ revents \in BOOLEAN /\ stop \in BOOLEAN
        /\ intr \in BOOLEAN
    BY Zenon DEF Init
  <1>5. pipe \in 0 .. PipeCap /\ stopretry \in 0 .. MaxStopRetry /\ pc = "top"
    BY DEF Init
  <1>6. TypeOK
    BY <1>1, <1>2, <1>5 DEF TypeOK
  <1>3. IdleInv
    BY DEF Init, IdleInv
  <1>4. QED
    BY <1>6, <1>3 DEF IInv

\* check_watchdog leaves no zombie, and keeps the children's type.
LEMMA CheckWatchdogReaps ==
  ASSUME TypeOK, CheckWatchdog
  PROVE  /\ child' \in [Children -> {"run", "killed", "dead", "reaped"}]
         /\ \A c \in Children : child'[c] # "dead"
  BY DEF CheckWatchdog, TypeOK

LEMMA IInvStep == IInv /\ [Next]_vars => IInv'
  <1> SUFFICES ASSUME IInv, [Next]_vars PROVE IInv'
    OBVIOUS
  <1>1. CASE \E c \in Children : ChildExit(c)
    BY <1>1 DEF ChildExit, IInv, TypeOK, IdleInv
  <1>2. CASE Sighdlr
    \* The byte is written, or the pipe is already full: either way the
    \* pipe is not empty.
    <2>1. pipe' \in 1 .. PipeCap
      BY <1>2 DEF Sighdlr, IInv, TypeOK
    <2>5. sigPending' \in BOOLEAN
      BY <1>2, Zenon DEF Sighdlr
    <2>2. TypeOK'
      BY <1>2, <2>1, <2>5 DEF Sighdlr, IInv, TypeOK
    <2>3. IdleInv'
      BY <2>1 DEF IdleInv
    <2>4. QED
      BY <2>2, <2>3 DEF IInv
  <1>3. CASE Stop
    BY <1>3 DEF Stop, IInv, TypeOK, IdleInv
  <1>4. CASE LoopTest
    BY <1>4 DEF LoopTest, IInv, TypeOK, IdleInv
  <1>5. CASE EnterPoll
    BY <1>5 DEF EnterPoll, IInv, TypeOK, IdleInv
  <1>6. CASE PollWakeup \/ PollTimeout
    <2>1. PollReturn
      BY <1>6 DEF PollWakeup, PollTimeout
    <2>6. revents' = (pipe > 0) /\ intr' = FALSE
      BY <2>1 DEF PollReturn
    <2>7. (pipe > 0) \in BOOLEAN
      OBVIOUS
    <2>5. revents' \in BOOLEAN /\ intr' \in BOOLEAN
      BY <2>6, <2>7, Zenon
    <2>2. TypeOK'
      BY <2>1, <2>5 DEF PollReturn, IInv, TypeOK
    <2>3. IdleInv'
      BY <2>1 DEF PollReturn, IdleInv
    <2>4. QED
      BY <2>2, <2>3 DEF IInv
  <1>7. CASE Drain
    BY <1>7 DEF Drain, IInv, TypeOK, IdleInv
  <1>8. CASE Check
    BY <1>8, CheckWatchdogReaps DEF Check, IInv, TypeOK, IdleInv
  <1>9. CASE ForceKill
    BY <1>9 DEF ForceKill, IInv, TypeOK, IdleInv
  <1>10. CASE StopRetry \/ StopWait
    <2>1. pc = "stop_loop" /\ pc' = "stop_loop" /\ stopretry < MaxStopRetry
      BY <1>10 DEF StopRetry, StopWait, StopLoopGuard
    <2>2. child' \in [Children -> {"run", "killed", "dead", "reaped"}]
      BY <1>10, CheckWatchdogReaps DEF StopRetry, StopWait, StopRound, IInv
    <2>3. QED
      BY <1>10, <2>1, <2>2 DEF StopRetry, StopWait, StopRound, IInv, TypeOK,
                                IdleInv
  <1>11. CASE StopExit
    BY <1>11 DEF StopExit, IInv, TypeOK, IdleInv
  <1>12. CASE UNCHANGED vars
    BY <1>12 DEF vars, IInv, TypeOK, IdleInv
  <1>13. QED
    BY <1>1, <1>2, <1>3, <1>4, <1>5, <1>6, <1>7, <1>8, <1>9, <1>10, <1>11,
       <1>12 DEF Next, MainStep

\* run_loop never blocks in poll with nothing pending while a child is an
\* unreaped zombie, for every number of children and every pipe capacity:
\* a lost wake byte (full pipe) or coalesced SIGCHLDs never hide a zombie,
\* because check_watchdog reaps every exited child at once.
THEOREM NoZombieWhileIdleHolds == Spec => []NoZombieWhileIdle
  <1>1. IInv => NoZombieWhileIdle
    BY DEF IInv, IdleInv, NoZombieWhileIdle
  <1>2. QED
    BY <1>1, IInvInit, IInvStep, PTL DEF Spec

\* The watchdog's state stays well typed; in particular stopretry never
\* passes 6, the bound of the stop loop.
THEOREM TypeOKHolds == Spec => []TypeOK
  BY IInvInit, IInvStep, PTL DEF Spec, IInv
=============================================================================
