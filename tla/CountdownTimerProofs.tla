------------------------ MODULE CountdownTimerProofs ------------------------
(* What holds of the countdown when every start happens under x.lock, as the *)
(* comment on initial() demands: there is one timer goroutine, it counts for *)
(* the current round, and it implements RoundTimer. And what it counts down: *)
(* the exact duration of one set of parameters.                              *)
EXTENDS CountdownTimer, TimeoutDuration, TLAPS

Resetting == {"check", "set", "go", "send"}

(* Who is inside Reset or StopTimer holds x.lock. *)
LockInv ==
  /\ \A c \in Callers : at[c] \in Resetting \cup {"quit", "wait"} => xlock = c
  /\ \A c \in LockedStarters : at[c] \in Resetting => ~ready
  /\ \A c \in Callers \ LockedStarters : at[c] \in Resetting => ready

(* t.initilised tells whether there is a timer goroutine, but for the two    *)
(* moments between setting it and starting or ending the goroutine.          *)
StartInv ==
  /\ \A g \in Callers : Counts(g) => initilised /\ ready
  /\ \A g \in Callers : timer[g].state = "quitting" => \E c \in Callers : at[c] = "wait"
  /\ \A c \in Callers : at[c] = "set" => ~initilised
  /\ \A c \in Callers : at[c] \in {"set", "go"} => \A g \in Callers : ~On(g)
  /\ \A c \in Callers : at[c] = "go" => initilised
  /\ initilised /\ ~ready => \E c \in Callers : at[c] = "go"

(* The round a countdown is for, before and after a Reset. *)
RoundInv ==
  /\ \A c \in Callers : at[c] \in Resetting => info[c] = round
  /\ \A c, g \in Callers : at[c] \in Resetting /\ On(g) => timer[g].round < round
  /\ \A g \in Callers : On(g) => \/ timer[g].round = round
                                 \/ \E c \in Callers : at[c] \in Resetting

TimerInv == TimerTypeOK /\ OneTimer /\ LockInv /\ StartInv /\ RoundInv

-----------------------------------------------------------------------------
(* What each action keeps. *)

LEMMA InitialKeeps ==
  ASSUME TimerInv, LazyStarters = {}, NEW c \in Callers, Initial(c)
  PROVE  TimerInv'
<1> USE CallersAssumption DEF Callers
<1>1. TimerTypeOK'
  BY DEF TimerInv, TimerTypeOK, Initial, Places, Timer, NoTimer
<1>2. LockInv'
  BY DEF TimerInv, TimerTypeOK, LockInv, StartInv, Counts, Resetting, Initial
<1>3. OneTimer'
  BY DEF TimerInv, TimerTypeOK, OneTimer, StartInv, On, NoTimer, Initial
<1>4. StartInv'
  BY DEF TimerInv, TimerTypeOK, OneTimer, LockInv, StartInv, Resetting, On, Counts, NoTimer, Initial
<1>5. RoundInv'
  BY DEF TimerInv, TimerTypeOK, OneTimer, LockInv, StartInv, RoundInv, Resetting, On, Counts, NoTimer, Timer, Initial
<1> QED BY <1>1, <1>2, <1>3, <1>4, <1>5 DEF TimerInv

LEMMA SetNewRoundKeeps ==
  ASSUME TimerInv, LazyStarters = {}, NEW c \in Callers, SetNewRound(c)
  PROVE  TimerInv'
<1> USE CallersAssumption DEF Callers
<1>1. TimerTypeOK'
  BY DEF TimerInv, TimerTypeOK, SetNewRound, Places, Timer, NoTimer
<1>2. LockInv'
  BY DEF TimerInv, TimerTypeOK, LockInv, StartInv, Counts, Resetting, SetNewRound
<1>3. OneTimer'
  BY DEF TimerInv, TimerTypeOK, OneTimer, StartInv, On, NoTimer, SetNewRound
<1>4. StartInv'
  BY DEF TimerInv, TimerTypeOK, OneTimer, LockInv, StartInv, Resetting, On, Counts, NoTimer, SetNewRound
<1>5. RoundInv'
  BY DEF TimerInv, TimerTypeOK, OneTimer, LockInv, StartInv, RoundInv, Resetting, On, Counts, NoTimer, Timer, SetNewRound
<1> QED BY <1>1, <1>2, <1>3, <1>4, <1>5 DEF TimerInv

LEMMA CallbackKeeps ==
  ASSUME TimerInv, LazyStarters = {}, NEW c \in Callers, Callback(c)
  PROVE  TimerInv'
<1> USE CallersAssumption DEF Callers
<1>1. TimerTypeOK'
  BY DEF TimerInv, TimerTypeOK, Callback, Places, Timer, NoTimer
<1>2. LockInv'
  BY DEF TimerInv, TimerTypeOK, LockInv, StartInv, Counts, Resetting, Callback
<1>3. OneTimer'
  BY DEF TimerInv, TimerTypeOK, OneTimer, StartInv, On, NoTimer, Callback
<1>4. StartInv'
  BY DEF TimerInv, TimerTypeOK, OneTimer, LockInv, StartInv, Resetting, On, Counts, NoTimer, Callback
<1>5. RoundInv'
  BY DEF TimerInv, TimerTypeOK, OneTimer, LockInv, StartInv, RoundInv, Resetting, On, Counts, NoTimer, Timer, Callback
<1> QED BY <1>1, <1>2, <1>3, <1>4, <1>5 DEF TimerInv

LEMMA CheckKeeps ==
  ASSUME TimerInv, LazyStarters = {}, NEW c \in Callers, Check(c)
  PROVE  TimerInv'
<1> USE CallersAssumption DEF Callers
<1>1. TimerTypeOK'
  BY DEF TimerInv, TimerTypeOK, Check, Places, Timer, NoTimer
<1>2. LockInv'
  BY DEF TimerInv, TimerTypeOK, LockInv, StartInv, Counts, Resetting, Check
<1>3. OneTimer'
  BY DEF TimerInv, TimerTypeOK, OneTimer, StartInv, On, NoTimer, Check
<1>4. StartInv'
  BY DEF TimerInv, TimerTypeOK, OneTimer, LockInv, StartInv, Resetting, On, Counts, NoTimer, Timer, Check
<1>5. RoundInv'
  BY DEF TimerInv, TimerTypeOK, OneTimer, LockInv, StartInv, RoundInv, Resetting, On, Counts, NoTimer, Timer, Check
<1> QED BY <1>1, <1>2, <1>3, <1>4, <1>5 DEF TimerInv

LEMMA SetInitilisedKeeps ==
  ASSUME TimerInv, LazyStarters = {}, NEW c \in Callers, SetInitilised(c)
  PROVE  TimerInv'
<1> USE CallersAssumption DEF Callers
<1>1. TimerTypeOK'
  BY DEF TimerInv, TimerTypeOK, SetInitilised, Places, Timer, NoTimer
<1>2. LockInv'
  BY DEF TimerInv, TimerTypeOK, LockInv, StartInv, Counts, Resetting, SetInitilised
<1>3. OneTimer'
  BY DEF TimerInv, TimerTypeOK, OneTimer, StartInv, On, NoTimer, SetInitilised
<1>4. StartInv'
  BY DEF TimerInv, TimerTypeOK, OneTimer, LockInv, StartInv, Resetting, On, Counts, NoTimer, SetInitilised
<1>5. RoundInv'
  BY DEF TimerInv, TimerTypeOK, OneTimer, LockInv, StartInv, RoundInv, Resetting, On, Counts, NoTimer, Timer, SetInitilised
<1> QED BY <1>1, <1>2, <1>3, <1>4, <1>5 DEF TimerInv

LEMMA StartTimerKeeps ==
  ASSUME TimerInv, LazyStarters = {}, NEW c \in Callers, StartTimer(c)
  PROVE  TimerInv'
<1> USE CallersAssumption DEF Callers
<1>1. TimerTypeOK'
  BY DEF TimerInv, TimerTypeOK, StartTimer, Return, Places, Timer, NoTimer
<1>2. LockInv'
  BY DEF TimerInv, TimerTypeOK, LockInv, StartInv, Counts, Resetting, StartTimer, Return
<1>3. OneTimer'
  BY DEF TimerInv, TimerTypeOK, OneTimer, StartInv, On, NoTimer, StartTimer, Return
<1>4. StartInv'
  <2>1. xlock = c /\ (\A g \in Callers : ~On(g)) /\ (c \in LockedStarters \/ ready)
    BY DEF TimerInv, LockInv, StartInv, Resetting, StartTimer
  <2>2. ready' /\ initilised' = initilised
    BY <2>1, Zenon DEF StartTimer, Return
  <2>3. initilised
    BY DEF TimerInv, StartInv, StartTimer
  <2>4. \A d \in Callers : at'[d] \notin {"set", "go"}
    BY <2>1 DEF TimerInv, TimerTypeOK, LockInv, Resetting, StartTimer, Return
  <2>5. \A g \in Callers : timer'[g].state # "quitting"
    BY <2>1 DEF TimerInv, TimerTypeOK, On, StartTimer
  <2> QED BY <2>2, <2>3, <2>4, <2>5 DEF StartInv
<1>5. RoundInv'
  BY DEF TimerInv, TimerTypeOK, OneTimer, LockInv, StartInv, RoundInv, Resetting, On, Counts, NoTimer, Timer, StartTimer, Return
<1> QED BY <1>1, <1>2, <1>3, <1>4, <1>5 DEF TimerInv

LEMMA RearmKeeps ==
  ASSUME TimerInv, LazyStarters = {}, NEW g \in Callers, Rearm(g)
  PROVE  TimerInv'
<1> USE CallersAssumption DEF Callers
<1>1. TimerTypeOK'
  BY DEF TimerInv, TimerTypeOK, Rearm, Places, Timer, NoTimer
<1>2. LockInv'
  BY DEF TimerInv, TimerTypeOK, LockInv, StartInv, Counts, Resetting, Rearm
<1>3. OneTimer'
  BY DEF TimerInv, TimerTypeOK, OneTimer, StartInv, On, NoTimer, Rearm
<1>4. StartInv'
  BY DEF TimerInv, TimerTypeOK, OneTimer, LockInv, StartInv, Resetting, On, Counts, NoTimer, Rearm
<1>5. RoundInv'
  BY DEF TimerInv, TimerTypeOK, OneTimer, LockInv, StartInv, RoundInv, Resetting, On, Counts, NoTimer, Timer, Rearm
<1> QED BY <1>1, <1>2, <1>3, <1>4, <1>5 DEF TimerInv

LEMMA ExpireKeeps ==
  ASSUME TimerInv, LazyStarters = {}, NEW g \in Callers, Expire(g)
  PROVE  TimerInv'
<1> USE CallersAssumption DEF Callers
<1>1. TimerTypeOK'
  BY DEF TimerInv, TimerTypeOK, Expire, Places, Timer, NoTimer
<1>2. LockInv'
  BY DEF TimerInv, TimerTypeOK, LockInv, StartInv, Counts, Resetting, Expire
<1>3. OneTimer'
  BY DEF TimerInv, TimerTypeOK, OneTimer, StartInv, On, NoTimer, Expire
<1>4. StartInv'
  BY DEF TimerInv, TimerTypeOK, OneTimer, LockInv, StartInv, Resetting, On, Counts, NoTimer, Expire
<1>5. RoundInv'
  BY DEF TimerInv, TimerTypeOK, OneTimer, LockInv, StartInv, RoundInv, Resetting, On, Counts, NoTimer, Timer, Expire
<1> QED BY <1>1, <1>2, <1>3, <1>4, <1>5 DEF TimerInv

LEMMA FireKeeps ==
  ASSUME TimerInv, LazyStarters = {}, NEW g \in Callers, NEW b \in Callbacks, Fire(g, b)
  PROVE  TimerInv'
<1> USE CallersAssumption DEF Callers
<1>1. TimerTypeOK'
  BY DEF TimerInv, TimerTypeOK, Fire, Places, Timer, NoTimer
<1>2. LockInv'
  BY DEF TimerInv, TimerTypeOK, LockInv, StartInv, Counts, Resetting, Fire
<1>3. OneTimer'
  BY DEF TimerInv, TimerTypeOK, OneTimer, StartInv, On, NoTimer, Fire
<1>4. StartInv'
  BY DEF TimerInv, TimerTypeOK, OneTimer, LockInv, StartInv, Resetting, On, Counts, NoTimer, Fire
<1>5. RoundInv'
  BY DEF TimerInv, TimerTypeOK, OneTimer, LockInv, StartInv, RoundInv, Resetting, On, Counts, NoTimer, Timer, Fire
<1> QED BY <1>1, <1>2, <1>3, <1>4, <1>5 DEF TimerInv

LEMMA ReceiveKeeps ==
  ASSUME TimerInv, LazyStarters = {}, NEW g \in Callers, NEW c \in Callers, Receive(g, c)
  PROVE  TimerInv'
<1> USE CallersAssumption DEF Callers
<1>1. TimerTypeOK'
  BY DEF TimerInv, TimerTypeOK, Receive, Return, Selects, Places, Timer, NoTimer
<1>2. LockInv'
  BY DEF TimerInv, TimerTypeOK, LockInv, StartInv, Counts, Resetting, Receive, Return, Selects
<1>3. OneTimer'
  BY DEF TimerInv, TimerTypeOK, OneTimer, StartInv, On, NoTimer, Receive, Return, Selects
<1>4. StartInv'
  BY DEF TimerInv, TimerTypeOK, OneTimer, LockInv, StartInv, Resetting, On, Counts, NoTimer, Receive, Return, Selects
<1>5. RoundInv'
  BY DEF TimerInv, TimerTypeOK, OneTimer, LockInv, StartInv, RoundInv, Resetting, On, Counts, NoTimer, Timer, Receive, Return, Selects
<1> QED BY <1>1, <1>2, <1>3, <1>4, <1>5 DEF TimerInv

LEMMA StopTimerKeeps ==
  ASSUME TimerInv, LazyStarters = {}, NEW c \in Stoppers, StopTimer(c)
  PROVE  TimerInv'
<1> USE CallersAssumption DEF Callers
<1>1. TimerTypeOK'
  BY DEF TimerInv, TimerTypeOK, StopTimer, Places, Timer, NoTimer
<1>2. LockInv'
  BY DEF TimerInv, TimerTypeOK, LockInv, StartInv, Counts, Resetting, StopTimer
<1>3. OneTimer'
  BY DEF TimerInv, TimerTypeOK, OneTimer, StartInv, On, NoTimer, StopTimer
<1>4. StartInv'
  BY DEF TimerInv, TimerTypeOK, OneTimer, LockInv, StartInv, Resetting, On, Counts, NoTimer, StopTimer
<1>5. RoundInv'
  BY DEF TimerInv, TimerTypeOK, OneTimer, LockInv, StartInv, RoundInv, Resetting, On, Counts, NoTimer, Timer, StopTimer
<1> QED BY <1>1, <1>2, <1>3, <1>4, <1>5 DEF TimerInv

LEMMA QuitKeeps ==
  ASSUME TimerInv, LazyStarters = {}, NEW g \in Callers, NEW c \in Stoppers, Quit(g, c)
  PROVE  TimerInv'
<1> USE CallersAssumption DEF Callers
<1>1. TimerTypeOK'
  BY Zenon DEF TimerInv, TimerTypeOK, Quit, Selects, Places, Timer, NoTimer
<1>2. LockInv'
  BY DEF TimerInv, TimerTypeOK, LockInv, StartInv, Counts, Resetting, Quit, Selects
<1>3. OneTimer'
  BY DEF TimerInv, TimerTypeOK, OneTimer, StartInv, On, NoTimer, Quit, Selects
<1>4. StartInv'
  BY DEF TimerInv, TimerTypeOK, OneTimer, LockInv, StartInv, Resetting, On, Counts, NoTimer, Quit, Selects
<1>5. RoundInv'
  BY DEF TimerInv, TimerTypeOK, OneTimer, LockInv, StartInv, RoundInv, Resetting, On, Counts, NoTimer, Timer, Quit, Selects
<1> QED BY <1>1, <1>2, <1>3, <1>4, <1>5 DEF TimerInv

LEMMA CloseKeeps ==
  ASSUME TimerInv, LazyStarters = {}, NEW g \in Callers, NEW c \in Stoppers, Close(g, c)
  PROVE  TimerInv'
<1> USE CallersAssumption DEF Callers
<1>1. TimerTypeOK'
  BY DEF TimerInv, TimerTypeOK, Close, Return, Places, Timer, NoTimer
<1>2. LockInv'
  BY DEF TimerInv, TimerTypeOK, LockInv, StartInv, Counts, Resetting, Close, Return
<1>3. OneTimer'
  BY DEF TimerInv, TimerTypeOK, OneTimer, StartInv, On, NoTimer, Close, Return
<1>4. StartInv'
  BY DEF TimerInv, TimerTypeOK, OneTimer, LockInv, StartInv, Resetting, On, Counts, NoTimer, Close, Return
<1>5. RoundInv'
  BY DEF TimerInv, TimerTypeOK, OneTimer, LockInv, StartInv, RoundInv, Resetting, On, Counts, NoTimer, Timer, Close, Return
<1> QED BY <1>1, <1>2, <1>3, <1>4, <1>5 DEF TimerInv

LEMMA InitTimerInv == TimerInit => TimerInv
<1> SUFFICES ASSUME TimerInit PROVE TimerInv
  OBVIOUS
<1>1. TimerTypeOK
  <2>1. 0 \in 0 .. MaxRound
    BY CallersAssumption
  <2>2. NoTimer \in Timer
    BY <2>1 DEF Timer, NoTimer
  <2> QED BY <2>1, <2>2, Zenon DEF TimerInit, TimerTypeOK, Places
<1>2. \A c \in Callers : at[c] = "idle" /\ timer[c].state = "off"
  BY DEF TimerInit, NoTimer
<1> QED BY <1>1, <1>2 DEF TimerInit, TimerInv, OneTimer, LockInv, StartInv, RoundInv, Resetting, On, Counts

LEMMA StepKeeps ==
  ASSUME TimerInv, LazyStarters = {}, [TimerNext]_timerVars
  PROVE  TimerInv'
<1>1. CASE UNCHANGED timerVars
  BY <1>1 DEF timerVars, TimerInv, TimerTypeOK, OneTimer, LockInv, StartInv, RoundInv, On, Counts
<1>2. ASSUME NEW c \in Callers, Caller(c) PROVE TimerInv'
  BY <1>2, InitialKeeps, SetNewRoundKeeps, CallbackKeeps, CheckKeeps, SetInitilisedKeeps,
     StartTimerKeeps DEF Caller
<1>3. ASSUME NEW g \in Callers, TimerStep(g) PROVE TimerInv'
  BY <1>3, RearmKeeps, ReceiveKeeps, FireKeeps, QuitKeeps, CloseKeeps DEF TimerStep
<1> QED BY <1>1, <1>2, <1>3, ExpireKeeps, StopTimerKeeps DEF TimerNext

(* The inductive invariant, when every start holds x.lock.                   *)
THEOREM TimerInvariant ==
  ASSUME LazyStarters = {}
  PROVE  TimerSpec => []TimerInv
BY InitTimerInv, StepKeeps, PTL DEF TimerSpec

(* Between the critical sections of the engine the countdown is for the      *)
(* engine's current round: no Reset of setNewRound is lost or overtaken.     *)
THEOREM TimerCountsCurrentRound ==
  ASSUME LazyStarters = {}
  PROVE  TimerSpec => []CountsCurrentRound
<1>1. TimerInv => CountsCurrentRound
  BY CallersAssumption DEF TimerInv, LockInv, RoundInv, CountsCurrentRound, Resetting
<1> QED BY <1>1, TimerInvariant, PTL

-----------------------------------------------------------------------------
(* The refinement of RoundTimer. *)

Running == {"armed", "expired", "stopped"}

CountingOf(t) == IF \E g \in Callers : t[g].state \in Running
                 THEN t[CHOOSE g \in Callers : t[g].state \in Running].round
                 ELSE Off

ExpiredOf(t) == \E g \in Callers : t[g].state = "expired"

(* With one goroutine at most, its record is the state of the countdown. *)
LEMMA CountingIs ==
  ASSUME NEW t, NEW g \in Callers, t[g].state \in Running,
         \A h \in Callers \ {g} : t[h].state \notin Running
  PROVE  CountingOf(t) = t[g].round /\ (ExpiredOf(t) <=> t[g].state = "expired")
<1>1. (CHOOSE h \in Callers : t[h].state \in Running) = g
  OBVIOUS
<1> QED BY <1>1 DEF CountingOf, ExpiredOf, Running

LEMMA NotCounting ==
  ASSUME NEW t, \A h \in Callers : t[h].state \notin Running
  PROVE  CountingOf(t) = Off /\ ~ExpiredOf(t)
BY DEF CountingOf, ExpiredOf, Running

(* A step of the timer as a step of CountingOf and ExpiredOf. *)
AbstractStep(t, u) ==
  \/ CountingOf(u) = CountingOf(t) /\ (ExpiredOf(u) <=> ExpiredOf(t))
  \/ /\ CountingOf(u) \in Nat /\ (CountingOf(t) = Off \/ CountingOf(u) > CountingOf(t))
     /\ ~ExpiredOf(u)
  \/ CountingOf(t) # Off /\ ~ExpiredOf(t) /\ ExpiredOf(u) /\ CountingOf(u) = CountingOf(t)
  \/ ExpiredOf(t) /\ ~ExpiredOf(u) /\ CountingOf(u) = CountingOf(t)
  \/ CountingOf(t) # Off /\ CountingOf(u) = Off /\ ~ExpiredOf(u)

LEMMA StepRefines ==
  ASSUME TimerInv, LazyStarters = {}, [TimerNext]_timerVars
  PROVE  AbstractStep(timer, timer')
<1> USE CallersAssumption DEF TimerInv
<1>0. ASSUME NEW g \in Callers, On(g)
      PROVE  \A h \in Callers \ {g} : timer[h].state = "off"
  BY <1>0 DEF OneTimer, On
<1>1. CASE UNCHANGED timer
  BY <1>1 DEF AbstractStep
<1>2. ASSUME NEW c \in Callers, StartTimer(c) PROVE AbstractStep(timer, timer')
  <2>1. \A g \in Callers : timer[g].state = "off"
    BY <1>2 DEF StartInv, StartTimer, On
  <2>2. timer'[c] = [state |-> "armed", round |-> info[c]] /\ \A g \in Callers \ {c} : timer'[g] = timer[g]
    BY <1>2 DEF StartTimer, TimerTypeOK
  <2>3. CountingOf(timer) = Off
    BY <2>1, NotCounting DEF Running
  <2>4. CountingOf(timer') = info[c] /\ ~ExpiredOf(timer')
    BY <2>1, <2>2, CountingIs DEF Running
  <2>5. info[c] \in Nat
    BY DEF TimerTypeOK
  <2> QED BY <2>3, <2>4, <2>5 DEF AbstractStep
<1>3. ASSUME NEW g \in Callers, NEW c \in Callers, Receive(g, c) PROVE AbstractStep(timer, timer')
  <2>1. timer[g].state \in Running /\ \A h \in Callers \ {g} : timer[h].state = "off"
    BY <1>0, <1>3 DEF Receive, Selects, On, Running
  <2>2. timer'[g] = [state |-> "stopped", round |-> info[c]] /\ \A h \in Callers \ {g} : timer'[h] = timer[h]
    BY <1>3 DEF Receive, TimerTypeOK
  <2>3. CountingOf(timer) = timer[g].round
    BY <2>1, CountingIs DEF Running
  <2>4. CountingOf(timer') = info[c] /\ ~ExpiredOf(timer')
    BY <2>1, <2>2, CountingIs DEF Running
  <2>5. info[c] \in Nat /\ timer[g].round \in Nat
    BY DEF TimerTypeOK, Timer
  <2>6. timer[g].round < info[c]
    BY <1>3, <2>1 DEF RoundInv, Resetting, Receive, On, Running
  <2> QED BY <2>3, <2>4, <2>5, <2>6 DEF AbstractStep
<1>4. ASSUME NEW g \in Callers, Rearm(g) \/ Expire(g) \/ \E b \in Callbacks : Fire(g, b)
      PROVE  AbstractStep(timer, timer')
  <2>1. timer[g].state \in Running /\ \A h \in Callers \ {g} : timer[h].state = "off"
    BY <1>0, <1>4 DEF Rearm, Expire, Fire, On, Running
  <2>2. /\ timer'[g].state \in Running /\ timer'[g].round = timer[g].round
        /\ \A h \in Callers \ {g} : timer'[h] = timer[h]
    BY <1>4 DEF Rearm, Expire, Fire, TimerTypeOK, Timer, Running
  <2>3. CountingOf(timer) = timer[g].round /\ (ExpiredOf(timer) <=> timer[g].state = "expired")
    BY <2>1, CountingIs DEF Running
  <2>4. CountingOf(timer') = timer[g].round /\ (ExpiredOf(timer') <=> timer'[g].state = "expired")
    BY <2>1, <2>2, CountingIs DEF Running
  <2>5. timer[g].round # Off
    BY DEF TimerTypeOK, Timer
  <2> QED BY <2>3, <2>4, <2>5 DEF AbstractStep
<1>5. ASSUME NEW g \in Callers, NEW c \in Stoppers, Quit(g, c) \/ Close(g, c)
      PROVE  AbstractStep(timer, timer')
  <2>1. \A h \in Callers \ {g} : timer[h].state = "off"
    BY <1>0, <1>5 DEF Quit, Close, Selects, On
  <2>2. timer'[g].state \in {"quitting", "off"} /\ \A h \in Callers \ {g} : timer'[h] = timer[h]
    BY <1>5 DEF Quit, Close, NoTimer, TimerTypeOK, Timer
  <2>3. CountingOf(timer') = Off /\ ~ExpiredOf(timer')
    BY <2>1, <2>2, NotCounting DEF Running
  <2>4. CASE timer[g].state \in Running
    <3>1. CountingOf(timer) = timer[g].round
      BY <2>1, <2>4, CountingIs DEF Running
    <3>2. timer[g].round # Off
      BY DEF TimerTypeOK, Timer
    <3> QED BY <2>3, <3>1, <3>2 DEF AbstractStep
  <2>5. CASE timer[g].state \notin Running
    BY <2>1, <2>3, <2>5, NotCounting DEF AbstractStep, Running
  <2> QED BY <2>4, <2>5
<1> QED BY <1>1, <1>2, <1>3, <1>4, <1>5 DEF TimerNext, timerVars, Caller, TimerStep, Initial, SetNewRound,
           Callback, Check, SetInitilised, StopTimer

(* The goroutine, its channels and its callers together behave like the one  *)
(* countdown that RoundTimer specifies, if every start holds x.lock.         *)
THEOREM TimerImplementsRoundTimer ==
  ASSUME LazyStarters = {}
  PROVE  TimerSpec => ImplementsRoundTimer
<1>1. TimerInit => RT!Init
  <2> SUFFICES ASSUME TimerInit PROVE RT!Init
    OBVIOUS
  <2>1. \A c \in Callers : timer[c].state = "off"
    BY DEF TimerInit, NoTimer
  <2> QED BY <2>1 DEF RT!Init, Counts
<1>2. ASSUME TimerInv, [TimerNext]_timerVars PROVE [RT!Next]_RT!vars
  <2>1. AbstractStep(timer, timer')
    BY <1>2, StepRefines
  <2> QED BY <2>1, Zenon DEF AbstractStep, CountingOf, ExpiredOf, Running, Counts, RT!Next, RT!vars, RT!Reset, RT!Expire,
             RT!Fire, RT!Stop
<1> QED BY <1>1, <1>2, TimerInvariant, PTL DEF TimerSpec, ImplementsRoundTimer, RT!Spec

-----------------------------------------------------------------------------
(* Integers of a fixed width.                                                 *)

LEMMA SmallerOf ==
  ASSUME NEW a \in Int, NEW b \in Int
  PROVE  Min({a, b}) = IF a <= b THEN a ELSE b
<1> DEFINE m == IF a <= b THEN a ELSE b
<1>1. m \in {a, b} /\ \A y \in {a, b} : m <= y
  OBVIOUS
<1>2. \A x \in {a, b} : (\A y \in {a, b} : x <= y) => x = m
  OBVIOUS
<1> QED BY <1>1, <1>2 DEF Min

LEMMA LargerOf ==
  ASSUME NEW a \in Int, NEW b \in Int
  PROVE  Max({a, b}) = IF a <= b THEN b ELSE a
<1> DEFINE m == IF a <= b THEN b ELSE a
<1>1. m \in {a, b} /\ \A y \in {a, b} : m >= y
  OBVIOUS
<1>2. \A x \in {a, b} : (\A y \in {a, b} : x >= y) => x = m
  OBVIOUS
<1> QED BY <1>1, <1>2 DEF Max

(* A number that fits is its own int64 value.                                 *)
LEMMA SignedFits ==
  ASSUME NEW n \in 0 .. MaxInt
  PROVE  Signed(n) = n
<1> DEFINE w == MaxInt + 1
<1>1. MaxInt \in Nat
  BY ParamsAssumption
<1>2. n + w \in 0 .. 2 * w - 1 /\ w \in Nat \ {0}
  BY <1>1
<1>3. (n + w) % (2 * w) = n + w
  BY <1>2
<1> QED BY <1>1, <1>3 DEF Signed

(* The division guards the product.                                           *)
LEMMA GuardIsExact ==
  ASSUME NEW d \in Nat, NEW m \in Nat \ {0}, NEW limit \in Nat
  PROVE  d > limit \div m <=> d * m > limit
<1> DEFINE q == limit \div m
           r == limit % m
<1>1. q \in Nat /\ r \in Nat /\ r < m /\ limit = q * m + r
  OBVIOUS
<1> HIDE DEF q, r
<1>2. ASSUME d > q
      PROVE  d * m > limit
  <2>1. d * m >= (q + 1) * m
    BY <1>1, <1>2
  <2>2. (q + 1) * m = q * m + m
    BY <1>1
  <2> QED BY <1>1, <2>1, <2>2
<1>3. ASSUME d <= q
      PROVE  d * m <= limit
  <2>1. d * m <= q * m
    BY <1>1, <1>3
  <2> QED BY <1>1, <2>1
<1>4. d > q <=> d * m > limit
  BY <1>1, <1>2, <1>3
<1> QED BY <1>4 DEF q

(* int64(power) is a natural number when the base is not negative.            *)
LEMMA MultiplierIsNatural ==
  ASSUME NEW p \in Params, p.base.num >= 0, NEW e \in 0 .. p.maxExponent
  PROVE  Multiplier(p, e) \in Nat
<1>1. Power(p.base.num, e) \in Nat /\ Power(p.base.den, e) \in Nat \ {0}
  BY PowerAssumption
<1> QED BY <1>1 DEF Multiplier, Truncated

(* GetTimeoutDuration computes the exact product of a parameter set.          *)
LEMMA DurationOfParams ==
  ASSUME NEW p \in Params, p.base.num >= 0, NEW current \in Nat, NEW highest \in Nat
  PROVE  Duration(p, current, highest) = Exact(p, current, highest)
<1> DEFINE missed == current - highest - 1
           e == Exponent(p, current, highest)
           m == Multiplier(p, e)
<1>1. /\ p.duration \in Nat /\ p.duration <= MaxInt /\ p.maxExponent \in Nat
      /\ MaxInt \in Nat
  BY ParamsAssumption
<1>2. /\ Max({0, missed}) = IF 0 <= missed THEN missed ELSE 0
      /\ missed \in Int
  BY LargerOf
<1>3. /\ e = Min({p.maxExponent, Max({0, missed})})
      /\ e \in 0 .. p.maxExponent
  <2>1. CASE highest < current
    <3>1. missed \in Nat /\ Max({0, missed}) = missed
      BY <1>2, <2>1
    <3>2. e = Min({missed, p.maxExponent})
      BY <2>1 DEF Exponent
    <3>3. Min({missed, p.maxExponent}) = IF missed <= p.maxExponent THEN missed ELSE p.maxExponent
      BY <1>1, <3>1, SmallerOf
    <3>4. Min({p.maxExponent, missed}) = IF p.maxExponent <= missed THEN p.maxExponent ELSE missed
      BY <1>1, <3>1, SmallerOf
    <3> HIDE DEF e, missed
    <3> QED BY <1>1, <3>1, <3>2, <3>3, <3>4
  <2>2. CASE ~(highest < current)
    <3>1. Max({0, missed}) = 0
      BY <1>2, <2>2
    <3>2. e = 0
      BY <2>2 DEF Exponent
    <3>3. Min({p.maxExponent, 0}) = IF p.maxExponent <= 0 THEN p.maxExponent ELSE 0
      BY <1>1, SmallerOf
    <3>4. Min({p.maxExponent, 0}) = 0
      BY <1>1, <3>3
    <3>5. Min({p.maxExponent, Max({0, missed})}) = 0
      BY <3>1, <3>4, Zenon
    <3> HIDE DEF e, missed
    <3> QED BY <1>1, <3>2, <3>5
  <2> QED BY <2>1, <2>2
<1>4. m \in Nat
  BY <1>3, MultiplierIsNatural
<1>5. Exact(p, current, highest) = Min({MaxInt, p.duration * m})
  BY <1>3 DEF Exact
<1>6. Duration(p, current, highest) =
        IF m > 0 /\ p.duration > MaxInt \div m THEN MaxInt ELSE Signed(p.duration * m)
  BY DEF Duration
<1> HIDE DEF m
<1>7. p.duration * m \in Nat
  BY <1>1, <1>4
<1>8. Min({MaxInt, p.duration * m}) =
        IF MaxInt <= p.duration * m THEN MaxInt ELSE p.duration * m
  BY <1>1, <1>7, SmallerOf
<1>9. CASE m > 0 /\ p.duration > MaxInt \div m
  <2>1. p.duration * m > MaxInt
    BY <1>1, <1>4, <1>9, GuardIsExact
  <2> QED BY <1>1, <1>5, <1>6, <1>7, <1>8, <1>9, <2>1
<1>10. CASE ~(m > 0 /\ p.duration > MaxInt \div m)
  <2>1. p.duration * m <= MaxInt
    <3>1. CASE m = 0
      BY <1>1, <3>1
    <3>2. CASE m > 0
      <4>1. ~(p.duration * m > MaxInt)
        BY <1>1, <1>4, <1>10, <3>2, GuardIsExact
      <4> QED BY <1>1, <1>7, <4>1
    <3> QED BY <1>4, <3>1, <3>2
  <2>2. Signed(p.duration * m) = p.duration * m
    BY <1>1, <1>7, <2>1, SignedFits
  <2>3. Duration(p, current, highest) = p.duration * m
    BY <1>6, <1>10, <2>2
  <2> QED BY <1>1, <1>5, <1>7, <1>8, <2>1, <2>3
<1> QED BY <1>9, <1>10

-----------------------------------------------------------------------------
(* The lock of the parameters.                                                *)

LEMMA InitLocksFields == DurationInit => LockedFields
<1> SUFFICES ASSUME DurationInit
             PROVE  LockedFields
  OBVIOUS
<1>1. params \in Params /\ Valid(params) /\ params = [f \in Fields |-> params[f]]
  BY ParamsAssumption DEF DurationInit, Fields
<1>2. DOMAIN writer = {} /\ DOMAIN reader = {} /\ writer = NoFields /\ reader = NoFields
  BY DEF DurationInit, NoFields
<1> QED BY <1>1, <1>2 DEF DurationInit, LockedFields, Fields, NoFields

(* A parameter set is its three fields.                                       *)
LEMMA ParamsFields ==
  ASSUME NEW p \in Params
  PROVE  p = [f \in Fields |-> p[f]]
BY ParamsAssumption DEF Fields

LEMMA LockReadStep ==
  ASSUME LockedFields, LockRead
  PROVE  LockedFields'
<1>1. PICK p \in Params :
        /\ Valid(p)
        /\ \A f \in Fields : (IF f \in DOMAIN writer THEN writer[f] ELSE params[f]) = p[f]
  BY DEF LockedFields
<1>2. DOMAIN writer = {} /\ DOMAIN reader = {}
  BY Zenon DEF LockedFields, LockRead, NoFields
<1>3. params = p
  BY <1>1, <1>2, ParamsFields DEF LockedFields
<1> QED BY <1>1, <1>2, <1>3 DEF LockedFields, LockRead, Fields

LEMMA ArmedStep ==
  ASSUME LockedFields, Armed
  PROVE  LockedFields'
<1>1. DOMAIN reader' = {} /\ reader' = [f \in DOMAIN reader' |-> reader'[f]]
  BY DEF Armed, NoFields
<1>2. mu # "read"
  BY DEF LockedFields, Armed
<1> QED BY <1>1, <1>2 DEF LockedFields, Armed

LEMMA SetParamsStep ==
  ASSUME LockedFields, NEW p \in Params, SetParams(p)
  PROVE  LockedFields'
<1>1. /\ writer' = p /\ DOMAIN writer' = Fields /\ writer' = [f \in DOMAIN writer' |-> writer'[f]]
      /\ Fields # {}
  BY ParamsFields DEF SetParams, Fields
<1>2. mu = "free" /\ mu' = "write" /\ Valid(p) /\ UNCHANGED <<params, reader, valid>>
  BY DEF SetParams
<1> QED BY <1>1, <1>2 DEF LockedFields

LEMMA ReadStep ==
  ASSUME LockedFields, NEW f \in Fields, Read(f)
  PROVE  LockedFields'
<1>1. /\ valid # {} /\ f \notin DOMAIN reader /\ mu = "read"
      /\ reader' = [g \in DOMAIN reader \cup {f} |-> IF g = f THEN params[f] ELSE reader[g]]
      /\ UNCHANGED <<params, writer, valid>>
  BY DEF LockedFields, Read
<1>2. DOMAIN reader' = DOMAIN reader \cup {f} /\ DOMAIN reader' \subseteq Fields
  BY <1>1 DEF LockedFields
<1>3. mu' = IF DOMAIN reader' = Fields THEN "free" ELSE "read"
  BY <1>1 DEF Read
<1>4. PICK p \in Params :
        /\ Valid(p) /\ valid = {p} /\ params = p
        /\ \A g \in DOMAIN reader : reader[g] = p[g]
  BY <1>1 DEF LockedFields
<1>5. \A g \in DOMAIN reader' : reader'[g] = p[g]
  BY <1>1, <1>2, <1>4
<1>6. reader' = [g \in DOMAIN reader' |-> reader'[g]]
  BY <1>1
<1> QED BY <1>1, <1>2, <1>3, <1>4, <1>5, <1>6 DEF LockedFields

LEMMA WriteFieldStep ==
  ASSUME LockedFields, NEW f \in Fields, WriteField(f)
  PROVE  LockedFields'
<1>1. /\ f \in DOMAIN writer /\ mu = "write"
      /\ params' = [params EXCEPT ![f] = writer[f]]
      /\ writer' = [g \in DOMAIN writer \ {f} |-> writer[g]]
      /\ UNCHANGED <<reader, valid>>
  BY DEF LockedFields, WriteField
<1>2. /\ DOMAIN writer' = DOMAIN writer \ {f} /\ DOMAIN params = Fields
      /\ writer' = [g \in DOMAIN writer' |-> writer'[g]]
      /\ params' = [g \in Fields |-> params'[g]]
  BY <1>1 DEF LockedFields
<1>3. writer' = NoFields <=> DOMAIN writer' = {}
  BY <1>2, Zenon DEF NoFields
<1>4. mu' = IF DOMAIN writer' = {} THEN "free" ELSE "write"
  BY <1>1, <1>3 DEF WriteField
<1>5. PICK p \in Params :
        /\ Valid(p)
        /\ \A g \in Fields : (IF g \in DOMAIN writer THEN writer[g] ELSE params[g]) = p[g]
  BY DEF LockedFields
<1>6. \A g \in Fields :
        (IF g \in DOMAIN writer' THEN writer'[g] ELSE params'[g]) = p[g]
  BY <1>1, <1>2, <1>5
<1> QED BY <1>1, <1>2, <1>4, <1>5, <1>6 DEF LockedFields

LEMMA LockedFieldsStep == LockedFields /\ [DurationNext]_durationVars => LockedFields'
<1> SUFFICES ASSUME LockedFields, [DurationNext]_durationVars
             PROVE  LockedFields'
  OBVIOUS
<1>1. CASE UNCHANGED durationVars
  BY <1>1 DEF LockedFields, durationVars
<1>2. CASE DurationNext
  BY <1>2, LockReadStep, ArmedStep, SetParamsStep, ReadStep, WriteFieldStep DEF DurationNext
<1> QED BY <1>1, <1>2

(* The read lock of GetTimeoutDuration and the write lock of SetParams keep   *)
(* the three fields of a parameter set together.                              *)
THEOREM FieldsStayTogether == DurationSpec => []LockedFields
BY InitLocksFields, LockedFieldsStep, PTL DEF DurationSpec

(* Whatever SetParams writes meanwhile, the countdown is armed with the exact *)
(* duration of one valid parameter set: GetTimeoutDuration neither mixes two  *)
(* sets nor, as long as their bases are not negative, wraps around.           *)
THEOREM TimeoutIsExact == DurationSpec => []DurationIsExact
<1>1. LockedFields => DurationIsExact
  <2> SUFFICES ASSUME LockedFields
               PROVE  DurationIsExact
    OBVIOUS
  <2>1. ASSUME writer = NoFields
        PROVE  params \in Params /\ Valid(params)
    <3>1. DOMAIN writer = {}
      BY <2>1 DEF NoFields
    <3>2. PICK p \in Params : Valid(p) /\ \A f \in Fields : params[f] = p[f]
      BY <3>1 DEF LockedFields
    <3>3. params = p
      BY <3>2, ParamsFields DEF LockedFields
    <3> QED BY <3>2, <3>3
  <2>2. ASSUME DOMAIN reader = Fields
        PROVE  reader \in valid /\ reader \in Params
    <3>1. valid # {}
      BY <2>2 DEF LockedFields, Fields
    <3>2. PICK p \in Params : valid = {p} /\ \A f \in Fields : reader[f] = p[f]
      BY <2>2, <3>1 DEF LockedFields
    <3>3. reader = p
      BY <2>2, <3>2, ParamsFields DEF LockedFields
    <3> QED BY <3>2, <3>3
  <2>3. ParamsInForce /\ ReadsOneParameterSet
    BY <2>1, <2>2 DEF LockedFields, ParamsInForce, ReadsOneParameterSet
  <2>4. ASSUME NEW current \in 0 .. LastRound, NEW highest \in 0 .. LastRound
        PROVE  /\ writer = NoFields /\ params.base.num >= 0 =>
                    Duration(params, current, highest) = Exact(params, current, highest)
               /\ DOMAIN reader = Fields /\ reader.base.num >= 0 =>
                    \E p \in valid :
                      Duration(reader, current, highest) = Exact(p, current, highest)
    BY <2>1, <2>2, DurationOfParams
  <2> QED BY <2>3, <2>4 DEF DurationIsExact
<1> QED BY <1>1, FieldsStayTogether, PTL

=============================================================================
