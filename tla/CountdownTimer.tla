--------------------------- MODULE CountdownTimer ---------------------------
(* The countdown of the v2 engine (common/countdown/countdown.go) with the   *)
(* goroutines that use it.  Every channel operation, every access to         *)
(* t.initilised and every acquisition of x.lock is a step of its own.        *)
EXTENDS Naturals, FiniteSets

CONSTANTS Handlers,   \* goroutines that reach Reset through setNewRound
          Callbacks,  \* goroutines that run OnTimeoutFn
          LockedStarters,   \* goroutines that run initial() with x.lock held
          LazyStarters, \* ... and from verifyHeader, without it
          Stoppers,   \* goroutines that call StopTimer
          Free, Off,  \* nobody holds x.lock; no countdown
          MaxRound    \* bound on the engine's round

Callers == Handlers \cup Callbacks \cup LockedStarters \cup LazyStarters \cup Stoppers

ASSUME CallersAssumption ==
  /\ Free \notin Callers
  /\ Off \notin Nat
  /\ MaxRound \in Nat
  /\ (Handlers \cup Callbacks) \cap (LockedStarters \cup LazyStarters) = {}
  /\ Stoppers \cap (Handlers \cup Callbacks \cup LockedStarters \cup LazyStarters) = {}
  /\ Handlers \cap Callbacks = {}
  /\ LockedStarters \cap LazyStarters = {}

VARIABLES initilised,  \* t.initilised
          ready,       \* x.isInitilised
          xlock,       \* holder of x.lock
          round,       \* x.currentRound
          at,          \* at[c]: where caller c stands
          info,        \* info[c]: the round c passes to Reset
          timer        \* timer[c]: the timer goroutine that c started

timerVars == <<initilised, ready, xlock, round, at, info, timer>>

Places == {"idle", "spawned", "check", "set", "go", "send", "quit", "wait"}

(* A timer goroutine: its time.Timer is running, has run out, or has been     *)
(* stopped and not yet started again; round is currentRound of startTimer.    *)
Timer == [state : {"off", "armed", "expired", "stopped", "quitting"},
          round : 0 .. MaxRound]

NoTimer == [state |-> "off", round |-> 0]

On(g) == timer[g].state # "off"

(* The goroutine waits in its select. *)
Selects(g) == timer[g].state \in {"armed", "expired"}

TimerTypeOK ==
  /\ initilised \in BOOLEAN
  /\ ready \in BOOLEAN
  /\ xlock \in Callers \cup {Free}
  /\ round \in 0 .. MaxRound
  /\ at \in [Callers -> Places]
  /\ info \in [Callers -> 0 .. MaxRound]
  /\ timer \in [Callers -> Timer]

TimerInit ==
  /\ initilised = FALSE
  /\ ready = FALSE
  /\ xlock = Free
  /\ round = 0
  /\ at = [c \in Callers |-> "idle"]
  /\ info = [c \in Callers |-> 0]
  /\ timer = [c \in Callers |-> NoTimer]

-----------------------------------------------------------------------------

(* initial() reads x.isInitilised and kicks the countdown off. *)
Initial(c) ==
  /\ c \in LockedStarters \cup LazyStarters
  /\ at[c] = "idle" /\ ~ready
  /\ c \in LockedStarters => xlock = Free
  /\ xlock' = IF c \in LockedStarters THEN c ELSE xlock
  /\ at' = [at EXCEPT ![c] = "check"]
  /\ info' = [info EXCEPT ![c] = round]
  /\ UNCHANGED <<initilised, ready, round, timer>>

(* setNewRound: a handler, or a callback that completed a timeout           *)
(* certificate, raises the round under x.lock and calls Reset.              *)
SetNewRound(c) ==
  /\ \/ c \in Handlers /\ at[c] = "idle"
     \/ c \in Callbacks /\ at[c] = "spawned"
  /\ ready
  /\ xlock = Free
  /\ round < MaxRound
  /\ xlock' = c
  /\ round' = round + 1
  /\ at' = [at EXCEPT ![c] = "check"]
  /\ info' = [info EXCEPT ![c] = round + 1]
  /\ UNCHANGED <<initilised, ready, timer>>

(* OnTimeoutFn that signs a timeout and leaves the round as it is. *)
Callback(c) ==
  /\ c \in Callbacks
  /\ at[c] = "spawned" /\ xlock = Free
  /\ at' = [at EXCEPT ![c] = "idle"]
  /\ UNCHANGED <<initilised, ready, xlock, round, info, timer>>

(* The caller's return: x.lock is released by its holder, and initial()      *)
(* sets x.isInitilised.                                                      *)
Return(c) ==
  /\ at' = [at EXCEPT ![c] = "idle"]
  /\ xlock' = IF xlock = c THEN Free ELSE xlock
  /\ ready' = (ready \/ c \in LockedStarters \cup LazyStarters)

(* Plausible mistake: Reset gives up when the timer goroutine is busy. *)
CheckOrDrop(c) ==
  /\ at[c] = "check"
  /\ IF initilised /\ \A g \in Callers : ~Selects(g)
     THEN Return(c)
     ELSE /\ at' = [at EXCEPT ![c] = IF initilised THEN "send" ELSE "set"]
          /\ UNCHANGED <<ready, xlock>>
  /\ UNCHANGED <<initilised, round, info, timer>>

Check(c) ==
  /\ at[c] = "check"
  /\ at' = [at EXCEPT ![c] = IF initilised THEN "send" ELSE "set"]
  /\ UNCHANGED <<initilised, ready, xlock, round, info, timer>>

SetInitilised(c) ==
  /\ at[c] = "set"
  /\ initilised' = TRUE
  /\ at' = [at EXCEPT ![c] = "go"]
  /\ UNCHANGED <<ready, xlock, round, info, timer>>

(* go t.startTimer(...) *)
StartTimer(c) ==
  /\ at[c] = "go" /\ ~On(c)
  /\ timer' = [timer EXCEPT ![c] = [state |-> "armed", round |-> info[c]]]
  /\ Return(c)
  /\ UNCHANGED <<initilised, round, info>>

-----------------------------------------------------------------------------
(* The timer goroutine g: one step per case of its select. *)

(* Plausible mistake: Reset on a timer whose expiry has not been taken. *)
ReceiveUnstopped(g, c) ==
  /\ at[c] = "send" /\ Selects(g)
  /\ timer' = [timer EXCEPT ![g].round = info[c]]
  /\ Return(c)
  /\ UNCHANGED <<initilised, round, info>>

(* Plausible mistake: the callback runs in the timer goroutine itself, which *)
(* serves no channel until the callback is done.                             *)
ReceiveWhenIdle(g, c) ==
  /\ at[c] = "send" /\ Selects(g)
  /\ \A b \in Callbacks : at[b] = "idle"
  /\ timer' = [timer EXCEPT ![g] = [state |-> "stopped", round |-> info[c]]]
  /\ Return(c)
  /\ UNCHANGED <<initilised, round, info>>

(* case info := <-t.resetc: Stop leaves no value in timer.C.  Either it took *)
(* the value back itself, or it reports false and the drain receives it.     *)
Receive(g, c) ==
  /\ at[c] = "send" /\ Selects(g)
  /\ timer' = [timer EXCEPT ![g] = [state |-> "stopped", round |-> info[c]]]
  /\ Return(c)
  /\ UNCHANGED <<initilised, round, info>>

(* timer.Reset(duration) *)
Rearm(g) ==
  /\ timer[g].state = "stopped"
  /\ timer' = [timer EXCEPT ![g].state = "armed"]
  /\ UNCHANGED <<initilised, ready, xlock, round, at, info>>

Expire(g) ==
  /\ timer[g].state = "armed"
  /\ timer' = [timer EXCEPT ![g].state = "expired"]
  /\ UNCHANGED <<initilised, ready, xlock, round, at, info>>

(* Plausible mistake: the goroutine is done after one expiry. *)
FireOnce(g, b) ==
  /\ timer[g].state = "expired" /\ at[b] = "idle"
  /\ at' = [at EXCEPT ![b] = "spawned"]
  /\ timer' = [timer EXCEPT ![g] = NoTimer]
  /\ UNCHANGED <<initilised, ready, xlock, round, info>>

(* case <-timer.C: the callback gets a goroutine of its own and the          *)
(* countdown starts over.                                                    *)
Fire(g, b) ==
  /\ timer[g].state = "expired" /\ at[b] = "idle"
  /\ at' = [at EXCEPT ![b] = "spawned"]
  /\ timer' = [timer EXCEPT ![g].state = "armed"]
  /\ UNCHANGED <<initilised, ready, xlock, round, info>>

(* StopTimer by a caller that keeps others out of the timer meanwhile, as    *)
(* the tests do; nothing else calls it.                                      *)
StopTimer(c) ==
  /\ at[c] = "idle" /\ xlock = Free /\ initilised
  /\ xlock' = c
  /\ at' = [at EXCEPT ![c] = "quit"]
  /\ UNCHANGED <<initilised, ready, round, info, timer>>

(* case q := <-t.quitc *)
Quit(g, c) ==
  /\ at[c] = "quit" /\ Selects(g)
  /\ at' = [at EXCEPT ![c] = "wait"]
  /\ timer' = [timer EXCEPT ![g].state = "quitting"]
  /\ initilised' = FALSE
  /\ UNCHANGED <<ready, xlock, round, info>>

(* close(q) lets StopTimer return. *)
Close(g, c) ==
  /\ at[c] = "wait" /\ timer[g].state = "quitting"
  /\ timer' = [timer EXCEPT ![g] = NoTimer]
  /\ Return(c)
  /\ UNCHANGED <<initilised, round, info>>

Caller(c) ==
  \/ Initial(c)
  \/ SetNewRound(c)
  \/ Callback(c)
  \/ Check(c)
  \/ SetInitilised(c)
  \/ StartTimer(c)

TimerStep(g) ==
  \/ Rearm(g)
  \/ \E c \in Callers : Receive(g, c)
  \/ \E b \in Callbacks : Fire(g, b)
  \/ \E c \in Stoppers : Quit(g, c) \/ Close(g, c)

TimerNext ==
  \/ \E c \in Callers : Caller(c)
  \/ \E g \in Callers : TimerStep(g) \/ Expire(g)
  \/ \E c \in Stoppers : StopTimer(c)

TimerSpec == TimerInit /\ [][TimerNext]_timerVars

-----------------------------------------------------------------------------

(* There is one timer goroutine at most: two would both receive from resetc, *)
(* and a reset would reach only one of them (startTimer, Reset). initial()   *)
(* keeps this as long as all its callers hold x.lock, as its comment demands.*)
OneTimer == \A g, h \in Callers : On(g) /\ On(h) => g = h

(* Whenever nobody is inside a critical section of x.lock and initial() is   *)
(* done, the running countdown is for the engine's current round: no reset   *)
(* that setNewRound issued is lost or overtaken.                             *)
CountsCurrentRound ==
  xlock = Free /\ ready => \A g \in Callers : On(g) => timer[g].round = round

(* Every Reset returns, although it waits for the timer goroutine while      *)
(* holding x.lock, and the callback that goroutine starts needs x.lock.      *)
EveryResetReturns ==
  \A c \in Callers : at[c] \in {"check", "send"} ~> at[c] = "idle"

(* Once started the countdown calls back, round after round, until it is     *)
(* stopped: startTimer arms it again after each expiry.                      *)
KeepsCallingBack ==
  initilised ~> (\E b \in Callbacks : at[b] = "spawned") \/ ~initilised

Counts(g) == timer[g].state \in {"armed", "expired", "stopped"}

RT == INSTANCE RoundTimer WITH
        counting <- IF \E g \in Callers : Counts(g)
                    THEN timer[CHOOSE g \in Callers : Counts(g)].round
                    ELSE Off,
        expired <- \E g \in Callers : timer[g].state = "expired"

(* The goroutine, its channels and its callers together behave like the one  *)
(* countdown of RoundTimer.                                                  *)
ImplementsRoundTimer == RT!Spec

=============================================================================
