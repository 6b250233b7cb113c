------------------------------ MODULE MCLoops ------------------------------
(* Two loops of a node that share nothing, checked side by side. part says    *)
(* which of them a behaviour is about: the countdown of the engine            *)
(* ("countdown") or the start and stop of the block producer ("staking"). The *)
(* other one stands still.                                                    *)
EXTENDS Staking, CountdownTimer, TLC

CONSTANTS x1, x2, b1, b2  \* goroutines that take x.lock

VARIABLE part

Init ==
  /\ part \in {"countdown", "staking"}
  /\ TimerInit
  /\ StakingInit

Next ==
  \/ part = "countdown" /\ TimerNext /\ UNCHANGED <<part, stakingVars>>
  \/ part = "staking" /\ StakingNext /\ UNCHANGED <<part, timerVars>>

(* Goroutines that can run are scheduled, the wall clock runs timers out, and *)
(* channels with a receiver are received. A synchronisation ends, and         *)
(* checkpoints keep coming.                                                   *)
Scheduled ==
  /\ \A c \in Callers :
       /\ WF_timerVars(/\ part = "countdown"
                       /\ Initial(c) \/ Check(c) \/ SetInitilised(c) \/ StartTimer(c))
       /\ WF_timerVars(part = "countdown" /\ TimerStep(c))
       /\ WF_timerVars(part = "countdown" /\ Expire(c))
  /\ WF_stakingVars(part = "staking" /\ Update)
  /\ WF_stakingVars(part = "staking" /\ TakeWork)
  /\ WF_stakingVars(part = "staking" /\ TakeStop)
  /\ WF_stakingVars(part = "staking" /\ SyncEnd)
  /\ WF_stakingVars(part = "staking" /\ StartStaking)
  /\ WF_stakingVars(part = "staking" /\ StopStaking)

(* x.lock and the mutexes of the miner are handed to whoever keeps asking for *)
(* them. Only one part moves in a behaviour, so one condition can stand for a *)
(* goroutine of each part.                                                    *)
Beside == (x1 :> "s1") @@ (x2 :> "update") @@ (b1 :> "main") @@ (b2 :> "ticker")

LocksAreFair ==
  \A c \in DOMAIN Beside :
    SF_<<timerVars, stakingVars>>(
      \/ part = "countdown" /\ (SetNewRound(c) \/ Callback(c)) /\ UNCHANGED stakingVars
      \/ part = "staking" /\ Thread(Beside[c]) /\ UNCHANGED timerVars)

FairSpec == Init /\ [][Next]_<<part, timerVars, stakingVars>> /\ Scheduled /\ LocksAreFair

=============================================================================
