---------------------------- MODULE StakingProofs ----------------------------
(* Proofs about Staking, for any goroutines and any number of                 *)
(* synchronisations, changes of the masternode list and ticks: StakingInv is  *)
(* inductive, and it implies both invariants of the agent's goroutines.       *)
EXTENDS Staking, FiniteSetTheorems, TLAPS

Held == {"push", "agent.stop", "drain", "stopped"}

LEMMA NoOneIsNoThread == NoOne \notin Threads
  BY StartersAssumption DEF Threads, NoOne

(* Goroutines that hold worker.mu are the one that wmu names.                 *)
LEMMA OneHolder ==
  ASSUME StakingInv, NEW t \in Threads, pc[t] \in Held
  PROVE  wmu = t
  BY DEF StakingInv, Held

(* A step outside the critical sections of worker.mu, by one thread or by     *)
(* none, that leaves worker and agent alone.                                  *)
LEMMA QuietStep ==
  ASSUME StakingInv, StakingTypeOK', UNCHANGED <<wmining, wmu, agent>>,
         \A t \in Threads : pc'[t] = pc[t] \/ {pc[t], pc'[t]} \cap Held = {}
  PROVE  StakingInv'
<1>1. \A t \in Threads : pc'[t] = pc[t] \/ (pc[t] \notin Held /\ pc'[t] \notin Held)
  OBVIOUS
<1>2. \A l \in {"agent.stop", "drain"} : At(l) <=> At(l)'
  <2>1. wmu \in Threads => pc[wmu] \in Held
    BY DEF StakingInv, Held
  <2>2. QED
    BY <1>1, <2>1 DEF At, Held
<1>3. QED
  BY <1>1, <1>2 DEF StakingInv, Held

(* Moves of one thread between steps outside the critical sections.           *)
LEMMA QuietMove ==
  ASSUME StakingInv, NEW t \in Threads, NEW a \in PC \ Held, NEW b \in PC \ Held,
         Go(t, a, b)
  PROVE  /\ pc' \in [Threads -> PC]
         /\ \A u \in Threads : pc'[u] = pc[u] \/ {pc[u], pc'[u]} \cap Held = {}
  BY DEF StakingInv, StakingTypeOK, Go

(* What a step of the thread that holds worker.mu, or takes it, makes of the   *)
(* lock when it goes to step l.                                               *)
LEMMA HolderMove ==
  ASSUME StakingInv, NEW t \in Threads, wmu \in {t, NoOne}, NEW l \in PC,
         pc' = [pc EXCEPT ![t] = l], wmu' = IF l \in Held THEN t ELSE NoOne
  PROVE  /\ pc' \in [Threads -> PC] /\ wmu' \in Threads \cup {NoOne}
         /\ pc'[t] = l
         /\ \A u \in Threads \ {t} : pc[u] \notin Held /\ pc'[u] \notin Held
         /\ \A u \in Threads : wmu' = u <=> pc'[u] \in Held
         /\ \A k \in Held : At(k)' <=> k = l
<1>1. pc \in [Threads -> PC] /\ \A u \in Threads : wmu = u <=> pc[u] \in Held
  BY DEF StakingInv, StakingTypeOK, Held
<1>2. pc' \in [Threads -> PC] /\ pc'[t] = l /\ \A u \in Threads \ {t} : pc'[u] = pc[u]
  BY <1>1
<1>3. \A u \in Threads \ {t} : pc[u] \notin Held
  BY <1>1, NoOneIsNoThread
<1>4. \A u \in Threads : wmu' = u <=> pc'[u] \in Held
  BY <1>2, <1>3, NoOneIsNoThread
<1>5. \A k \in Held : At(k)' <=> k = l
  BY <1>2, NoOneIsNoThread DEF At
<1> QED BY <1>2, <1>3, <1>4, <1>5

(* The types after such a step, whatever it does to worker and agent.         *)
LEMMA HolderTypes ==
  ASSUME StakingTypeOK, UNCHANGED <<miner, others>>, NEW t \in Threads, NEW l \in PC,
         pc' = [pc EXCEPT ![t] = l],
         wmu' \in {t, NoOne}, wmining' \in BOOLEAN, agent' \in Agent
  PROVE  StakingTypeOK'
<1>1. pc' \in [Threads -> PC]
  BY DEF StakingTypeOK
<1>2. wmu' \in Threads \cup {NoOne}
  OBVIOUS
<1> QED BY <1>1, <1>2 DEF StakingTypeOK, miner, others

(* What such a step must show of worker and agent.                            *)
LEMMA HolderKeeps ==
  ASSUME StakingInv, StakingTypeOK', NEW t \in Threads, wmu \in {t, NoOne}, NEW l \in PC,
         pc' = [pc EXCEPT ![t] = l], wmu' = IF l \in Held THEN t ELSE NoOne,
         l \notin Held => (wmining' <=> agent'.isMining),
         l = "push" => agent'.isMining /\ wmining',
         l \in Held \ {"push"} => ~agent'.isMining,
         agent'.work = 1 => agent'.isMining \/ l \in {"agent.stop", "drain"},
         agent'.sealing => agent'.loops > 0,
         agent'.loops = agent'.stop + (IF l = "agent.stop" THEN 1 ELSE 0)
                                    + (IF agent'.isMining THEN 1 ELSE 0)
  PROVE  StakingInv'
<1>1. /\ pc'[t] = l
      /\ \A u \in Threads \ {t} : pc'[u] \notin Held
      /\ \A u \in Threads : wmu' = u <=> pc'[u] \in Held
      /\ \A k \in Held : At(k)' <=> k = l
  BY HolderMove, Zenon
<1>2. wmu' = NoOne => (wmining' <=> agent'.isMining)
  BY NoOneIsNoThread
<1>3. \A u \in Threads : pc'[u] = "push" => agent'.isMining /\ wmining'
  BY <1>1 DEF Held
<1>4. \A u \in Threads : pc'[u] \in {"agent.stop", "drain", "stopped"} => ~agent'.isMining
  BY <1>1 DEF Held
<1>5. (At("agent.stop")' <=> l = "agent.stop") /\ (At("drain")' <=> l = "drain")
  BY <1>1 DEF Held
<1>6. \A u \in Threads : wmu' = u <=> pc'[u] \in {"push", "agent.stop", "drain", "stopped"}
  BY <1>1 DEF Held
<1> QED BY <1>2, <1>3, <1>4, <1>5, <1>6 DEF StakingInv

(* What the thread t at step l may know of worker and agent, with l outside   *)
(* the critical sections and worker.mu free, or inside and t its holder.      *)
LEMMA InvFacts ==
  ASSUME StakingInv, NEW t \in Threads, NEW l \in PC, pc[t] = l, wmu = NoOne \/ l \in Held
  PROVE  /\ agent \in Agent
         /\ wmu \in {t, NoOne} /\ (l \in Held => wmu = t) /\ (l \notin Held => wmu = NoOne)
         /\ l \notin Held => (wmining <=> agent.isMining)
         /\ l = "push" => agent.isMining /\ wmining
         /\ l \in {"agent.stop", "drain", "stopped"} => ~agent.isMining
         /\ agent.work = 1 => agent.isMining \/ l \in {"agent.stop", "drain"}
         /\ agent.sealing => agent.loops > 0
         /\ agent.loops = agent.stop + (IF l = "agent.stop" THEN 1 ELSE 0)
                                     + (IF agent.isMining THEN 1 ELSE 0)
<1>1. (l \in Held => wmu = t) /\ (l \notin Held => wmu = NoOne)
  BY DEF StakingInv, Held
<1>2. \A k \in {"agent.stop", "drain"} : At(k) <=> l = k
  BY <1>1, NoOneIsNoThread DEF At, Held
<1> QED BY <1>1, <1>2 DEF StakingInv, StakingTypeOK

LEMMA InitEstablishesInv == StakingInit => StakingInv
<1> SUFFICES ASSUME StakingInit PROVE StakingInv
  OBVIOUS
<1>1. agent \in Agent /\ agent.isMining = FALSE /\ agent.loops = 0 /\ agent.stop = 0
      /\ agent.work = 0 /\ agent.sealing = FALSE
  BY DEF StakingInit, Agent
<1>2. pc \in [Threads -> PC] /\ \A t \in Threads : pc[t] = "idle"
  BY DEF StakingInit, PC
<1>3. StakingTypeOK
  BY <1>1, <1>2, Zenon DEF StakingInit, StakingTypeOK
<1>4. ~At("agent.stop")
  BY NoOneIsNoThread DEF StakingInit, At
<1> QED
  BY <1>1, <1>2, <1>3, <1>4, NoOneIsNoThread DEF StakingInit, StakingInv

-----------------------------------------------------------------------------
(* One lemma for each action that enters, leaves or moves inside the          *)
(* critical sections, or changes the agent.                                   *)

LEMMA WorkerStartKeeps ==
  ASSUME StakingInv, NEW t \in Threads, WorkerStart(t)
  PROVE  StakingInv'
<1>1. /\ wmu = NoOne /\ wmu' = NoOne /\ wmining' = TRUE /\ agent' = AgentStart
      /\ pc' = [pc EXCEPT ![t] = "precheck"]
      /\ "precheck" \in PC \ Held
  BY DEF WorkerStart, Go, PC, Held
<1>2. /\ agent \in Agent /\ (agent.sealing => agent.loops > 0)
      /\ agent.loops = agent.stop + 0 + (IF agent.isMining THEN 1 ELSE 0)
  <2>1. pc[t] = "worker.start" /\ "worker.start" \in PC \ Held
    BY DEF WorkerStart, Go, PC, Held
  <2> QED BY <1>1, <2>1, InvFacts
<1>3. /\ agent' \in Agent /\ agent'.isMining
      /\ agent'.stop = agent.stop /\ agent'.sealing = agent.sealing
      /\ agent'.loops = agent.loops + (IF agent.isMining THEN 0 ELSE 1)
  <2>1. CASE agent.isMining
    BY <1>1, <1>2, <2>1 DEF AgentStart, Agent
  <2>2. CASE ~agent.isMining
    <3>1. agent.loops + 1 \in 0 .. 3 /\ TRUE \in BOOLEAN
      BY <1>2, <2>2 DEF Agent
    <3>2. agent' = [agent EXCEPT !.isMining = TRUE, !.loops = agent.loops + 1]
      BY <1>1, <2>2, Zenon DEF AgentStart
    <3> QED BY <1>2, <2>2, <3>1, <3>2, Zenon DEF Agent
  <2> QED BY <2>1, <2>2
<1>4. StakingTypeOK'
  <2>1. StakingTypeOK /\ wmining \in BOOLEAN /\ agent \in Agent
    BY DEF StakingInv, StakingTypeOK
  <2>2. UNCHANGED <<miner, others>>
    BY DEF WorkerStart
  <2>3. wmu' \in {t, NoOne} /\ wmining' \in BOOLEAN /\ agent' \in Agent
    BY <1>1, <1>3, <2>1
  <2> QED BY <1>1, <1>3, <2>1, <2>2, <2>3, HolderTypes, Zenon
<1>5. /\ agent'.loops = agent'.stop + 0 + (IF agent'.isMining THEN 1 ELSE 0)
      /\ agent'.sealing => agent'.loops > 0
  BY <1>2, <1>3 DEF Agent
<1>6. "precheck" \notin {"push", "agent.stop", "drain"}
  OBVIOUS
<1> QED BY <1>1, <1>3, <1>4, <1>5, <1>6, HolderKeeps, Zenon

LEMMA CheckKeeps ==
  ASSUME StakingInv, NEW t \in Threads, CommitNewWork(t)
  PROVE  StakingInv'
<1>1. PICK l \in {"push", "idle"} :
        /\ pc' = [pc EXCEPT ![t] = l] /\ (l = "push" => wmining)
        /\ wmu' = IF l = "push" THEN t ELSE NoOne
  <2>1. PICK turn \in BOOLEAN :
          /\ pc' = [pc EXCEPT ![t] = IF wmining /\ turn THEN "push" ELSE "idle"]
          /\ wmu' = IF wmining /\ turn THEN t ELSE NoOne
    BY Zenon DEF CommitNewWork, Go
  <2>2. CASE wmining /\ turn
    BY <2>1, <2>2
  <2>3. CASE ~(wmining /\ turn)
    BY <2>1, <2>3, Zenon
  <2> QED BY <2>2, <2>3
<1>2. /\ pc[t] = "check" /\ wmu = NoOne /\ agent' = agent /\ wmining' = wmining
      /\ "check" \in PC \ Held /\ l \in PC /\ (l \in Held <=> l = "push")
  BY <1>1, Zenon DEF CommitNewWork, Go, PC, Held
<1>3. /\ agent \in Agent /\ (wmining <=> agent.isMining)
      /\ agent.work = 1 => agent.isMining
      /\ agent.sealing => agent.loops > 0
      /\ agent.loops = agent.stop + 0 + (IF agent.isMining THEN 1 ELSE 0)
  BY <1>2, InvFacts
<1>4. StakingTypeOK'
  <2>1. StakingTypeOK /\ wmining \in BOOLEAN /\ agent \in Agent
    BY DEF StakingInv, StakingTypeOK
  <2>2. UNCHANGED <<miner, others>>
    BY DEF CommitNewWork
  <2>3. wmu' \in {t, NoOne} /\ wmining' \in BOOLEAN /\ agent' \in Agent
    BY <1>1, <1>2, <2>1
  <2> QED BY <1>1, <1>2, <2>1, <2>2, <2>3, HolderTypes, Zenon
<1>5. l \notin {"agent.stop", "drain", "stopped"} /\ l \notin Held \ {"push"}
  BY <1>1 DEF Held
<1> QED BY <1>1, <1>2, <1>3, <1>4, <1>5, HolderKeeps, Zenon

LEMMA PushKeeps ==
  ASSUME StakingInv, NEW t \in Threads, Push(t)
  PROVE  StakingInv'
<1>1. /\ pc[t] = "push" /\ pc' = [pc EXCEPT ![t] = "idle"] /\ wmu' = NoOne
      /\ agent' = [agent EXCEPT !.work = 1] /\ wmining' = wmining
      /\ "push" \in PC \cap Held /\ "idle" \in PC \ Held
  BY DEF Push, Go, PC, Held
<1>2. /\ agent \in Agent /\ wmining /\ agent.isMining /\ wmu = t
      /\ agent.sealing => agent.loops > 0
      /\ agent.loops = agent.stop + 0 + (IF agent.isMining THEN 1 ELSE 0)
  BY <1>1, InvFacts
<1>3. /\ agent' \in Agent /\ agent'.isMining = agent.isMining
      /\ agent'.sealing = agent.sealing
      /\ agent'.loops = agent.loops /\ agent'.stop = agent.stop
  <2>1. agent \in Agent /\ agent' = [agent EXCEPT !.work = 1]
    BY <1>1, <1>2
  <2> QED BY <2>1 DEF Agent
<1>4. StakingTypeOK'
  <2>1. StakingTypeOK /\ wmining \in BOOLEAN /\ agent \in Agent
    BY DEF StakingInv, StakingTypeOK
  <2>2. UNCHANGED <<miner, others>>
    BY DEF Push
  <2>3. wmu' \in {t, NoOne} /\ wmining' \in BOOLEAN /\ agent' \in Agent
    BY <1>1, <1>2, <1>3, <2>1
  <2> QED BY <1>1, <1>2, <1>3, <2>1, <2>2, <2>3, HolderTypes, Zenon
<1>5. "idle" \notin {"push", "agent.stop", "drain"}
  OBVIOUS
<1> QED BY <1>1, <1>2, <1>3, <1>4, <1>5, HolderKeeps, Zenon

LEMMA WorkerStopKeeps ==
  ASSUME StakingInv, NEW t \in Threads, WorkerStop(t)
  PROVE  StakingInv'
<1>1. /\ pc[t] = "stop" /\ wmu = NoOne /\ wmu' = t /\ wmining' = wmining
      /\ "stop" \in PC \ Held /\ {"agent.stop", "stopped"} \subseteq PC \cap Held
  BY DEF WorkerStop, Go, PC, Held
<1>2. /\ agent \in Agent /\ (wmining <=> agent.isMining)
      /\ agent.work = 1 => agent.isMining
      /\ agent.sealing => agent.loops > 0
      /\ agent.loops = agent.stop + 0 + (IF agent.isMining THEN 1 ELSE 0)
  BY <1>1, InvFacts
<1>3. CASE wmining
  <2>1. /\ pc' = [pc EXCEPT ![t] = "agent.stop"]
        /\ agent' = [agent EXCEPT !.isMining = FALSE]
    BY <1>2, <1>3, Zenon DEF WorkerStop, Go
  <2>2. /\ agent' \in Agent /\ ~agent'.isMining /\ agent'.sealing = agent.sealing
        /\ agent'.loops = agent.loops /\ agent'.stop = agent.stop
    BY <1>2, <2>1, Zenon DEF Agent
  <2>3. StakingTypeOK'
    <3>1. StakingTypeOK /\ wmining \in BOOLEAN /\ agent \in Agent
      BY DEF StakingInv, StakingTypeOK
    <3>2. UNCHANGED <<miner, others>>
      BY DEF WorkerStop
    <3>3. wmu' \in {t, NoOne} /\ wmining' \in BOOLEAN /\ agent' \in Agent
      BY <1>1, <2>1, <2>2, <3>1
    <3> QED BY <1>1, <2>1, <2>2, <3>1, <3>2, <3>3, HolderTypes, Zenon
  <2>4. agent'.loops = agent'.stop + 1 + 0 /\ agent.isMining
    BY <1>2, <1>3, <2>2 DEF Agent
  <2> QED BY <1>1, <1>2, <2>1, <2>2, <2>3, <2>4, HolderKeeps, Zenon
<1>4. CASE ~wmining
  <2>1. pc' = [pc EXCEPT ![t] = "stopped"] /\ agent' = agent
    BY <1>4 DEF WorkerStop, Go
  <2>2. StakingTypeOK'
    <3>1. StakingTypeOK /\ wmining \in BOOLEAN /\ agent \in Agent
      BY DEF StakingInv, StakingTypeOK
    <3>2. UNCHANGED <<miner, others>>
      BY DEF WorkerStop
    <3>3. wmu' \in {t, NoOne} /\ wmining' \in BOOLEAN /\ agent' \in Agent
      BY <1>1, <2>1, <3>1
    <3> QED BY <1>1, <2>1, <3>1, <3>2, <3>3, HolderTypes, Zenon
  <2>3. agent.work # 1 /\ ~agent.isMining /\ "stopped" # "agent.stop"
    BY <1>2, <1>4
  <2>4. agent.loops = agent.stop + 0 + 0
    BY <1>2, <2>3
  <2> QED BY <1>1, <1>2, <2>1, <2>2, <2>3, <2>4, HolderKeeps, Zenon
<1> QED BY <1>3, <1>4

LEMMA AgentStopKeeps ==
  ASSUME StakingInv, NEW t \in Threads, AgentStop(t)
  PROVE  StakingInv'
<1>1. /\ pc[t] = "agent.stop" /\ pc' = [pc EXCEPT ![t] = "drain"] /\ wmu' = wmu
      /\ agent' = [agent EXCEPT !.stop = 1] /\ agent.stop = 0 /\ wmining' = wmining
      /\ {"agent.stop", "drain"} \subseteq PC \cap Held
  BY DEF AgentStop, Go, PC, Held
<1>2. /\ agent \in Agent /\ ~agent.isMining /\ wmu = t
      /\ agent.sealing => agent.loops > 0
      /\ agent.loops = agent.stop + 1 + 0
  BY <1>1, InvFacts
<1>3. /\ agent' \in Agent /\ ~agent'.isMining /\ agent'.sealing = agent.sealing
      /\ agent'.loops = agent.loops /\ agent'.stop = 1
  BY <1>1, <1>2 DEF Agent
<1>4. StakingTypeOK'
  <2>1. StakingTypeOK /\ wmining \in BOOLEAN /\ agent \in Agent
    BY DEF StakingInv, StakingTypeOK
  <2>2. UNCHANGED <<miner, others>>
    BY DEF AgentStop
  <2>3. wmu' \in {t, NoOne} /\ wmining' \in BOOLEAN /\ agent' \in Agent
    BY <1>1, <1>2, <1>3, <2>1
  <2> QED BY <1>1, <1>2, <1>3, <2>1, <2>2, <2>3, HolderTypes, Zenon
<1>5. agent'.loops = agent'.stop + 0 + 0
  BY <1>1, <1>2, <1>3
<1> QED BY <1>1, <1>2, <1>3, <1>4, <1>5, HolderKeeps, Zenon

LEMMA DrainKeeps ==
  ASSUME StakingInv, NEW t \in Threads, Drain(t)
  PROVE  StakingInv'
<1>1. /\ pc[t] = "drain" /\ pc' = [pc EXCEPT ![t] = "stopped"] /\ wmu' = wmu
      /\ agent' = [agent EXCEPT !.work = 0] /\ wmining' = wmining
      /\ {"drain", "stopped"} \subseteq PC \cap Held
  BY DEF Drain, Go, PC, Held
<1>2. /\ agent \in Agent /\ ~agent.isMining /\ wmu = t
      /\ agent.sealing => agent.loops > 0
      /\ agent.loops = agent.stop + 0 + 0
  BY <1>1, InvFacts
<1>3. /\ agent' \in Agent /\ ~agent'.isMining /\ agent'.sealing = agent.sealing
      /\ agent'.loops = agent.loops /\ agent'.stop = agent.stop /\ agent'.work = 0
  BY <1>1, <1>2 DEF Agent
<1>4. StakingTypeOK'
  <2>1. StakingTypeOK /\ wmining \in BOOLEAN /\ agent \in Agent
    BY DEF StakingInv, StakingTypeOK
  <2>2. UNCHANGED <<miner, others>>
    BY DEF Drain
  <2>3. wmu' \in {t, NoOne} /\ wmining' \in BOOLEAN /\ agent' \in Agent
    BY <1>1, <1>2, <1>3, <2>1
  <2> QED BY <1>1, <1>2, <1>3, <2>1, <2>2, <2>3, HolderTypes, Zenon
<1>5. agent'.loops = agent'.stop + 0 + 0 /\ "stopped" \notin {"push", "agent.stop"}
  BY <1>2, <1>3
<1>6. (agent'.sealing => agent'.loops > 0) /\ agent'.work # 1
  BY <1>2, <1>3
<1>7. wmu \in {t, NoOne} /\ wmu' = t /\ ~agent'.isMining
  BY <1>1, <1>2, <1>3
<1>8. /\ "stopped" \in PC /\ pc' = [pc EXCEPT ![t] = "stopped"]
      /\ wmu' = IF "stopped" \in Held THEN t ELSE NoOne
      /\ "stopped" \notin Held => (wmining' <=> agent'.isMining)
  BY <1>1, <1>7
<1> QED BY <1>4, <1>5, <1>6, <1>7, <1>8, HolderKeeps, Zenon

LEMMA WorkerStoppedKeeps ==
  ASSUME StakingInv, NEW t \in Threads, WorkerStopped(t)
  PROVE  StakingInv'
<1>1. /\ pc[t] = "stopped" /\ pc' = [pc EXCEPT ![t] = "clear mining"]
      /\ wmu' = NoOne /\ agent' = agent /\ wmining' = FALSE
      /\ "stopped" \in PC \cap Held /\ "clear mining" \in PC \ Held
  BY Zenon DEF WorkerStopped, Go, PC, Held
<1>2. /\ agent \in Agent /\ ~agent.isMining /\ wmu = t
      /\ agent.work # 1
      /\ agent.sealing => agent.loops > 0
      /\ agent.loops = agent.stop + 0 + 0
  BY <1>1, InvFacts, Zenon
<1>3. StakingTypeOK'
  <2>1. StakingTypeOK /\ wmining \in BOOLEAN /\ agent \in Agent
    BY DEF StakingInv, StakingTypeOK
  <2>2. UNCHANGED <<miner, others>>
    BY Zenon DEF WorkerStopped
  <2>3. wmu' \in {t, NoOne} /\ wmining' \in BOOLEAN /\ agent' \in Agent
    BY <1>1, <1>2, <2>1, Zenon
  <2> QED BY <1>1, <1>2, <2>1, <2>2, <2>3, HolderTypes, Zenon
<1>4. "clear mining" \notin {"push", "agent.stop"}
  OBVIOUS
<1> QED BY <1>1, <1>2, <1>3, <1>4, HolderKeeps, Zenon

(* A step of the agent's goroutines.                                          *)
LEMMA LoopKeeps ==
  ASSUME StakingInv, UNCHANGED <<miner, wmining, wmu, pc, others>>,
         agent' \in Agent, agent'.isMining <=> agent.isMining,
         agent'.work = 1 => agent.work = 1,
         agent'.sealing => agent'.loops > 0,
         agent'.loops + agent.stop = agent.loops + agent'.stop
  PROVE  StakingInv'
<1>1. StakingTypeOK'
  BY DEF StakingInv, StakingTypeOK, miner, others
<1>2. \A l : At(l)' <=> At(l)
  BY DEF At
<1>3. agent'.loops = agent'.stop + (IF At("agent.stop")' THEN 1 ELSE 0)
                                 + (IF agent'.isMining THEN 1 ELSE 0)
  <2> DEFINE x == IF At("agent.stop") THEN 1 ELSE 0
             y == IF agent.isMining THEN 1 ELSE 0
  <2>1. agent \in Agent /\ agent.loops = agent.stop + x + y /\ x \in Nat /\ y \in Nat
    BY DEF StakingInv, StakingTypeOK
  <2>2. agent.loops \in Nat /\ agent.stop \in Nat /\ agent'.loops \in Nat /\ agent'.stop \in Nat
    BY <2>1 DEF Agent
  <2> HIDE DEF x, y
  <2>3. \A i, j, k, l, c, d \in Nat :
          i = j + c + d /\ k + j = i + l => k = l + c + d
    OBVIOUS
  <2>4. agent'.loops + agent.stop = agent.loops + agent'.stop
    OBVIOUS
  <2>5. agent'.loops = agent'.stop + x + y
    BY <2>1, <2>2, <2>3, <2>4
  <2> QED BY <1>2, <2>5 DEF x, y
<1> QED BY <1>1, <1>2, <1>3 DEF StakingInv

LEMMA AgentLoopKeeps ==
  ASSUME StakingInv, AgentLoop
  PROVE  StakingInv'
<1>1. agent \in Agent
  BY DEF StakingInv, StakingTypeOK
<1>2. CASE TakeWork
  <2>1. /\ agent.loops > 0 /\ agent.work = 1
        /\ agent' = [agent EXCEPT !.work = 0, !.sealing = TRUE]
        /\ UNCHANGED <<miner, wmining, wmu, pc, others>>
    BY <1>2 DEF TakeWork
  <2>2. /\ agent' \in Agent /\ agent'.isMining = agent.isMining
        /\ agent'.loops = agent.loops /\ agent'.stop = agent.stop
    <3>1. agent' = [agent EXCEPT !.work = 0, !.sealing = TRUE]
      BY <2>1
    <3>2. agent' \in Agent
      BY <1>1, <3>1, TRUE \in BOOLEAN, FALSE \in BOOLEAN, 0 \in 0 .. 1, Zenon DEF Agent
    <3> QED BY <1>1, <3>1, <3>2, Zenon DEF Agent
  <2> QED BY <2>1, <2>2, LoopKeeps
<1>3. CASE TakeStop
  <2>1. /\ agent.loops > 0 /\ agent.stop = 1
        /\ agent' = [agent EXCEPT !.stop = 0, !.loops = agent.loops - 1, !.sealing = FALSE]
        /\ UNCHANGED <<miner, wmining, wmu, pc, others>>
    BY <1>3 DEF TakeStop
  <2>2. agent.loops - 1 \in 0 .. 3 /\ agent.loops \in Nat
    BY <1>1, <2>1 DEF Agent
  <2>3. /\ agent' \in Agent /\ agent'.isMining = agent.isMining /\ ~agent'.sealing
        /\ agent'.work = agent.work
        /\ agent'.loops = agent.loops - 1 /\ agent'.stop = 0
    <3>1. agent' = [agent EXCEPT !.stop = 0, !.loops = agent.loops - 1, !.sealing = FALSE]
      BY <2>1
    <3>2. agent' \in Agent
      BY <1>1, <2>2, <3>1, FALSE \in BOOLEAN, 0 \in 0 .. 1, Zenon DEF Agent
    <3> QED BY <1>1, <3>1, <3>2, Zenon DEF Agent
  <2>4. agent'.loops + agent.stop = agent.loops + agent'.stop
    BY <2>1, <2>2, <2>3
  <2> QED BY <2>1, <2>3, <2>4, LoopKeeps
<1>4. CASE Sealed
  <2>1. /\ agent' = [agent EXCEPT !.sealing = FALSE]
        /\ UNCHANGED <<miner, wmining, wmu, pc, others>>
    BY <1>4 DEF Sealed
  <2>2. /\ agent' \in Agent /\ agent'.isMining = agent.isMining /\ ~agent'.sealing
        /\ agent'.work = agent.work
        /\ agent'.loops = agent.loops /\ agent'.stop = agent.stop
    <3>1. agent' = [agent EXCEPT !.sealing = FALSE]
      BY <2>1
    <3>2. agent' \in Agent
      BY <1>1, <3>1, TRUE \in BOOLEAN, FALSE \in BOOLEAN, 0 \in 0 .. 1, Zenon DEF Agent
    <3> QED BY <1>1, <3>1, <3>2, Zenon DEF Agent
  <2> QED BY <2>1, <2>2, LoopKeeps
<1> QED BY <1>2, <1>3, <1>4 DEF AgentLoop

-----------------------------------------------------------------------------
(* The steps that leave worker and agent alone.                               *)

LEMMA QuietThread ==
  ASSUME StakingInv, NEW t \in Threads,
         \/ SetShouldStart(t) \/ LoadCanStart(t) \/ SetMining(t)
         \/ Precheck(t) \/ ClearMining(t) \/ ClearShouldStart(t)
  PROVE  StakingInv'
<1>1. ASSUME NEW a \in PC \ Held, NEW b \in PC \ Held, Go(t, a, b),
             UNCHANGED <<wmining, wmu, agent, others>>,
             canStart' = canStart, shouldStart' \in BOOLEAN, mining' \in BOOLEAN
      PROVE  StakingInv'
  <2>1. StakingTypeOK'
    BY <1>1, QuietMove DEF StakingInv, StakingTypeOK, others
  <2> QED BY <1>1, <2>1, QuietMove, QuietStep
<1>2. /\ shouldStart \in BOOLEAN /\ mining \in BOOLEAN
      /\ {"start", "canStart?", "mining", "idle", "worker.start", "precheck", "check",
          "clear mining", "clear shouldStart", "resume later"} \subseteq PC \ Held
  BY Zenon DEF StakingInv, StakingTypeOK, PC, Held
<1>3. CASE SetShouldStart(t)
  BY <1>1, <1>2, <1>3, Zenon DEF SetShouldStart
<1>4. CASE LoadCanStart(t)
  BY <1>1, <1>2, <1>4, Zenon DEF LoadCanStart, miner
<1>5. CASE SetMining(t)
  BY <1>1, <1>2, <1>5, Zenon DEF SetMining
<1>6. CASE Precheck(t)
  <2>1. PICK turn \in BOOLEAN : Go(t, "precheck", IF wmining /\ turn THEN "check" ELSE "idle")
    BY <1>6 DEF Precheck
  <2> QED BY <1>1, <1>2, <1>6, <2>1, Zenon DEF Precheck, miner
<1>7. CASE ClearMining(t)
  BY <1>1, <1>2, <1>7, Zenon DEF ClearMining
<1>8. CASE ClearShouldStart(t)
  BY <1>1, <1>2, <1>8, Zenon DEF ClearShouldStart
<1> QED BY <1>3, <1>4, <1>5, <1>6, <1>7, <1>8

LEMMA QuietUpdate ==
  ASSUME StakingInv, Update
  PROVE  StakingInv'
<1>1. ASSUME NEW a \in PC \ Held, NEW b \in PC \ Held, Go("update", a, b),
             UNCHANGED <<wmining, wmu, agent, mining, role, started>>,
             canStart' \in BOOLEAN, shouldStart' \in BOOLEAN, loaded' \in BOOLEAN,
             sync' \in {"off", "start", "on", "done"}
      PROVE  StakingInv'
  <2>1. "update" \in Threads
    BY DEF Threads
  <2>2. StakingTypeOK'
    BY <1>1, <2>1, QuietMove DEF StakingInv, StakingTypeOK
  <2> QED BY <1>1, <2>1, <2>2, QuietMove, QuietStep
<1>2. /\ canStart \in BOOLEAN /\ shouldStart \in BOOLEAN /\ loaded \in BOOLEAN
      /\ sync \in {"off", "start", "on", "done"}
      /\ {"idle", "mining?", "stop", "resume later", "set canStart", "start",
          "reset shouldStart"} \subseteq PC \ Held
  BY Zenon DEF StakingInv, StakingTypeOK, PC, Held
<1>3. CASE StartEvent
  BY <1>1, <1>2, <1>3, Zenon DEF StartEvent
<1>4. CASE StopForSync
  BY <1>1, <1>2, <1>4, Zenon DEF StopForSync, miner, others
<1>5. CASE ResumeLater
  BY <1>1, <1>2, <1>5, Zenon DEF ResumeLater, others
<1>6. CASE DoneEvent
  BY <1>1, <1>2, <1>6, Zenon DEF DoneEvent, miner
<1>7. CASE SetCanStart
  BY <1>1, <1>2, <1>7, Zenon DEF SetCanStart, others
<1>8. CASE ResetShouldStart
  BY <1>1, <1>2, <1>8, Zenon DEF ResetShouldStart, others
<1> QED BY <1>3, <1>4, <1>5, <1>6, <1>7, <1>8 DEF Update

LEMMA QuietRest ==
  ASSUME StakingInv,
         \/ Tick \/ SyncStart \/ SyncEnd \/ Flip \/ StartStaking \/ StopStaking
         \/ UNCHANGED stakingVars
  PROVE  StakingInv'
<1>1. ASSUME pc' \in [Threads -> PC],
             \A u \in Threads : pc'[u] = pc[u] \/ {pc[u], pc'[u]} \cap Held = {},
             UNCHANGED <<miner, wmining, wmu, agent, loaded>>,
             sync' \in {"off", "start", "on", "done"}, role' \in BOOLEAN, started' \in BOOLEAN
      PROVE  StakingInv'
  <2>1. StakingTypeOK'
    BY <1>1 DEF StakingInv, StakingTypeOK, miner
  <2> QED BY <1>1, <2>1, QuietStep
<1>2. ASSUME pc' = pc
      PROVE  /\ pc' \in [Threads -> PC]
             /\ \A u \in Threads : pc'[u] = pc[u] \/ {pc[u], pc'[u]} \cap Held = {}
  BY <1>2 DEF StakingInv, StakingTypeOK
<1>3. /\ sync \in {"off", "start", "on", "done"} /\ role \in BOOLEAN /\ started \in BOOLEAN
      /\ {"idle", "precheck", "start", "stop"} \subseteq PC \ Held
      /\ {"ticker", "main"} \cup Starters \subseteq Threads
  BY Zenon DEF StakingInv, StakingTypeOK, PC, Held, Threads
<1>4. CASE Tick
  BY <1>1, <1>3, <1>4, QuietMove DEF Tick
<1>5. CASE SyncStart
  BY <1>1, <1>2, <1>3, <1>5 DEF SyncStart
<1>6. CASE SyncEnd
  BY <1>1, <1>2, <1>3, <1>6 DEF SyncEnd
<1>7. CASE Flip
  BY <1>1, <1>2, <1>3, <1>7 DEF Flip
<1>8. CASE StartStaking
  BY <1>1, <1>3, <1>8, QuietMove DEF StartStaking
<1>9. CASE StopStaking
  BY <1>1, <1>3, <1>9, QuietMove, Zenon DEF StopStaking
<1>10. CASE UNCHANGED stakingVars
  BY <1>1, <1>2, <1>3, <1>10 DEF stakingVars
<1> QED BY <1>4, <1>5, <1>6, <1>7, <1>8, <1>9, <1>10

(* StakingInv is inductive.                                                   *)
LEMMA StakingInvStep ==
  ASSUME StakingInv, [StakingNext]_stakingVars
  PROVE  StakingInv'
<1>1. ASSUME NEW t \in Threads, Thread(t)
      PROVE  StakingInv'
  BY <1>1, WorkerStartKeeps, CheckKeeps, PushKeeps, WorkerStopKeeps, AgentStopKeeps,
     DrainKeeps, WorkerStoppedKeeps, QuietThread
  DEF Thread
<1> QED BY <1>1, AgentLoopKeeps, QuietUpdate, QuietRest DEF StakingNext

-----------------------------------------------------------------------------
(* The theorems.                                                              *)

(* Whoever holds worker.mu, worker.mining and CpuAgent.isMining agree when    *)
(* nobody does, and the agent's goroutines are accounted for.                 *)
THEOREM StakingInvariant == StakingSpec => []StakingInv
<1>1. StakingInit => StakingInv
  BY InitEstablishesInv
<1>2. StakingInv /\ [StakingNext]_stakingVars => StakingInv'
  BY StakingInvStep
<1> QED BY <1>1, <1>2, PTL DEF StakingSpec

(* CpuAgent.Start and CpuAgent.Stop, called by any number of goroutines in    *)
(* any order, leave one goroutine to go on exactly when the agent is mining.  *)
THEOREM OneLoopRemains == StakingSpec => []OneLoopWhenMining
<1>1. ASSUME StakingInv
      PROVE  OneLoopWhenMining
  <2> DEFINE x == IF At("agent.stop") THEN 1 ELSE 0
             y == IF agent.isMining THEN 1 ELSE 0
  <2>1. Sending = IF At("agent.stop") THEN {wmu} ELSE {}
    BY <1>1 DEF StakingInv, Sending, At
  <2>2. Cardinality(Sending) = x
    BY <2>1, FS_EmptySet, FS_Singleton, Zenon
  <2>3. agent \in Agent /\ agent.loops = agent.stop + x + y /\ x \in Nat /\ y \in Nat
    BY <1>1 DEF StakingInv, StakingTypeOK
  <2>4. agent.loops \in Nat /\ agent.stop \in Nat
    BY <2>3 DEF Agent
  <2> HIDE DEF x, y
  <2>5. agent.loops - agent.stop - Cardinality(Sending) = y
    BY <2>2, <2>3, <2>4
  <2> QED BY <2>5 DEF OneLoopWhenMining, y
<1> QED BY <1>1, StakingInvariant, PTL

(* When CpuAgent.Stop has been taken by the agent's last goroutine no seal    *)
(* runs on with an open quit channel, and only a holder of worker.mu that     *)
(* will drain it may still see work.                                          *)
THEOREM NothingSeals == StakingSpec => []NothingSealsWhenStopped
<1>1. ASSUME StakingInv, agent.loops = 0
      PROVE  ~agent.sealing /\ (agent.work = 0 \/ wmu # NoOne)
  <2> DEFINE x == IF At("agent.stop") THEN 1 ELSE 0
             y == IF agent.isMining THEN 1 ELSE 0
  <2>1. agent \in Agent /\ agent.loops = agent.stop + x + y /\ x \in Nat /\ y \in Nat
    BY <1>1 DEF StakingInv, StakingTypeOK
  <2>2. agent.stop \in Nat /\ agent.work \in {0, 1}
    BY <2>1 DEF Agent
  <2> HIDE DEF x, y
  <2>3. x = 0 /\ y = 0
    BY <1>1, <2>1, <2>2
  <2>4. ~At("agent.stop") /\ ~agent.isMining
    BY <2>3 DEF x, y
  <2>5. agent.work = 1 => wmu # NoOne
    BY <1>1, <2>4, NoOneIsNoThread DEF StakingInv, At
  <2>6. ~agent.sealing
    BY <1>1 DEF StakingInv
  <2> QED BY <2>2, <2>5, <2>6
<1>2. StakingInv => NothingSealsWhenStopped
  BY <1>1 DEF NothingSealsWhenStopped
<1> QED BY <1>2, StakingInvariant, PTL

=============================================================================
