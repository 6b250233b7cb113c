------------------------------- MODULE Staking -------------------------------
(* Starting and stopping the block producer of one node: the loop of          *)
(* cmd/XDC/main.go that follows the masternode list, the miner that pauses    *)
(* while the downloader synchronises (miner/miner.go), the worker             *)
(* (miner/worker.go) and its agent (miner/agent.go). Every load and store of  *)
(* an atomic flag is a step of its own; w.mu is the variable wmu.             *)
EXTENDS Naturals, FiniteSets

CONSTANTS Starters,   \* goroutines that StartStaking may spawn
          MaxSyncs,   \* bound on synchronisations
          MaxFlips,   \* bound on changes of the masternode list
          MaxWork     \* bound on work pushed by the worker's own loop

VARIABLES canStart, shouldStart, mining,   \* Miner
          wmining, wmu,                    \* worker.mining and who holds worker.mu
          agent,     \* the CpuAgent
          pc,        \* what every thread is doing
          sync,      \* the downloader
          loaded,    \* its local copy of shouldStart
          role, started,                   \* masternode or not; main's view of it
          syncs, flips, works

miner == <<canStart, shouldStart, mining>>
stakingVars == <<miner, wmining, wmu, agent, pc, sync, loaded, role, started,
          syncs, flips, works>>

Threads == Starters \cup {"update", "main", "ticker"}
NoOne == "nobody"

ASSUME StartersAssumption == NoOne \notin Starters

Agent == [isMining : BOOLEAN,
          loops : 0 .. 3,        \* update goroutines
          stop : 0 .. 1,         \* the buffered stop channel
          work : 0 .. 1,         \* the buffered work channel
          sealing : BOOLEAN]     \* mine runs with an open quit channel

StakingInit ==
  /\ canStart = TRUE /\ shouldStart = FALSE /\ mining = FALSE
  /\ wmining = FALSE /\ wmu = NoOne
  /\ agent = [isMining |-> FALSE, loops |-> 0, stop |-> 0, work |-> 0,
              sealing |-> FALSE]
  /\ pc = [t \in Threads |-> "idle"]
  /\ sync = "off" /\ loaded = FALSE
  /\ role = TRUE /\ started = FALSE
  /\ syncs = 0 /\ flips = 0 /\ works = 0

Go(t, from, to) == pc[t] = from /\ pc' = [pc EXCEPT ![t] = to]

others == <<sync, loaded, role, started, syncs, flips, works>>

-----------------------------------------------------------------------------
(* Miner.Start *)

SetShouldStart(t) ==
  /\ Go(t, "start", "canStart?")
  /\ shouldStart' = TRUE
  /\ UNCHANGED <<canStart, mining, wmining, wmu, agent, others>>

LoadCanStart(t) ==
  /\ Go(t, "canStart?", IF canStart THEN "mining" ELSE "idle")
  /\ UNCHANGED <<miner, wmining, wmu, agent, others>>

SetMining(t) ==
  /\ Go(t, "mining", "worker.start")
  /\ mining' = TRUE
  /\ UNCHANGED <<canStart, shouldStart, wmining, wmu, agent, others>>

(* Plausible mistake: the agent does not look whether it runs already. *)
AgentStartAgain ==
  [agent EXCEPT !.isMining = TRUE,
                !.loops = IF @ < 3 THEN @ + 1 ELSE @]

AgentStart ==
  IF agent.isMining THEN agent
  ELSE [agent EXCEPT !.isMining = TRUE, !.loops = @ + 1]

WorkerStart(t) ==
  /\ wmu = NoOne
  /\ Go(t, "worker.start", "precheck")
  /\ wmining' = TRUE
  /\ agent' = AgentStart
  /\ UNCHANGED <<miner, wmu, others>>

-----------------------------------------------------------------------------
(* worker.commitNewWork; whose turn it is belongs to the engine *)

Precheck(t) ==
  /\ wmu = NoOne
  /\ \E turn \in BOOLEAN :
       Go(t, "precheck", IF wmining /\ turn THEN "check" ELSE "idle")
  /\ UNCHANGED <<miner, wmining, wmu, agent, others>>

CommitNewWork(t) ==
  /\ wmu = NoOne
  /\ \E turn \in BOOLEAN :
       /\ Go(t, "check", IF wmining /\ turn THEN "push" ELSE "idle")
       /\ wmu' = IF wmining /\ turn THEN t ELSE NoOne
  /\ UNCHANGED <<miner, wmining, agent, others>>

(* push blocks while the work channel is full. *)
Push(t) ==
  /\ agent.work = 0
  /\ Go(t, "push", "idle")
  /\ agent' = [agent EXCEPT !.work = 1]
  /\ wmu' = NoOne
  /\ UNCHANGED <<miner, wmining, others>>

(* The worker's own loop: chain heads, rounds and the mining period. *)
Tick ==
  /\ works < MaxWork /\ works' = works + 1
  /\ Go("ticker", "idle", "precheck")
  /\ UNCHANGED <<miner, wmining, wmu, agent, sync, loaded, role, started,
                 syncs, flips>>

-----------------------------------------------------------------------------
(* Miner.Stop *)

WorkerStop(t) ==
  /\ wmu = NoOne /\ wmu' = t
  /\ Go(t, "stop", IF wmining /\ agent.isMining THEN "agent.stop" ELSE "stopped")
  /\ agent' = IF wmining THEN [agent EXCEPT !.isMining = FALSE] ELSE agent
  /\ UNCHANGED <<miner, wmining, others>>

(* The send blocks while an earlier stop has not been received. *)
AgentStop(t) ==
  /\ agent.stop = 0
  /\ Go(t, "agent.stop", "drain")
  /\ agent' = [agent EXCEPT !.stop = 1]
  /\ UNCHANGED <<miner, wmining, wmu, others>>

(* Plausible mistake: the drain waits for work. *)
DrainOne(t) ==
  /\ agent.work = 1
  /\ Go(t, "drain", "stopped")
  /\ agent' = [agent EXCEPT !.work = 0]
  /\ UNCHANGED <<miner, wmining, wmu, others>>

(* Work that nobody has taken is dropped. *)
Drain(t) ==
  /\ Go(t, "drain", "stopped")
  /\ agent' = [agent EXCEPT !.work = 0]
  /\ UNCHANGED <<miner, wmining, wmu, others>>

WorkerStopped(t) ==
  /\ Go(t, "stopped", "clear mining")
  /\ wmining' = FALSE /\ wmu' = NoOne
  /\ UNCHANGED <<miner, agent, others>>

ClearMining(t) ==
  /\ Go(t, "clear mining", "clear shouldStart")
  /\ mining' = FALSE
  /\ UNCHANGED <<canStart, shouldStart, wmining, wmu, agent, others>>

ClearShouldStart(t) ==
  /\ Go(t, "clear shouldStart", IF t = "update" THEN "resume later" ELSE "idle")
  /\ shouldStart' = FALSE
  /\ UNCHANGED <<canStart, mining, wmining, wmu, agent, others>>

-----------------------------------------------------------------------------
(* CpuAgent.update: any of its goroutines takes work or a stop. *)

TakeWork ==
  /\ agent.loops > 0 /\ agent.work = 1
  /\ agent' = [agent EXCEPT !.work = 0, !.sealing = TRUE]
  /\ UNCHANGED <<miner, wmining, wmu, pc, others>>

(* Plausible mistake: a stopped agent leaves the seal in progress. *)
TakeStopOnly ==
  /\ agent.loops > 0 /\ agent.stop = 1
  /\ agent' = [agent EXCEPT !.stop = 0, !.loops = @ - 1]
  /\ UNCHANGED <<miner, wmining, wmu, pc, others>>

TakeStop ==
  /\ agent.loops > 0 /\ agent.stop = 1
  /\ agent' = [agent EXCEPT !.stop = 0, !.loops = @ - 1, !.sealing = FALSE]
  /\ UNCHANGED <<miner, wmining, wmu, pc, others>>

Sealed ==
  /\ agent.sealing
  /\ agent' = [agent EXCEPT !.sealing = FALSE]
  /\ UNCHANGED <<miner, wmining, wmu, pc, others>>

-----------------------------------------------------------------------------
(* Miner.update. Posting an event waits for the loop. *)

SyncStart ==
  /\ sync = "off" /\ syncs < MaxSyncs
  /\ sync' = "start" /\ syncs' = syncs + 1
  /\ UNCHANGED <<miner, wmining, wmu, agent, pc, loaded, role, started, flips,
                 works>>

SyncEnd ==
  /\ sync = "on"
  /\ sync' = "done"
  /\ UNCHANGED <<miner, wmining, wmu, agent, pc, loaded, role, started, syncs,
                 flips, works>>

StartEvent ==
  /\ sync = "start" /\ sync' = "on"
  /\ Go("update", "idle", "mining?")
  /\ canStart' = FALSE
  /\ UNCHANGED <<shouldStart, mining, wmining, wmu, agent, loaded, role,
                 started, syncs, flips, works>>

StopForSync ==
  /\ Go("update", "mining?", IF mining THEN "stop" ELSE "idle")
  /\ UNCHANGED <<miner, wmining, wmu, agent, others>>

(* Plausible mistake: nobody remembers that the miner was running. *)
ForgetStart ==
  /\ Go("update", "resume later", "idle")
  /\ UNCHANGED <<miner, wmining, wmu, agent, others>>

ResumeLater ==
  /\ Go("update", "resume later", "idle")
  /\ shouldStart' = TRUE
  /\ UNCHANGED <<canStart, mining, wmining, wmu, agent, others>>

DoneEvent ==
  /\ sync = "done" /\ sync' = "off"
  /\ Go("update", "idle", "set canStart")
  /\ loaded' = shouldStart
  /\ UNCHANGED <<miner, wmining, wmu, agent, role, started, syncs, flips, works>>

SetCanStart ==
  /\ Go("update", "set canStart", "reset shouldStart")
  /\ canStart' = TRUE
  /\ UNCHANGED <<shouldStart, mining, wmining, wmu, agent, others>>

ResetShouldStart ==
  /\ Go("update", "reset shouldStart", IF loaded THEN "start" ELSE "idle")
  /\ shouldStart' = FALSE
  /\ UNCHANGED <<canStart, mining, wmining, wmu, agent, others>>

-----------------------------------------------------------------------------
(* cmd/XDC/main.go *)

(* An epoch switch changes the masternode list. *)
Flip ==
  /\ flips < MaxFlips /\ flips' = flips + 1
  /\ role' = ~role
  /\ UNCHANGED <<miner, wmining, wmu, agent, pc, sync, loaded, started, syncs,
                 works>>

(* StartStaking spawns Miner.Start: when the node boots, and later from a     *)
(* checkpoint that arrives outside a synchronisation.                         *)
StartStaking ==
  /\ pc["main"] = "idle" /\ role /\ ~started
  /\ flips = 0 \/ sync = "off"
  /\ \E t \in Starters : Go(t, "idle", "start")
  /\ started' = TRUE
  /\ UNCHANGED <<miner, wmining, wmu, agent, sync, loaded, role, syncs, flips,
                 works>>

(* StopStaking, from a checkpoint that arrives outside a synchronisation. *)
StopStaking ==
  /\ sync = "off" /\ ~role /\ started
  /\ Go("main", "idle", "stop")
  /\ started' = FALSE
  /\ UNCHANGED <<miner, wmining, wmu, agent, sync, loaded, role, syncs, flips,
                 works>>

-----------------------------------------------------------------------------

Thread(t) ==
  \/ SetShouldStart(t) \/ LoadCanStart(t) \/ SetMining(t) \/ WorkerStart(t)
  \/ Precheck(t) \/ CommitNewWork(t) \/ Push(t)
  \/ WorkerStop(t) \/ AgentStop(t) \/ Drain(t) \/ WorkerStopped(t)
  \/ ClearMining(t) \/ ClearShouldStart(t)

Update ==
  \/ StartEvent \/ StopForSync \/ ResumeLater
  \/ DoneEvent \/ SetCanStart \/ ResetShouldStart

AgentLoop == TakeWork \/ TakeStop \/ Sealed

StakingNext ==
  \/ \E t \in Threads : Thread(t)
  \/ Update \/ AgentLoop
  \/ Tick \/ SyncStart \/ SyncEnd \/ Flip \/ StartStaking \/ StopStaking

StakingSpec == StakingInit /\ [][StakingNext]_stakingVars

-----------------------------------------------------------------------------

PC == {"idle", "start", "canStart?", "mining", "worker.start",
       "precheck", "check", "push",
       "stop", "agent.stop", "drain", "stopped", "clear mining", "clear shouldStart",
       "mining?", "resume later", "set canStart", "reset shouldStart"}

StakingTypeOK ==
  /\ canStart \in BOOLEAN /\ shouldStart \in BOOLEAN /\ mining \in BOOLEAN
  /\ wmining \in BOOLEAN /\ wmu \in Threads \cup {NoOne}
  /\ agent \in Agent
  /\ pc \in [Threads -> PC]
  /\ sync \in {"off", "start", "on", "done"}
  /\ loaded \in BOOLEAN /\ role \in BOOLEAN /\ started \in BOOLEAN

Sending == {t \in Threads : pc[t] = "agent.stop"}

(* A restart may leave two goroutines on the agent's channels for a while and *)
(* either of them may take the stop, but those that will remain are one       *)
(* exactly when the agent is mining.                                          *)
OneLoopWhenMining ==
  agent.loops - agent.stop - Cardinality(Sending) = IF agent.isMining THEN 1 ELSE 0

(* When the last goroutine of the agent is gone no seal is left with a quit   *)
(* channel that nobody will close, and no work is left for the next start.    *)
NothingSealsWhenStopped ==
  agent.loops = 0 => ~agent.sealing /\ (agent.work = 0 \/ wmu # NoOne)

(* The holder of worker.mu is at step l. *)
At(l) == wmu \in Threads /\ pc[wmu] = l

(* What the two invariants above rest on: who holds worker.mu and where, when *)
(* the flags of worker and agent agree, and who will still empty the work     *)
(* channel or has a goroutine to do it.                                       *)
StakingInv ==
  /\ StakingTypeOK
  /\ \A t \in Threads : wmu = t <=> pc[t] \in {"push", "agent.stop", "drain", "stopped"}
  /\ wmu = NoOne => (wmining <=> agent.isMining)
  /\ \A t \in Threads : pc[t] = "push" => agent.isMining /\ wmining
  /\ \A t \in Threads : pc[t] \in {"agent.stop", "drain", "stopped"} => ~agent.isMining
  /\ agent.work = 1 => agent.isMining \/ At("agent.stop") \/ At("drain")
  /\ agent.sealing => agent.loops > 0
  /\ agent.loops = agent.stop + (IF At("agent.stop") THEN 1 ELSE 0)
                              + (IF agent.isMining THEN 1 ELSE 0)

(* A send on the work or the stop channel, which holds w.mu, returns: there   *)
(* is always a goroutine of the agent to receive it.                          *)
LockIsReleased == \A t \in Threads : wmu = t ~> wmu # t

(* A miner that pauses for a synchronisation mines again after it, unless     *)
(* the node is no masternode any more (Miner.update).                         *)
ResumesAfterSync == pc["update"] = "resume later" ~> wmining \/ ~started

=============================================================================
