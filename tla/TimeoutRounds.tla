---------------------------- MODULE TimeoutRounds ----------------------------
(* Rounds without blocks: the nodes time out, exchange timeout messages and   *)
(* form timeout certificates across an epoch boundary, where the message      *)
(* they sign depends on the head they have (timeout.go, engine.go).           *)
(*                                                                            *)
(* The network is the one of BftGossip: a peer is never sent a message twice, *)
(* and a node handles a message with a hash it knows no more, so each message *)
(* reaches each node once. Signing is deterministic: a node that times out    *)
(* again with the same round and head signs the same message.                 *)
EXTENDS Naturals, Sequences, FiniteSets, FiniteSetsExt

CONSTANTS Live,         \* masternodes that run; the others never answer
          Epoch, Gap,
          Rounds,       \* rounds of the blocks after the switch block 0
          StartHead,    \* [Live -> 0 .. Len(Rounds)]
          Masternodes,  \* masternodes the epoch switch block of a number lists
          Candidates,   \* candidates of the snapshot at a gap number
          CertNum, CertDen,     \* CertThreshold = CertNum / CertDen
          TimeoutSyncThreshold,
          Collectors,   \* nodes that get the votes for the last block
          MaxRound      \* bound: nodes in this round do not time out

VARIABLES node,         \* per node: head, qc (the block of the highest QC), tc (the
                        \* highest TC), round, pool (timeouts), count (timeoutCount)
          inbox, seen   \* messages on the way to a node, and ever sent to it

vars == <<node, inbox, seen>>

RoundOf(b) == IF b = 0 THEN 0 ELSE Rounds[b]

BlankTC == [round |-> 0, gap |-> 0, signers |-> {}]

Timeout(r, g, n) == [type |-> "timeout", round |-> r, gap |-> g, signer |-> n]
SyncInfo(q, t) == [type |-> "syncInfo", qc |-> q, tc |-> t]

(* A node that starts at block h takes the certificate in its header. *)
CertIn(h) == IF h = 0 THEN 0 ELSE h - 1

Started(h) == [head |-> h, qc |-> CertIn(h), tc |-> BlankTC,
               round |-> RoundOf(CertIn(h)) + 1, pool |-> {}, count |-> 0]

Init ==
  /\ node = [n \in Live |-> Started(StartHead[n])]
  /\ inbox = [n \in Live |-> {}] /\ seen = [n \in Live |-> {}]

-----------------------------------------------------------------------------
(* Epochs and gap numbers. *)

EpochStart(r) == r - (r % Epoch)

IsEpochSwitch(b) == b <= 1 \/ RoundOf(b - 1) < EpochStart(RoundOf(b))

SwitchOf[b \in 0 .. Len(Rounds)] == IF IsEpochSwitch(b) THEN b ELSE SwitchOf[b - 1]

IsEpochSwitchAtRound(r, parent) ==
  parent = 0 \/ (r > RoundOf(parent) /\ RoundOf(parent) < EpochStart(r))

GapBefore(number) ==
  LET base == number - (number % Epoch)
  IN IF base > Gap THEN base - Gap ELSE 0

GapNumber(r, h) ==
  IF IsEpochSwitchAtRound(r, h) THEN GapBefore(h + 1) ELSE GapBefore(SwitchOf[h])

Reached(k, masternodes) == k * CertDen >= Cardinality(masternodes) * CertNum

(* getTCEpochInfo: the switch block of the head's epoch or of the latest      *)
(* earlier one that is not past the round. The chains have a block in every   *)
(* epoch (EpochSearch is about the others).                                   *)
TCSwitch[h \in 0 .. Len(Rounds), r \in 0 .. MaxRound] ==
  IF h = 0 \/ (IsEpochSwitch(h) /\ RoundOf(h) <= r) THEN h ELSE TCSwitch[h - 1, r]

TCMasternodes(h, r) == Masternodes[TCSwitch[h, r]]

-----------------------------------------------------------------------------

(* The handlers, as functions of the state s of a node. *)

SetNewRound(s, r) == [s EXCEPT !.round = r, !.pool = {}, !.count = 0]

(* Plausible mistake: the certificate of the current round is too old. *)
ProcessLaterTC(s, t) ==
  LET u == IF t.round > s.tc.round THEN [s EXCEPT !.tc = t] ELSE s
  IN IF t.round > u.round THEN SetNewRound(u, t.round + 1) ELSE u

ProcessTC(s, t) ==
  LET u == IF t.round > s.tc.round THEN [s EXCEPT !.tc = t] ELSE s
  IN IF t.round >= u.round THEN SetNewRound(u, t.round + 1) ELSE u

ProcessQC(s, b) ==
  LET u == IF RoundOf(b) > RoundOf(s.qc) THEN [s EXCEPT !.qc = b] ELSE s
  IN IF RoundOf(b) >= u.round THEN SetNewRound(u, RoundOf(b) + 1) ELSE u

(* The signers of the pooled timeouts with the key of m, those of them that   *)
(* count, and whether they make a certificate.                                *)
Signers(s, m) == {t.signer : t \in {t \in s.pool \cup {m} : t.gap = m.gap}}
Valid(s, m) == Signers(s, m) \cap TCMasternodes(s.head, m.round)
MakesTC(s, m) ==
  /\ Reached(Cardinality(Signers(s, m)), Masternodes[SwitchOf[s.head]])
  /\ Reached(Cardinality(Valid(s, m)), TCMasternodes(s.head, m.round))

(* timeoutHandler of a timeout for the round of the node. *)
TimeoutHandler(s, m) ==
  IF MakesTC(s, m)
  THEN ProcessTC(s, [round |-> m.round, gap |-> m.gap, signers |-> Valid(s, m)])
  ELSE [s EXCEPT !.pool = @ \cup {m}]

(* What the handler broadcasts. *)
Announced(s, m) ==
  IF MakesTC(s, m)
  THEN {SyncInfo(s.qc, TimeoutHandler(s, m).tc)} ELSE {}

(* VerifyTimeoutMessage. *)
VerifyTimeout(s, m) ==
  m.round >= s.round /\ m.gap <= s.head /\ m.signer \in Candidates[m.gap]

VerifyTC(s, t) ==
  \/ t = BlankTC
  \/ /\ t.gap <= s.head
     /\ t.signers \subseteq TCMasternodes(s.head, t.round)
     /\ Reached(Cardinality(t.signers), TCMasternodes(s.head, t.round))

(* VerifySyncInfoMessage. *)
VerifySyncInfo(s, m) ==
  /\ RoundOf(m.qc) > RoundOf(s.qc) \/ m.tc.round > s.tc.round
  /\ m.qc <= s.head
  /\ VerifyTC(s, m.tc)

-----------------------------------------------------------------------------

(* A broadcast reaches the nodes that were never sent its messages; box is    *)
(* what n still has to read.                                                  *)
Send(n, box, msgs) ==
  /\ inbox' = [p \in Live |-> IF p = n THEN box ELSE inbox[p] \cup (msgs \ seen[p])]
  /\ seen' = [p \in Live |-> seen[p] \cup msgs]

(* OnCountdownTimeout and sendTimeout. *)
Countdown(n) ==
  LET s     == node[n]
      m     == Timeout(s.round, GapNumber(s.round, s.head), n)
      after == TimeoutHandler(s, m)
      count == (after.count + 1) % TimeoutSyncThreshold
      sync  == IF count = 0 THEN {SyncInfo(after.qc, after.tc)} ELSE {}
  IN /\ n \in Masternodes[SwitchOf[s.head]]
     /\ s.round < MaxRound
     /\ node' = [node EXCEPT ![n] = [after EXCEPT !.count = count]]
     /\ Send(n, inbox[n], Announced(s, m) \cup {m} \cup sync)

ReceiveTimeout(n, m) ==
  LET s == node[n]
  IN /\ m \in inbox[n] /\ m.type = "timeout"
     /\ IF VerifyTimeout(s, m) /\ m.round = s.round
        THEN /\ node' = [node EXCEPT ![n] = TimeoutHandler(s, m)]
             /\ Send(n, inbox[n] \ {m}, Announced(s, m))
        ELSE Send(n, inbox[n] \ {m}, {}) /\ UNCHANGED node

ReceiveSyncInfo(n, m) ==
  LET s == node[n]
  IN /\ m \in inbox[n] /\ m.type = "syncInfo"
     /\ node' = IF VerifySyncInfo(s, m)
                THEN [node EXCEPT ![n] = ProcessTC(ProcessQC(s, m.qc), m.tc)] ELSE node
     /\ Send(n, inbox[n] \ {m}, {})

(* The next block arrives, and the certificate for its parent with it. *)
Import(n) ==
  LET s == node[n]
  IN /\ s.head < Len(Rounds)
     /\ node' = [node EXCEPT ![n] = ProcessQC([s EXCEPT !.head = @ + 1], s.head)]
     /\ UNCHANGED <<inbox, seen>>

(* The votes for the last block arrive and make a certificate; its voters     *)
(* need not be alive any more.                                                *)
CollectVotes(n) ==
  LET s == node[n]
  IN /\ n \in Collectors /\ s.head = Len(Rounds) /\ s.round <= RoundOf(s.head)
     /\ node' = [node EXCEPT ![n] = ProcessQC(s, s.head)]
     /\ UNCHANGED <<inbox, seen>>

Next == \E n \in Live :
  \/ Countdown(n) \/ Import(n) \/ CollectVotes(n)
  \/ \E m \in inbox[n] : ReceiveTimeout(n, m) \/ ReceiveSyncInfo(n, m)

Spec == Init /\ [][Next]_vars

-----------------------------------------------------------------------------

(* Ranges, and that a pool holds timeouts of the current round only. *)
TypeOK ==
  \A n \in Live :
    /\ node[n].head \in 0 .. Len(Rounds) /\ node[n].qc \in 0 .. Len(Rounds)
    /\ node[n].round \in 1 .. MaxRound
    /\ \A t \in node[n].pool : t.round = node[n].round

(* A round without a block ends: its timeouts make a certificate and every    *)
(* node moves on, whatever heads the nodes have.                              *)
RoundsEnd == <>(\A n \in Live : node[n].round = MaxRound)

=============================================================================
