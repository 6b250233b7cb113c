--------------------------- MODULE SnapshotStack ---------------------------
(***************************************************************************)
(* What StateDB promises to the EVM about snapshots: a stack of complete   *)
(* copies of everything a caller can observe.  A write changes the view    *)
(* and no copy; Snapshot pushes a copy; RevertToSnapshot puts the copy     *)
(* with that identifier back and drops it with every later one; the end of *)
(* transaction tx drops them all.                                          *)
(***************************************************************************)
EXTENDS Integers, Sequences

VARIABLES view, saved, tx
vars == <<view, saved, tx>>

Init == saved = <<>>

Write == saved' = saved /\ tx' = tx

Snapshot ==
  /\ Len(saved') = Len(saved) + 1
  /\ LET top == saved'[Len(saved')] IN
       /\ saved' = Append(saved, top)
       /\ \A i \in 1..Len(saved) : saved[i].id < top.id
       /\ top.view = view
  /\ UNCHANGED <<view, tx>>

RevertTo(i) ==
  /\ saved' = SubSeq(saved, 1, i - 1)
  /\ tx' = tx
  /\ view' = saved[i].view

EndTransaction == saved' = <<>> /\ tx' # tx

Next == Write \/ Snapshot \/ EndTransaction \/ \E i \in 1..Len(saved) : RevertTo(i)

Spec == Init /\ [][Next]_vars
=============================================================================
