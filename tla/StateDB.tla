------------------------------ MODULE StateDB ------------------------------
(***************************************************************************)
(* core/state: the account state a block is executed on, with its journal  *)
(* of undo entries, the transaction boundary (Finalise), the root          *)
(* (IntermediateRoot) and the commit of the block.                         *)
(*                                                                         *)
(* `st' is one StateDB, `db' the database below it.  A trie is its         *)
(* contents: the account trie a function from addresses to accounts, a     *)
(* storage root the function from keys to values it stands for, and a root *)
(* can be opened only if its nodes have been committed (db.storages).      *)
(* Unset is a missing map entry.  `storages', which nothing reads, the     *)
(* preimages and the timers are left out.                                  *)
(***************************************************************************)
EXTENDS Integers, Sequences, FiniteSets, SequencesExt

CONSTANTS Addrs, Keys, Codes,  \* addresses, storage keys, contract codes
          Vals,                \* storage values 0..n; 0 is the empty slot
          Ops,                 \* the operations this instance's caller uses
          MaxBalance,          \* bound on a balance
          MaxEntries,          \* bound on the journal's length
          MaxRevisions,        \* bound on the snapshots of a transaction
          MaxTxs, MaxBlocks,   \* bounds on transactions per block, and blocks
          None, Unset          \* nil; no entry

VARIABLES st, db,
          saved    \* history: what was observable when each revision was taken
vars == <<st, db, saved>>

NoStorage == [k \in Keys |-> 0]
NoSlots   == [k \in Keys |-> Unset]
NoCode    == None

EmptyAccount == [bal |-> 0, nonce |-> 0, code |-> NoCode, root |-> NoStorage]

(* A cached account.  oS, pS and dS are originStorage, pendingStorage and
   dirtyStorage; trie is the open storage trie; burnt is destructedBalance. *)
NewObject(acct) ==
  [origin |-> acct, data |-> IF acct = None THEN EmptyAccount ELSE acct,
   code |-> None, dirtyCode |-> FALSE, trie |-> None,
   oS |-> NoSlots, pS |-> NoSlots, dS |-> NoSlots,
   sd |-> FALSE, preserve |-> FALSE, newContract |-> FALSE, burnt |-> 0]

IsEmpty(o) == o.data.nonce = 0 /\ o.data.bal = 0 /\ o.data.code = NoCode

NewAccessList == [idx |-> [a \in Addrs |-> Unset], slots |-> <<>>]

(* A StateDB opened on an account trie. *)
New(root) ==
  [objs |-> [a \in Addrs |-> None],       destruct |-> [a \in Addrs |-> Unset],
   mut  |-> [a \in Addrs |-> Unset],      trie |-> root,
   accounts |-> {},                       accountsOrigin |-> [a \in Addrs |-> Unset],
   storagesOrigin |-> [a \in Addrs |-> NoSlots],
   refund |-> 0, logs |-> <<>>, tx |-> 1, al |-> NewAccessList,
   transient |-> [a \in Addrs |-> NoStorage],
   journal |-> <<>>, dirties |-> [a \in Addrs |-> 0], revs |-> <<>>, nextId |-> 0]

-----------------------------------------------------------------------------
(* Reading *)

(* getStateObject: the cached object; nil for an account destructed in this
   block; otherwise the account is loaded from the trie into the cache. *)
Load(s, a) ==
  IF s.objs[a] = None /\ s.destruct[a] = Unset /\ s.trie[a] # None
    THEN [s EXCEPT !.objs[a] = NewObject(s.trie[a])] ELSE s

Exist(s, a) == Load(s, a).objs[a] # None

(* getTrie: the open trie, or the one the account's root names.  A root whose
   nodes are not in the database cannot be opened, and reads as empty. *)
StorageTrie(o) ==
  IF o.trie # None THEN o.trie
  ELSE IF o.data.root \in db.storages THEN o.data.root ELSE NoStorage

(* GetCommittedState, with the caching of what it reads. *)
Fetch(s, a, k) ==
  LET o == s.objs[a] IN
  IF o.pS[k] = Unset /\ o.oS[k] = Unset /\ s.destruct[a] = Unset
    THEN [s EXCEPT !.objs[a].trie = StorageTrie(o), !.objs[a].oS[k] = StorageTrie(o)[k]]
    ELSE s

Committed(s, a, k) ==
  LET o == Fetch(s, a, k).objs[a] IN
  IF o.pS[k] # Unset THEN o.pS[k] ELSE IF o.oS[k] # Unset THEN o.oS[k] ELSE 0

Slot(s, a, k) ==
  IF s.objs[a].dS[k] # Unset THEN s.objs[a].dS[k] ELSE Committed(s, a, k)

CodeOf(o) ==
  IF o.code # None THEN o.code ELSE IF o.data.code \in db.codes THEN o.data.code ELSE NoCode

-----------------------------------------------------------------------------
(* The journal: an entry per change, holding what undoes it *)

(* journal.append: entries about an account count it as dirty. *)
Dirtying == {"create", "destruct", "burnt", "balance", "nonce", "code", "storage", "touch", "delete"}

Record(s, e) ==
  [s EXCEPT !.journal = Append(@, e),
            !.dirties = IF e.kind \in Dirtying THEN [@ EXCEPT ![e.addr] = @ + 1] ELSE @]

Entry(kind, a, prev) == [kind |-> kind, addr |-> a, prev |-> prev]

(* setState: a slot put back to its original value is not dirty. *)
PutSlot(o, k, v, origin) == [o EXCEPT !.dS[k] = IF v = origin THEN Unset ELSE v]

(* The fields of the StateDB that DeleteAddress overwrites for one address. *)
Bookkeeping(s, a) ==
  [obj |-> s.objs[a], destruct |-> s.destruct[a], mut |-> s.mut[a],
   account |-> a \in s.accounts, accountOrigin |-> s.accountsOrigin[a],
   storageOrigin |-> s.storagesOrigin[a]]

PutBack(s, a, b) ==
  [s EXCEPT !.objs[a] = b.obj, !.destruct[a] = b.destruct, !.mut[a] = b.mut,
            !.accounts = IF b.account THEN @ \cup {a} ELSE @ \ {a},
            !.accountsOrigin[a] = b.accountOrigin, !.storagesOrigin[a] = b.storageOrigin]

(* accessList.DeleteSlot: the last slot of an address takes its slot map off
   the end of the list, as additions and rollbacks are in order. *)
DeleteSlot(al, a, k) ==
  LET i == al.idx[a]
      left == al.slots[i] \ {k}
  IN IF left = {} THEN [idx |-> [al.idx EXCEPT ![a] = 0], slots |-> SubSeq(al.slots, 1, i - 1)]
     ELSE [al EXCEPT !.slots[i] = left]

(* Every journal entry's revert. *)
UndoEntry(e, s) ==
  LET a == e.addr
      l == Load(s, a)
  IN CASE e.kind = "create"    -> [s EXCEPT !.objs[a] = None]
       [] e.kind = "contract"  -> [l EXCEPT !.objs[a].newContract = FALSE]
       [] e.kind = "destruct"  -> [l EXCEPT !.objs[a].sd = FALSE, !.objs[a].preserve = FALSE,
                                            !.objs[a].burnt = 0]
       [] e.kind = "burnt"     -> [l EXCEPT !.objs[a].burnt = e.prev]
       [] e.kind = "balance"   -> [l EXCEPT !.objs[a].data.bal = e.prev]
       [] e.kind = "nonce"     -> [l EXCEPT !.objs[a].data.nonce = e.prev]
       [] e.kind = "code"      -> [l EXCEPT !.objs[a].code = e.prev, !.objs[a].data.code = e.prev,
                                            !.objs[a].dirtyCode = TRUE]
       [] e.kind = "storage"   -> [l EXCEPT !.objs[a] = PutSlot(@, e.prev.key, e.prev.val, e.prev.origin)]
       [] e.kind = "touch"     -> s
       [] e.kind = "delete"    -> PutBack(s, a, e.prev)
       [] e.kind = "refund"    -> [s EXCEPT !.refund = e.prev]
       [] e.kind = "log"       -> [s EXCEPT !.logs = SubSeq(@, 1, Len(@) - 1)]
       [] e.kind = "warm"      -> [s EXCEPT !.al.idx[a] = Unset]
       [] e.kind = "slot"      -> [s EXCEPT !.al = DeleteSlot(@, a, e.prev)]
       [] e.kind = "transient" -> [s EXCEPT !.transient[a][e.prev.key] = e.prev.val]

(* journal.revert: the entries after the first n undone, last first, with the
   dirty counts they induced. *)
Revert(s, n) ==
  LET gone == SubSeq(s.journal, n + 1, Len(s.journal))
      Undirtied(a) == Cardinality({i \in 1..Len(gone) : gone[i].addr = a /\ gone[i].kind \in Dirtying})
  IN [FoldRight(UndoEntry, gone, s) EXCEPT
        !.journal = SubSeq(s.journal, 1, n),
        !.dirties = [a \in Addrs |-> s.dirties[a] - Undirtied(a)]]

-----------------------------------------------------------------------------
(* Writing.  Each operator is one StateDB method. *)

(* createObject, and GetOrNewStateObject. *)
CreateObject(s, a) == Record([s EXCEPT !.objs[a] = NewObject(None)], Entry("create", a, None))

GetOrNew(s, a) == IF Exist(s, a) THEN Load(s, a) ELSE CreateObject(s, a)

SetBalance(s, a, v) ==
  [Record(s, Entry("balance", a, s.objs[a].data.bal)) EXCEPT !.objs[a].data.bal = v]

(* AddBalance: a transfer of nothing touches an empty account. *)
AddBalance(s, a, v) ==
  LET l == GetOrNew(s, a) IN
  IF v = 0 THEN IF IsEmpty(l.objs[a]) THEN Record(l, Entry("touch", a, None)) ELSE l
  ELSE SetBalance(l, a, l.objs[a].data.bal + v)

SubBalance(s, a, v) ==
  LET l == GetOrNew(s, a) IN SetBalance(l, a, l.objs[a].data.bal - v)

SetNonce(s, a, n) ==
  LET l == GetOrNew(s, a) IN
  [Record(l, Entry("nonce", a, l.objs[a].data.nonce)) EXCEPT !.objs[a].data.nonce = n]

(* GetCode: the code is kept in the object once read. *)
GetCode(s, a) ==
  LET l == Load(s, a) IN
  IF l.objs[a].data.code = NoCode THEN l ELSE [l EXCEPT !.objs[a].code = CodeOf(l.objs[a])]

(* SetCode journals the code the object holds: none, where nobody has read it. *)
SetCode(s, a, c) ==
  LET l == GetOrNew(s, a)
      prev == IF l.objs[a].code = None THEN NoCode ELSE l.objs[a].code
  IN
  [Record(l, Entry("code", a, prev)) EXCEPT
     !.objs[a].code = c, !.objs[a].data.code = c, !.objs[a].dirtyCode = TRUE]

SetState(s, a, k, v) ==
  LET l == Fetch(GetOrNew(s, a), a, k)
      prev == Slot(l, a, k)
      origin == Committed(l, a, k)
  IN IF prev = v THEN l
     ELSE Record([l EXCEPT !.objs[a] = PutSlot(@, k, v, origin)],
                 Entry("storage", a, [key |-> k, val |-> prev, origin |-> origin]))

CreateContract(s, a) ==
  LET l == Load(s, a) IN
  IF Exist(s, a) /\ ~l.objs[a].newContract
    THEN Record([l EXCEPT !.objs[a].newContract = TRUE], Entry("contract", a, None))
    ELSE l

(* selfDestruct: the balance is burnt unless it is preserved, and the account
   marked once. *)
Burn(s, a) ==
  LET b == s.objs[a].data.bal IN
  [Record(SetBalance(s, a, 0), Entry("burnt", a, s.objs[a].burnt)) EXCEPT !.objs[a].burnt = @ + b]

MarkDestructed(s, a, preserve) ==
  IF s.objs[a].sd THEN s
  ELSE [Record(s, Entry("destruct", a, None)) EXCEPT !.objs[a].sd = TRUE, !.objs[a].preserve = preserve]

SelfDestruct(s, a, preserve) ==
  LET l == Load(s, a)
      burns == ~preserve /\ l.objs[a].data.bal # 0
  IN MarkDestructed(IF burns THEN Burn(l, a) ELSE l, a, preserve)

(* SelfDestruct6780: only a contract of this transaction is destructed. *)
SelfDestruct6780(s, a, preserve) ==
  IF Load(s, a).objs[a].newContract THEN SelfDestruct(s, a, preserve) ELSE Load(s, a)

(* Plausible mistake: the last origin of the block is kept. *)
RemovedLastOrigin(s, a) ==
  [s EXCEPT !.objs[a] = None, !.mut[a] = [del |-> TRUE, applied |-> FALSE],
            !.destruct[a] = s.objs[a].origin,
            !.accounts = @ \ {a}, !.accountsOrigin[a] = Unset, !.storagesOrigin[a] = NoSlots]

(* The bookkeeping a removal does at once (DeleteAddress) or at the end of the
   transaction (Finalise); the first origin of the block is kept. *)
Removed(s, a) ==
  [s EXCEPT !.objs[a] = None, !.mut[a] = [del |-> TRUE, applied |-> FALSE],
            !.destruct[a] = IF @ = Unset THEN s.objs[a].origin ELSE @,
            !.accounts = @ \ {a}, !.accountsOrigin[a] = Unset, !.storagesOrigin[a] = NoSlots]

DeleteAddress(s, a) ==
  LET l == Load(s, a) IN
  IF Exist(s, a) THEN Removed(Record(l, Entry("delete", a, Bookkeeping(l, a))), a) ELSE s

AddRefund(s) == [Record(s, Entry("refund", None, s.refund)) EXCEPT !.refund = @ + 1]
SubRefund(s) == [Record(s, Entry("refund", None, s.refund)) EXCEPT !.refund = @ - 1]

(* AddLog: the log's transaction and its index in the block. *)
AddLog(s) ==
  [Record(s, Entry("log", None, None)) EXCEPT !.logs = Append(@, [tx |-> s.tx, index |-> Len(@)])]

SetTransientState(s, a, k, v) ==
  IF s.transient[a][k] = v THEN s
  ELSE [Record(s, Entry("transient", a, [key |-> k, val |-> s.transient[a][k]]))
          EXCEPT !.transient[a][k] = v]

AddAddressToAccessList(s, a) ==
  IF s.al.idx[a] # Unset THEN s
  ELSE [Record(s, Entry("warm", a, None)) EXCEPT !.al.idx[a] = 0]

(* AddSlotToAccessList: the first slot of an address opens a slot map at the
   end of the list; a new address and a new slot are journalled apart. *)
AddSlot(al, a, k) ==
  IF al.idx[a] \in {Unset, 0}
    THEN [idx |-> [al.idx EXCEPT ![a] = Len(al.slots) + 1], slots |-> Append(al.slots, {k})]
    ELSE [al EXCEPT !.slots[al.idx[a]] = @ \cup {k}]

(* Plausible mistake: a new address is not journalled. *)
AddSlotAlone(s, a, k) ==
  IF AddSlot(s.al, a, k) = s.al THEN s
  ELSE [Record(s, Entry("slot", a, k)) EXCEPT !.al = AddSlot(s.al, a, k)]

AddSlotToAccessList(s, a, k) ==
  IF AddSlot(s.al, a, k) = s.al THEN s
  ELSE LET w == IF s.al.idx[a] = Unset THEN Record(s, Entry("warm", a, None)) ELSE s
       IN [Record(w, Entry("slot", a, k)) EXCEPT !.al = AddSlot(s.al, a, k)]

-----------------------------------------------------------------------------
(* The end of a transaction, the root and the commit *)

(* stateObject.finalise *)
Finalised(o) ==
  [o EXCEPT !.pS = [k \in Keys |-> CASE o.dS[k] = Unset -> o.pS[k]
                                     [] o.dS[k] = (IF o.oS[k] = Unset THEN 0 ELSE o.oS[k]) -> Unset
                                     [] OTHER -> o.dS[k]],
            !.dS = NoSlots, !.newContract = FALSE]

MarkUpdate(s, a) == [s EXCEPT !.mut[a] = [del |-> FALSE, applied |-> FALSE]]

(* preserveDestructedBalance: the account is reborn with its balance only. *)
Reborn(s, a) ==
  LET o == s.objs[a] IN
  MarkUpdate([Removed(s, a) EXCEPT
    !.objs[a] = [NewObject(None) EXCEPT !.origin = o.origin, !.data.bal = o.data.bal]], a)

FinaliseOne(s, a) ==
  LET o == s.objs[a] IN
  IF s.dirties[a] = 0 \/ o = None THEN s
  ELSE IF o.sd /\ o.preserve /\ o.data.bal # 0 THEN Reborn(s, a)
  ELSE IF o.sd \/ IsEmpty(o) THEN Removed(s, a)
  ELSE MarkUpdate([s EXCEPT !.objs[a] = Finalised(o)], a)

(* Finalise (empty accounts are deleted, as at every block since EIP-158), with
   clearJournalAndRefund. *)
Finalise(s) ==
  [FoldSet(LAMBDA a, r : FinaliseOne(r, a), s, Addrs) EXCEPT
     !.journal = <<>>, !.dirties = [a \in Addrs |-> 0], !.revs = <<>>, !.nextId = 0, !.refund = 0]

(* stateObject.updateTrie and updateRoot: the pending slots that differ from
   the original ones are written, each with its first original value. *)
Written(o, k) == o.pS[k] # Unset /\ o.pS[k] # (IF o.oS[k] = Unset THEN 0 ELSE o.oS[k])

UpdateRoot(s, a) ==
  LET o == Finalised(s.objs[a])
      tr == [k \in Keys |-> IF Written(o, k) THEN o.pS[k] ELSE StorageTrie(o)[k]]
      Prev(k) == IF o.oS[k] = Unset THEN 0 ELSE o.oS[k]
  IN IF o.pS = NoSlots
       THEN [s EXCEPT !.objs[a] = IF o.trie = None THEN o ELSE [o EXCEPT !.data.root = o.trie]]
       ELSE [s EXCEPT !.objs[a] = [o EXCEPT !.trie = tr, !.data.root = tr, !.pS = NoSlots,
                                            !.oS = [k \in Keys |-> IF Written(o, k) THEN o.pS[k] ELSE @[k]]],
                      !.storagesOrigin[a] = [k \in Keys |->
                         IF Written(o, k) /\ @[k] = Unset THEN Prev(k) ELSE @[k]]]

(* IntermediateRoot's step for one pending mutation: updateStateObject or
   deleteStateObject. *)
ApplyOne(s, a) ==
  LET u == UpdateRoot(s, a) IN
  IF s.mut[a] = Unset \/ (s.mut[a] # Unset /\ s.mut[a].applied) THEN s
  ELSE IF s.mut[a].del THEN [s EXCEPT !.mut[a].applied = TRUE, !.trie[a] = None]
  ELSE [u EXCEPT !.mut[a].applied = TRUE, !.trie[a] = u.objs[a].data,
                 !.accounts = @ \cup {a},
                 !.accountsOrigin[a] = IF @ = Unset THEN u.objs[a].origin ELSE @]

IntermediateRoot(s) == FoldSet(LAMBDA a, r : ApplyOne(r, a), Finalise(s), Addrs)

(* handleDestruction: the original of a destructed account, and its slots, are
   what the block removed, whatever was created in its place.  The deletion of a
   storage of more than 512 MB, which it gives up, is not modelled. *)
HandleDestruction(s) ==
  [s EXCEPT
     !.accountsOrigin = [a \in Addrs |->
        IF s.destruct[a] = Unset THEN @[a]
        ELSE IF s.destruct[a] # None THEN s.destruct[a]
        ELSE IF a \in s.accounts THEN None ELSE @[a]],
     !.storagesOrigin = [a \in Addrs |-> [k \in Keys |->
        IF s.destruct[a] \notin {Unset, None} /\ s.destruct[a].root[k] # 0
          THEN s.destruct[a].root[k] ELSE @[a][k]]]]

(* Commit's writes: the code and the storage tries of the updated accounts, and
   the account trie. *)
Updated(s) == {a \in Addrs : s.mut[a] # Unset /\ ~s.mut[a].del}

(* Plausible mistake: only a new account's code is written. *)
PersistedNewCode(s) ==
  [root     |-> s.trie,
   storages |-> db.storages \cup {s.objs[a].trie : a \in {b \in Updated(s) : s.objs[b].trie # None}},
   codes    |-> db.codes \cup {s.objs[a].code : a \in {b \in Updated(s) : s.objs[b].origin = None /\ s.objs[b].code # None}},
   block    |-> db.block + 1]

Persisted(s) ==
  [root     |-> s.trie,
   storages |-> db.storages \cup {s.objs[a].trie : a \in {b \in Updated(s) : s.objs[b].trie # None}},
   codes    |-> db.codes \cup {s.objs[a].code : a \in {b \in Updated(s) : s.objs[b].dirtyCode /\ s.objs[b].code # None}},
   block    |-> db.block + 1]

(* What a caller can observe of an account. *)
AccountView(s, a) ==
  LET l == Load(s, a)
      o == l.objs[a]
  IN IF o = None THEN None
     ELSE [bal |-> o.data.bal, nonce |-> o.data.nonce, code |-> CodeOf(o), codeHash |-> o.data.code,
           slots |-> [k \in Keys |-> Slot(l, a, k)], committed |-> [k \in Keys |-> Committed(l, a, k)],
           root |-> o.data.root, sd |-> o.sd, preserve |-> o.preserve, burnt |-> o.burnt,
           newContract |-> o.newContract]

(* What a caller can observe of the state: every read, and the block that
   IntermediateRoot and Commit would produce from here. *)
View(s) ==
  [accounts |-> [a \in Addrs |-> AccountView(s, a)],
   refund |-> s.refund, logs |-> s.logs, transient |-> s.transient,
   warm |-> [a \in Addrs |-> IF s.al.idx[a] = Unset THEN None
                             ELSE IF s.al.idx[a] = 0 THEN {} ELSE s.al.slots[s.al.idx[a]]],
   commit |-> LET h == HandleDestruction(IntermediateRoot(s)) IN
              [db |-> Persisted(h).root, accounts |-> h.accountsOrigin, slots |-> h.storagesOrigin]]

-----------------------------------------------------------------------------
(* Actions: what the caller may do between and within transactions *)

Room(s) == Len(s.journal) <= MaxEntries

Do(op, s) == op \in Ops /\ Room(s) /\ st' = s /\ UNCHANGED <<db, saved>>

(* The parent's state: no account, a plain one, or a contract with storage. *)
Init ==
  /\ \E r \in [Addrs -> {None, [EmptyAccount EXCEPT !.bal = 1]} \cup
                  {[EmptyAccount EXCEPT !.nonce = 1, !.code = c, !.root = [k \in Keys |-> 1]] : c \in Codes}] :
       LET present == {r[a] : a \in {b \in Addrs : r[b] # None}} IN
       db = [root |-> r, storages |-> {NoStorage} \cup {d.root : d \in present},
             codes |-> {d.code : d \in present} \ {NoCode}, block |-> 0]
  /\ st = New(db.root)
  /\ saved = <<>>

ChangeBalance(a) ==
  \/ \E v \in 0..1 : GetOrNew(st, a).objs[a].data.bal + v <= MaxBalance /\ Do("balance", AddBalance(st, a, v))
  \/ GetOrNew(st, a).objs[a].data.bal > 0 /\ Do("balance", SubBalance(st, a, 1))

ChangeNonce(a) == GetOrNew(st, a).objs[a].data.nonce = 0 /\ Do("nonce", SetNonce(st, a, 1))

(* evm.create and the EIP-7702 authorisations. *)
(* The callers of SetCode look at the account's code first. *)
ChangeCode(a) ==
  Exist(st, a) /\ \E c \in Codes \cup {NoCode} : Do("code", SetCode(GetCode(st, a), a, c))

ChangeState(a) == \E k \in Keys, v \in Vals : Do("storage", SetState(st, a, k, v))

(* The EVM creates an account only where none exists. *)
CreateAccount(a) == ~Exist(st, a) /\ Do("create", CreateObject(st, a))

(* evm.create refuses an address with a nonce, code or storage. *)
NewContract(a) ==
  /\ Exist(st, a)
  /\ LET d == Load(st, a).objs[a].data IN d.nonce = 0 /\ d.code = NoCode /\ d.root = NoStorage
  /\ Do("contract", CreateContract(st, a))

Destruct(a) ==
  /\ Exist(st, a)
  /\ \/ Do("destruct", SelfDestruct(st, a, FALSE))
     \/ \E p \in BOOLEAN : Do("destruct6780", SelfDestruct6780(st, a, p))

Delete(a) == Do("delete", DeleteAddress(st, a))

ChangeRefund ==
  \/ st.refund < 2 /\ Do("refund", AddRefund(st))
  \/ st.refund > 0 /\ Do("refund", SubRefund(st))

Log == Do("log", AddLog(st))

ChangeTransient(a) == \E k \in Keys, v \in Vals : Do("transient", SetTransientState(st, a, k, v))

Warm(a) ==
  \/ Do("access", AddAddressToAccessList(st, a))
  \/ \E k \in Keys : Do("access", AddSlotToAccessList(st, a, k))

Snapshot ==
  /\ st.nextId < MaxRevisions
  /\ st' = [st EXCEPT !.revs = Append(@, [id |-> st.nextId, at |-> Len(st.journal)]), !.nextId = @ + 1]
  /\ saved' = Append(saved, [id |-> st.nextId, view |-> View(st)])
  /\ UNCHANGED db

(* revertToSnapshot *)
RevertToSnapshot ==
  \E i \in 1..Len(st.revs) :
    /\ st' = [Revert(st, st.revs[i].at) EXCEPT !.revs = SubSeq(@, 1, i - 1)]
    /\ saved' = SubSeq(saved, 1, i - 1)
    /\ UNCHANGED db

(* Prepare, which warms the sender, the destination and the coinbase: none of
   the model's addresses. *)
Prepare(s) == [s EXCEPT !.al = NewAccessList, !.transient = [a \in Addrs |-> NoStorage]]

(* The end of a transaction, with or without its root. *)
NextTransaction ==
  /\ st.tx < MaxTxs
  /\ \E s \in {Finalise(st), IntermediateRoot(st)} : st' = [Prepare(s) EXCEPT !.tx = @ + 1]
  /\ saved' = <<>>
  /\ UNCHANGED db

(* Commit, and the StateDB of the next block. *)
Commit ==
  /\ db.block < MaxBlocks
  /\ db' = Persisted(IntermediateRoot(st))
  /\ st' = New(db'.root)
  /\ saved' = <<>>

Next ==
  \/ \E a \in Addrs : \/ ChangeBalance(a) \/ ChangeNonce(a) \/ ChangeCode(a) \/ ChangeState(a)
                      \/ CreateAccount(a) \/ NewContract(a) \/ Destruct(a) \/ Delete(a)
                      \/ ChangeTransient(a) \/ Warm(a)
  \/ ChangeRefund \/ Log \/ Snapshot \/ RevertToSnapshot \/ NextTransaction \/ Commit

Spec == Init /\ [][Next]_vars

-----------------------------------------------------------------------------
(* Properties *)

Accounts == [bal : 0..MaxBalance, nonce : 0..1, code : Codes \cup {NoCode}, root : [Keys -> Vals]]

(* Types: the cached objects, the pending mutations and the undo journal, whose
   dirty counts are those of its entries and whose revisions point into it in
   order. *)
TypeOK ==
  /\ \A a \in Addrs : st.objs[a] # None =>
       /\ st.objs[a].data \in Accounts /\ st.objs[a].origin \in Accounts \cup {None}
       /\ \A f \in {st.objs[a].oS, st.objs[a].pS, st.objs[a].dS} : f \in [Keys -> Vals \cup {Unset}]
       /\ st.objs[a].trie \in [Keys -> Vals] \cup {None}
  /\ st.mut \in [Addrs -> {Unset} \cup [del : BOOLEAN, applied : BOOLEAN]]
  /\ st.trie \in [Addrs -> Accounts \cup {None}]
  /\ \A a \in Addrs : st.dirties[a] =
       Cardinality({i \in 1..Len(st.journal) : st.journal[i].addr = a /\ st.journal[i].kind \in Dirtying})
  /\ \A i \in 1..Len(st.revs) : st.revs[i].at \in 0..Len(st.journal) /\ st.revs[i].id < st.nextId
  /\ \A i, j \in 1..Len(st.revs) : i < j => st.revs[i].at <= st.revs[j].at /\ st.revs[i].id < st.revs[j].id

(* RevertToSnapshot restores everything observable: the journal of undo entries
   implements a stack of complete copies, for reads, for the root and for what
   the block would commit. *)
Copies == INSTANCE SnapshotStack WITH view <- View(st), tx <- <<db.block, st.tx>>

RevertRestores == Copies!Spec

(* The root describes what is read: once every mutation of the block has been
   applied and nothing is journalled, the account trie that IntermediateRoot
   hashes holds exactly the accounts, and the storage, that the getters return,
   whatever was destructed, recreated or reverted in between. *)
RootIsWhatIsRead ==
  (st.journal = <<>> /\ \A a \in Addrs : st.mut[a] = Unset \/ st.mut[a].applied) =>
    \A a \in Addrs :
      LET v == AccountView(st, a) IN
      st.trie[a] = IF v = None THEN None
                   ELSE [bal |-> v.bal, nonce |-> v.nonce, code |-> v.code, root |-> v.slots]

(* A transaction reads what the one before it left: a destructed account is
   gone, or reborn with its preserved balance only, an empty one may be, and of
   every other account Finalise, with or without the root, changes no balance,
   nonce, code or slot. *)
WritesSurvive ==
  [][st'.tx > st.tx =>
       \A a \in Addrs :
         LET v == AccountView(st, a)
             w == AccountView(st', a)
             kept == w # None /\ w.bal = v.bal /\ w.nonce = v.nonce /\ w.code = v.code /\ w.slots = v.slots
         IN CASE v = None -> w = None
              [] v # None /\ v.sd -> 
                   IF v.preserve /\ v.bal > 0
                     THEN w # None /\ w.bal = v.bal /\ w.nonce = 0 /\ w.code = NoCode /\ w.slots = NoStorage
                     ELSE w = None
              [] OTHER -> kept \/ (w = None /\ v.bal = 0 /\ v.nonce = 0 /\ v.code = NoCode)]_vars

(* A committed block can be opened: the storage root and the code of every
   account of the account trie are in the database when it is. *)
CommittedIsComplete ==
  \A a \in Addrs : db.root[a] # None =>
    db.root[a].root \in db.storages /\ db.root[a].code \in db.codes \cup {NoCode}

Original(r, a, k) == IF r[a] = None THEN 0 ELSE r[a].root[k]

(* The state set that Commit hands to the trie database undoes the block: every
   account and slot it lists has the value of the block's start, and every
   account and slot the block changed is listed, a destructed and recreated
   account with the slots of its first incarnation included. *)
DiffUndoesBlock ==
  [][db' # db =>
       LET h == HandleDestruction(IntermediateRoot(st)) IN
       \A a \in Addrs :
         /\ h.accountsOrigin[a] \in {Unset, db.root[a]}
         /\ h.accountsOrigin[a] = Unset => db'.root[a] = db.root[a]
         /\ \A k \in Keys :
              /\ h.storagesOrigin[a][k] \in {Unset, Original(db.root, a, k)}
              /\ h.storagesOrigin[a][k] = Unset => Original(db'.root, a, k) = Original(db.root, a, k)]_vars
=============================================================================
