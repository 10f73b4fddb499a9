------------------------ MODULE ContextStorage_proofs ------------------------
(***************************************************************************)
(* Proofs about ContextStorage: for every number of threads and every tree *)
(* of contexts, no storage ever holds two entries with one key, and the    *)
(* tree of locked storages is one atomic map per context (AtomicContext).  *)
(***************************************************************************)
EXTENDS ContextStorage, WellFoundedInduction, TLAPS

(* Entering and leaving a storage, on the sequence of frames.              *)
LEMMA Entered ==
    ASSUME NEW S, NEW q \in Seq(S), NEW s \in S
    PROVE  /\ << s >> \o q \in Seq(S)
           /\ << s >> \o q # << >>
           /\ Head(<< s >> \o q) = s
           /\ Len(q) \in Nat /\ DOMAIN q = 1 .. Len(q)
           /\ DOMAIN (<< s >> \o q) = 1 .. Len(q) + 1
           /\ (<< s >> \o q)[1] = s
           /\ \A i \in 2 .. Len(q) + 1 : (<< s >> \o q)[i] = q[i - 1]
OBVIOUS

LEMMA Left ==
    ASSUME NEW S, NEW q \in Seq(S), q # << >>
    PROVE  /\ Tail(q) \in Seq(S)
           /\ Len(q) \in Nat \ {0} /\ DOMAIN q = 1 .. Len(q)
           /\ Head(q) = q[1] /\ Head(q) \in S
           /\ DOMAIN Tail(q) = 1 .. Len(q) - 1
           /\ \A i \in DOMAIN Tail(q) : Tail(q)[i] = q[i + 1]
           /\ Tail(q) = << >> <=> Len(q) = 1
<1>1. /\ Len(q) \in Nat \ {0} /\ DOMAIN q = 1 .. Len(q)
      /\ Head(q) = q[1] /\ q[1] \in S
  OBVIOUS
<1>2. Tail(q) \in Seq(S) /\ Len(Tail(q)) = Len(q) - 1
  OBVIOUS
<1>3. \A i \in DOMAIN Tail(q) : Tail(q)[i] = q[i + 1]
  OBVIOUS
<1>4. Tail(q) = << >> <=> Len(Tail(q)) = 0
  <2>1. \A r \in Seq(S) : r = << >> <=> Len(r) = 0
    OBVIOUS
  <2> QED
    BY <1>2, <2>1
<1>5. DOMAIN Tail(q) = 1 .. Len(Tail(q))
  BY <1>2
<1> QED
  BY <1>1, <1>2, <1>3, <1>4, <1>5

LEMMA Single ==
    ASSUME NEW S, NEW s \in S
    PROVE  /\ << s >> \in Seq(S) /\ << s >> # << >>
           /\ DOMAIN << s >> = {1} /\ << s >>[1] = s
OBVIOUS

(* Where a thread is, once it is in a call.                                *)
LEMMA InCall ==
    ASSUME IInv, NEW t \in Threads, pc[t] # "idle"
    PROVE  /\ frames[t] \in Seq(Storages) /\ frames[t] # << >>
           /\ Here(t) = frames[t][1] /\ Here(t) \in Storages
           /\ 1 \in DOMAIN frames[t]
           /\ op[t] \in Operations /\ key[t] \in Keys
<1>1. frames[t] \in Seq(Storages) /\ frames[t] # << >>
  BY DEF IInv, TypeOK, CallInv
<1> QED
  BY <1>1, Left DEF IInv, CallInv, Here

LEMMA InitIInv == Init => IInv
<1> SUFFICES ASSUME Init PROVE IInv
  OBVIOUS
<1>1. << >> \in Seq(Storages) /\ DOMAIN << >> = {}
  OBVIOUS
<1>2. TypeOK
  BY <1>1 DEF Init, TypeOK, Places
<1>3. CallInv /\ LockInv
  BY <1>1 DEF Init, CallInv, LockInv
<1>4. EntryInv
  BY DEF Init, EntryInv, KeysAreUnique
<1> QED
  BY <1>2, <1>3, <1>4 DEF IInv

LEMMA CallIInv == ASSUME IInv, NEW t \in Threads, Call(t) PROVE IInv'
<1>1. PICK s \in Storages, o \in Operations, k \in Keys, v \in Values :
        /\ frames' = [frames EXCEPT ![t] = << s >>]
        /\ op' = [op EXCEPT ![t] = o]
        /\ key' = [key EXCEPT ![t] = k]
        /\ value' = [value EXCEPT ![t] = IF o = "assign" THEN v ELSE None]
  BY DEF Call
<1>2. /\ pc[t] = "idle" /\ pc' = [pc EXCEPT ![t] = "lock"]
      /\ result' = [result EXCEPT ![t] = None]
      /\ entries' = entries /\ lock' = lock
  BY DEF Call, Goto
<1>3. TypeOK'
  BY <1>1, <1>2, Single DEF IInv, TypeOK, Places
<1>4. CallInv'
  BY <1>1, <1>2, Single DEF IInv, TypeOK, CallInv
<1>5. LockInv'
  BY <1>1, <1>2, Single DEF IInv, TypeOK, LockInv
<1>6. EntryInv'
  BY <1>1, <1>2 DEF IInv, TypeOK, EntryInv, KeysAreUnique, Here
<1> QED
  BY <1>3, <1>4, <1>5, <1>6 DEF IInv

LEMMA LockIInv == ASSUME IInv, NEW t \in Threads, Lock(t) PROVE IInv'
<1>1. /\ pc[t] = "lock" /\ lock[Here(t)] = None
      /\ lock' = [lock EXCEPT ![Here(t)] = t]
      /\ pc' = [pc EXCEPT ![t] = "body"]
      /\ UNCHANGED << entries, frames, op, key, value, result >>
  BY DEF Lock, Goto
<1>2. Here(t) = frames[t][1] /\ Here(t) \in Storages
  BY <1>1, InCall
<1>3. TypeOK'
  BY <1>1, <1>2 DEF IInv, TypeOK, Places
<1>4. CallInv'
  BY <1>1 DEF IInv, TypeOK, CallInv
<1>5. LockInv'
  <2>1. ASSUME NEW u \in Threads, NEW i \in DOMAIN frames[u],
               i > 1 \/ pc'[u] # "lock"
        PROVE  lock'[frames[u][i]] = u
    <3>1. frames[u][i] \in Storages /\ i \in Nat /\ i >= 1
      BY DEF IInv, TypeOK
    <3>2. CASE u = t /\ i = 1
      BY <1>1, <1>2, <3>1, <3>2 DEF IInv, TypeOK
    <3>3. CASE u # t \/ i # 1
      <4>1. lock[frames[u][i]] = u
        BY <1>1, <2>1, <3>1, <3>3 DEF IInv, TypeOK, LockInv
      <4>2. frames[u][i] # Here(t)
        BY <1>1, <4>1, ContextAssumption
      <4> QED
        BY <1>1, <3>1, <4>1, <4>2 DEF IInv, TypeOK
    <3> QED
      BY <3>2, <3>3
  <2> QED
    BY <1>1, <2>1 DEF IInv, LockInv
<1>6. EntryInv'
  BY <1>1 DEF IInv, TypeOK, EntryInv, KeysAreUnique, Here
<1> QED
  BY <1>3, <1>4, <1>5, <1>6 DEF IInv

(* A lookup answers, or goes on in the parent, nearer to the root.         *)
LEMMA GetIInv == ASSUME IInv, NEW t \in Threads, Get(t) PROVE IInv'
<1>1. /\ pc[t] = "body" /\ op[t] = "lookup"
      /\ UNCHANGED << entries, lock, op, key, value >>
  BY DEF Get
<1>2. Here(t) = frames[t][1] /\ Here(t) \in Storages /\ frames[t] \in Seq(Storages)
  BY <1>1, InCall
<1>3. CASE pc' = [pc EXCEPT ![t] = "return"] /\ frames' = frames
  <2>1. result' \in [Threads -> Values \union {None}]
    <3>1. \A e \in Found(Here(t), key[t]) : e.value \in Values
      BY <1>2 DEF IInv, TypeOK, Found, Entry
    <3> QED
      BY <1>3, <3>1 DEF IInv, TypeOK, Get, Goto
  <2>2. TypeOK'
    BY <1>1, <1>3, <2>1 DEF IInv, TypeOK, Places
  <2>3. CallInv' /\ LockInv'
    BY <1>1, <1>3 DEF IInv, TypeOK, CallInv, LockInv
  <2>4. EntryInv'
    BY <1>1, <1>3 DEF IInv, TypeOK, EntryInv, KeysAreUnique, Here
  <2> QED
    BY <2>2, <2>3, <2>4 DEF IInv
<1>4. CASE /\ HasParent(Here(t)) /\ pc' = [pc EXCEPT ![t] = "lock"]
           /\ frames' = [frames EXCEPT ![t] = << Parent[Here(t)] >> \o @]
           /\ result' = result
  <2> DEFINE p == Parent[Here(t)]
  <2>1. p \in Storages /\ Depth[p] < Depth[Here(t)]
    BY <1>2, <1>4, ContextAssumption DEF HasParent
  <2>2. /\ frames'[t] \in Seq(Storages) /\ frames'[t] # << >>
        /\ Len(frames[t]) \in Nat /\ DOMAIN frames[t] = 1 .. Len(frames[t])
        /\ DOMAIN frames'[t] = 1 .. Len(frames[t]) + 1 /\ frames'[t][1] = p
        /\ \A i \in 2 .. Len(frames[t]) + 1 : frames'[t][i] = frames[t][i - 1]
        /\ \A u \in Threads \ {t} : frames'[u] = frames[u]
        /\ frames' \in [Threads -> Seq(Storages)]
    BY <1>2, <1>4, <2>1, Entered DEF IInv, TypeOK
  <2>3. TypeOK'
    BY <1>1, <1>4, <2>2 DEF IInv, TypeOK, Places
  <2>4. CallInv'
    BY <1>1, <1>4, <2>2 DEF IInv, TypeOK, CallInv
  <2>5. LockInv'
    <3>1. \A i \in DOMAIN frames'[t] : i > 1 => lock[frames'[t][i]] = t
      BY <1>1, <2>2 DEF IInv, LockInv
    <3>2. \A j \in DOMAIN frames[t] : Depth[p] < Depth[frames[t][j]]
      <4>1. \A j \in DOMAIN frames[t] :
               /\ j = 1 \/ Depth[frames[t][1]] < Depth[frames[t][j]]
               /\ Depth[frames[t][j]] \in Nat
        <5> TAKE j \in DOMAIN frames[t]
        <5>1. 1 \in DOMAIN frames[t] /\ (j = 1 \/ 1 < j) /\ frames[t][j] \in Storages
          BY <1>2, <2>2
        <5> QED
          BY <5>1, ContextAssumption DEF IInv, LockInv
      <4>2. Depth[p] \in Nat /\ Depth[Here(t)] \in Nat
        BY <1>2, <2>1, ContextAssumption
      <4> QED
        BY <1>2, <2>1, <4>1, <4>2
    <3>3. \A i, j \in DOMAIN frames'[t] :
             i < j => Depth[frames'[t][i]] < Depth[frames'[t][j]]
      <4> SUFFICES ASSUME NEW i \in DOMAIN frames'[t], NEW j \in DOMAIN frames'[t],
                          i < j
                   PROVE  Depth[frames'[t][i]] < Depth[frames'[t][j]]
        OBVIOUS
      <4>1. j - 1 \in DOMAIN frames[t] /\ frames'[t][j] = frames[t][j - 1]
        BY <2>2
      <4>2. CASE i = 1
        BY <2>2, <3>2, <4>1, <4>2
      <4>3. CASE i # 1
        <5>1. i - 1 \in DOMAIN frames[t] /\ frames'[t][i] = frames[t][i - 1]
          BY <2>2, <4>3
        <5>2. i - 1 < j - 1
          BY <2>2
        <5> QED
          BY <4>1, <5>1, <5>2 DEF IInv, LockInv
      <4> QED
        BY <4>2, <4>3
    <3> QED
      BY <1>1, <1>4, <2>2, <3>1, <3>3 DEF IInv, TypeOK, LockInv
  <2>6. EntryInv'
    BY <1>1, <1>4, <2>2 DEF IInv, TypeOK, EntryInv, KeysAreUnique, Here
  <2> QED
    BY <2>3, <2>4, <2>5, <2>6 DEF IInv
<1> QED
  BY <1>3, <1>4 DEF Get, Goto, Enter

(* Entries only leave, and those with the key do.                          *)
LEMMA EraseIInv == ASSUME IInv, NEW t \in Threads, Erase(t) PROVE IInv'
<1>1. /\ pc[t] = "body" /\ op[t] \in {"assign", "erase"}
      /\ entries' = [entries EXCEPT ![Here(t)] = @ \ Found(Here(t), key[t])]
      /\ pc' = [pc EXCEPT ![t] = IF op[t] = "assign" THEN "insert" ELSE "return"]
      /\ UNCHANGED << lock, frames, op, key, value, result >>
  BY DEF Erase, Goto
<1>2. Here(t) \in Storages
  BY <1>1, InCall
<1>3. /\ \A s \in Storages : entries'[s] \subseteq entries[s]
      /\ \A e \in entries'[Here(t)] : e.key # key[t]
      /\ entries' \in [Storages -> SUBSET Entry]
  BY <1>1, <1>2 DEF IInv, TypeOK, Found
<1>4. TypeOK'
  BY <1>1, <1>3 DEF IInv, TypeOK, Places
<1>5. CallInv' /\ LockInv'
  BY <1>1 DEF IInv, TypeOK, CallInv, LockInv
<1>6. EntryInv'
  <2>1. KeysAreUnique'
    BY <1>3 DEF IInv, EntryInv, KeysAreUnique
  <2>2. ASSUME NEW u \in Threads, pc'[u] = "insert"
        PROVE  \A e \in entries'[Here(u)] : e.key # key[u]
    <3>1. CASE u = t
      BY <1>3, <3>1
    <3>2. CASE u # t
      <4>1. pc[u] = "insert"
        BY <1>1, <2>2, <3>2 DEF IInv, TypeOK
      <4>2. Here(u) \in Storages
        BY <4>1, InCall
      <4> QED
        BY <1>3, <4>1, <4>2 DEF IInv, EntryInv
    <3> QED
      BY <3>1, <3>2
  <2> QED
    BY <1>1, <2>1, <2>2 DEF EntryInv, Here
<1> QED
  BY <1>4, <1>5, <1>6 DEF IInv

(* The new entry is alone with its key, and because of the lock no other   *)
(* thread is about to add one here.                                        *)
LEMMA EmplaceIInv == ASSUME IInv, NEW t \in Threads, Emplace(t) PROVE IInv'
<1> DEFINE new == [key |-> key[t], value |-> value[t]]
<1>1. /\ pc[t] = "insert" /\ pc' = [pc EXCEPT ![t] = "return"]
      /\ entries' = [entries EXCEPT ![Here(t)] = @ \union {new}]
      /\ UNCHANGED << lock, frames, op, key, value, result >>
  BY DEF Emplace, Goto
<1>2. /\ Here(t) \in Storages /\ Here(t) = frames[t][1] /\ 1 \in DOMAIN frames[t]
      /\ key[t] \in Keys
  BY <1>1, InCall
<1>3. new \in Entry
  BY <1>1, <1>2 DEF IInv, CallInv, Entry
<1>4. TypeOK'
  BY <1>1, <1>2, <1>3 DEF IInv, TypeOK, Places
<1>5. CallInv' /\ LockInv'
  BY <1>1 DEF IInv, TypeOK, CallInv, LockInv
<1>6. EntryInv'
  <2>1. \A e \in entries[Here(t)] : e.key # new.key
    BY <1>1 DEF IInv, EntryInv
  <2>2. \A s \in Storages : entries'[s] = IF s = Here(t) THEN entries[s] \union {new}
                                          ELSE entries[s]
    BY <1>1, <1>2 DEF IInv, TypeOK
  <2>3. KeysAreUnique'
    <3> HIDE DEF new
    <3>1. ASSUME NEW s \in Storages, NEW e \in entries'[s], NEW f \in entries'[s],
                 e.key = f.key
          PROVE  e = f
      <4>1. \A g, h \in entries[s] : g.key = h.key => g = h
        BY DEF IInv, EntryInv, KeysAreUnique
      <4>2. CASE s = Here(t)
        <5>1. e \in entries[s] \union {new} /\ f \in entries[s] \union {new}
          BY <2>2, <3>1, <4>2
        <5>2. \A g \in entries[s] : g.key # new.key
          BY <2>1, <4>2
        <5> QED
          BY <3>1, <4>1, <5>1, <5>2
      <4>3. CASE s # Here(t)
        BY <2>2, <3>1, <4>1, <4>3
      <4> QED
        BY <4>2, <4>3
    <3> QED
      BY <3>1 DEF KeysAreUnique
  <2>4. ASSUME NEW u \in Threads, pc'[u] = "insert"
        PROVE  \A e \in entries'[Here(u)] : e.key # key[u]
    <3>1. u # t /\ pc[u] = "insert"
      BY <1>1, <2>4 DEF IInv, TypeOK
    <3>2. Here(u) \in Storages /\ Here(u) = frames[u][1] /\ 1 \in DOMAIN frames[u]
      BY <3>1, InCall
    <3>3. lock[Here(u)] = u /\ lock[Here(t)] = t
      BY <1>1, <1>2, <3>1, <3>2 DEF IInv, LockInv
    <3> QED
      BY <2>2, <3>1, <3>2, <3>3 DEF IInv, EntryInv
  <2> QED
    BY <1>1, <2>3, <2>4 DEF EntryInv, Here
<1> QED
  BY <1>4, <1>5, <1>6 DEF IInv

(* The lock of the storage that is left is not one of the others'.         *)
LEMMA ReturnIInv == ASSUME IInv, NEW t \in Threads, Return(t) PROVE IInv'
<1>1. /\ pc[t] = "return" /\ lock' = [lock EXCEPT ![Here(t)] = None]
      /\ frames' = [frames EXCEPT ![t] = Tail(@)]
      /\ pc' = [pc EXCEPT ![t] = IF Len(frames[t]) = 1 THEN "idle" ELSE "return"]
      /\ UNCHANGED << entries, op, key, value, result >>
  BY DEF Return, Goto
<1>2. /\ Here(t) \in Storages /\ Here(t) = frames[t][1]
      /\ frames[t] \in Seq(Storages) /\ frames[t] # << >>
  BY <1>1, InCall
<1>3. /\ frames'[t] \in Seq(Storages) /\ frames' \in [Threads -> Seq(Storages)]
      /\ Len(frames[t]) \in Nat \ {0} /\ DOMAIN frames[t] = 1 .. Len(frames[t])
      /\ DOMAIN frames'[t] = 1 .. Len(frames[t]) - 1
      /\ \A i \in DOMAIN frames'[t] : frames'[t][i] = frames[t][i + 1]
      /\ frames'[t] = << >> <=> Len(frames[t]) = 1
      /\ \A u \in Threads \ {t} : frames'[u] = frames[u]
  BY <1>1, <1>2, Left DEF IInv, TypeOK
<1>4. TypeOK'
  BY <1>1, <1>2, <1>3 DEF IInv, TypeOK, Places
<1>5. CallInv'
  BY <1>1, <1>3 DEF IInv, TypeOK, CallInv
<1>6. LockInv'
  <2>1. ASSUME NEW u \in Threads, NEW i \in DOMAIN frames'[u],
               i > 1 \/ pc'[u] # "lock"
        PROVE  lock'[frames'[u][i]] = u
    <3>1. CASE u = t
      <4>1. i + 1 \in DOMAIN frames[t] /\ i + 1 > 1 /\ 1 \in DOMAIN frames[t]
            /\ frames'[t][i] = frames[t][i + 1]
        BY <1>3, <3>1
      <4>2. lock[frames[t][i + 1]] = t
        BY <4>1 DEF IInv, LockInv
      <4>3. frames[t][i + 1] \in Storages
        BY <1>2, <4>1
      <4>4. Depth[frames[t][1]] < Depth[frames[t][i + 1]]
        BY <4>1 DEF IInv, LockInv
      <4>5. frames[t][i + 1] # Here(t)
        BY <1>2, <4>3, <4>4, ContextAssumption
      <4> QED
        BY <1>1, <3>1, <4>1, <4>2, <4>3, <4>5 DEF IInv, TypeOK
    <3>2. CASE u # t
      <4>1. i \in DOMAIN frames[u] /\ frames'[u][i] = frames[u][i] /\ pc'[u] = pc[u]
        BY <1>1, <1>3, <3>2 DEF IInv, TypeOK
      <4>2. lock[frames[u][i]] = u /\ frames[u][i] \in Storages
        BY <2>1, <4>1 DEF IInv, TypeOK, LockInv
      <4>3. lock[Here(t)] = t
        BY <1>1, <1>2, <1>3 DEF IInv, LockInv
      <4> QED
        BY <1>1, <3>2, <4>1, <4>2, <4>3 DEF IInv, TypeOK
    <3> QED
      BY <3>1, <3>2
  <2>2. ASSUME NEW u \in Threads, NEW i \in DOMAIN frames'[u],
               NEW j \in DOMAIN frames'[u], i < j
        PROVE  Depth[frames'[u][i]] < Depth[frames'[u][j]]
    <3>1. CASE u = t
      <4>1. /\ i + 1 \in DOMAIN frames[t] /\ j + 1 \in DOMAIN frames[t] /\ i + 1 < j + 1
            /\ frames'[t][i] = frames[t][i + 1] /\ frames'[t][j] = frames[t][j + 1]
        BY <1>3, <2>2, <3>1
      <4> QED
        BY <3>1, <4>1 DEF IInv, LockInv
    <3>2. CASE u # t
      BY <1>3, <2>2, <3>2 DEF IInv, LockInv
    <3> QED
      BY <3>1, <3>2
  <2> QED
    BY <2>1, <2>2 DEF LockInv
<1>7. EntryInv'
  BY <1>1, <1>3 DEF IInv, TypeOK, EntryInv, KeysAreUnique, Here
<1> QED
  BY <1>4, <1>5, <1>6, <1>7 DEF IInv

LEMMA RenewIInv == ASSUME IInv, NEW s \in Storages, Renew(s) PROVE IInv'
<1>1. entries' = [entries EXCEPT ![s] = {}] /\ UNCHANGED << lock, threadVars >>
  BY DEF Renew
<1>2. TypeOK'
  BY <1>1 DEF IInv, TypeOK, threadVars
<1>3. CallInv' /\ LockInv'
  BY <1>1 DEF IInv, CallInv, LockInv, threadVars
<1>4. \A r \in Storages : entries'[r] \subseteq entries[r]
  BY <1>1 DEF IInv, TypeOK
<1>5. EntryInv'
  <2>1. KeysAreUnique'
    BY <1>4 DEF IInv, EntryInv, KeysAreUnique
  <2>2. ASSUME NEW u \in Threads, pc[u] = "insert"
        PROVE  \A e \in entries'[Here(u)] : e.key # key[u]
    BY <1>4, <2>2, InCall DEF IInv, EntryInv
  <2> QED
    BY <1>1, <2>1, <2>2 DEF EntryInv, Here, threadVars
<1> QED
  BY <1>2, <1>3, <1>5 DEF IInv

LEMMA StepIInv == IInv /\ [Next]_vars => IInv'
<1>1. IInv /\ Next => IInv'
  BY CallIInv, LockIInv, GetIInv, EraseIInv, EmplaceIInv, ReturnIInv, RenewIInv
     DEF Next, Step
<1>2. IInv /\ UNCHANGED vars => IInv'
  BY DEF IInv, TypeOK, CallInv, LockInv, EntryInv, KeysAreUnique, Here, vars, threadVars
<1> QED
  BY <1>1, <1>2

(* The inductive invariant.                                                *)
THEOREM StorageInvariance == Spec => []IInv
BY InitIInv, StepIInv, PTL DEF Spec

(* The variables of the storages and of the threads keep their types.      *)
THEOREM StorageTypeCorrect == Spec => []TypeOK
<1>1. IInv => TypeOK
  BY DEF IInv
<1> QED
  BY <1>1, StorageInvariance, PTL

(* However many threads assign, erase and look up, every key of a storage  *)
(* has one entry.                                                          *)
THEOREM UniqueKeys == Spec => []KeysAreUnique
<1>1. IInv => KeysAreUnique
  BY DEF IInv, EntryInv
<1> QED
  BY <1>1, StorageInvariance, PTL
-----------------------------------------------------------------------------
(* The storages as atomic maps                                             *)

LEMMA LookupInit == Init => LookupInv
BY DEF Init, LookupInv

LEMMA LookupStep == ASSUME IInv, LookupInv, [Next]_vars PROVE LookupInv'
<1> DEFINE Way(t) == /\ result[t] = None
                     /\ \A i \in DOMAIN frames[t] : i > 1 =>
                           /\ op[t] = "lookup"
                           /\ frames[t][i - 1] = Parent[frames[t][i]]
                           /\ Found(frames[t][i], key[t]) = {}
<1>1. SUFFICES ASSUME NEW t \in Threads, pc'[t] \in {"lock", "body"} PROVE Way(t)'
      BY DEF LookupInv
<1>2. ASSUME NEW u \in Threads, Call(u) PROVE Way(t)'
  <2>1. /\ pc[u] = "idle" /\ pc' = [pc EXCEPT ![u] = "lock"] /\ entries' = entries
        /\ result' = [result EXCEPT ![u] = None]
        /\ \A x \in Threads \ {u} : /\ frames'[x] = frames[x] /\ op'[x] = op[x]
                                    /\ key'[x] = key[x]
        BY <1>2 DEF Call, Goto, IInv, TypeOK
  <2>2. CASE t = u
    <3>1. PICK s \in Storages : frames'[t] = << s >>
          BY <1>2, <2>2 DEF Call, IInv, TypeOK
    <3>2. DOMAIN frames'[t] = {1}
          BY <3>1
    <3> QED BY <2>1, <2>2, <3>2 DEF IInv, TypeOK
  <2>3. CASE t # u
        BY <1>1, <2>1, <2>3 DEF LookupInv, Found, IInv, TypeOK
  <2> QED BY <2>2, <2>3
<1>3. ASSUME NEW u \in Threads, Lock(u) PROVE Way(t)'
      BY <1>1, <1>3 DEF Lock, Goto, LookupInv, Found, IInv, TypeOK
<1>4. ASSUME NEW u \in Threads, Get(u) PROVE Way(t)'
  <2>1. /\ pc[u] = "body" /\ op[u] = "lookup" /\ UNCHANGED << entries, op, key >>
        /\ \/ /\ pc' = [pc EXCEPT ![u] = "return"]
              /\ frames' = frames
           \/ /\ pc' = [pc EXCEPT ![u] = "lock"] /\ result' = result
              /\ frames' = [frames EXCEPT ![u] = << Parent[Here(u)] >> \o @]
              /\ Found(Here(u), key[u]) = {} /\ Parent[Here(u)] # None
        BY <1>4 DEF Get, Goto, Enter, HasParent
  <2>2. \A x \in Threads \ {u} : /\ result'[x] = result[x] /\ frames'[x] = frames[x]
                                 /\ pc'[x] = pc[x]
        BY <1>4 DEF Get, Goto, Enter, IInv, TypeOK
  <2>3. CASE t # u
        BY <1>1, <2>1, <2>2, <2>3 DEF LookupInv, Found
  <2>4. CASE t = u
    <3>1. /\ result'[t] = None /\ op'[t] = "lookup"
          /\ frames'[t] = << Parent[Here(t)] >> \o frames[t]
          /\ Found(Here(t), key[t]) = {}
          /\ Parent[Here(t)] \in Storages
      <4>1. pc'[t] # "return"
            BY <1>1
      <4>2. /\ result' = result /\ frames' = [frames EXCEPT ![u] = << Parent[Here(u)] >> \o @]
            /\ Found(Here(u), key[u]) = {} /\ Parent[Here(u)] # None
            BY <2>1, <2>4, <4>1 DEF IInv, TypeOK
      <4>3. Here(t) \in Storages
            BY <2>1, <2>4, InCall
      <4> QED BY <2>1, <2>4, <4>2, <4>3, ContextAssumption DEF LookupInv, IInv, TypeOK
    <3>2. /\ Here(t) = frames[t][1] /\ frames[t] \in Seq(Storages)
          /\ \A i \in DOMAIN frames[t] : i > 1 =>
                 frames[t][i - 1] = Parent[frames[t][i]] /\ Found(frames[t][i], key[t]) = {}
          BY <2>1, <2>4, InCall DEF LookupInv
    <3>3. /\ DOMAIN frames'[t] = 1 .. Len(frames[t]) + 1 /\ Len(frames[t]) \in Nat
          /\ DOMAIN frames[t] = 1 .. Len(frames[t])
          /\ frames'[t][1] = Parent[Here(t)]
          /\ \A i \in 2 .. Len(frames[t]) + 1 : frames'[t][i] = frames[t][i - 1]
          BY <3>1, <3>2, Entered
    <3>4. ASSUME NEW i \in DOMAIN frames'[t], i > 1
          PROVE  /\ frames'[t][i - 1] = Parent[frames'[t][i]]
                 /\ Found(frames'[t][i], key[t]) = {}
      <4>1. frames'[t][i] = frames[t][i - 1] /\ i - 1 \in DOMAIN frames[t]
            BY <3>3, <3>4
      <4>2. CASE i = 2
            BY <3>1, <3>2, <3>3, <4>1, <4>2
      <4>3. CASE i > 2
        <5>1. frames'[t][i - 1] = frames[t][i - 2] /\ i - 2 = (i - 1) - 1 /\ i - 1 > 1
              BY <3>3, <3>4, <4>3
        <5>2. frames[t][(i - 1) - 1] = Parent[frames[t][i - 1]] /\ Found(frames[t][i - 1], key[t]) = {}
              BY <3>2, <4>1, <5>1
        <5> QED BY <4>1, <5>1, <5>2
      <4> QED BY <3>3, <3>4, <4>2, <4>3
    <3>5. \A s : Found(s, key[t])' = Found(s, key[t])
          BY <2>1 DEF Found
    <3>6. \A i \in DOMAIN frames'[t] : Found(frames[t][i], key[t])' = Found(frames'[t][i], key[t])
          BY <2>1 DEF Found
    <3> QED BY <3>1, <3>4, <3>6
  <2> QED BY <2>3, <2>4
<1>5. ASSUME NEW u \in Threads, Erase(u) \/ Emplace(u) PROVE Way(t)'
  <2>1. /\ t # u /\ pc'[t] = pc[t] /\ UNCHANGED << frames, op, key, result >>
        /\ pc[u] \in {"body", "insert"}
        BY <1>1, <1>5 DEF Erase, Emplace, Goto, IInv, TypeOK
  <2>2. Here(u) \in Storages /\ lock[Here(u)] = u
        BY <2>1, InCall DEF IInv, LockInv
  <2>3. \A s \in Storages \ {Here(u)} : entries'[s] = entries[s]
        BY <1>5, <2>2 DEF Erase, Emplace, IInv, TypeOK
  <2>4. \A i \in DOMAIN frames[t] : i > 1 => frames[t][i] \in Storages \ {Here(u)}
        BY <2>1, <2>2 DEF IInv, LockInv, TypeOK
  <2>5. \A i \in DOMAIN frames[t] : i > 1 => Found(frames[t][i], key[t])' = Found(frames[t][i], key[t])
        BY <2>1, <2>3, <2>4 DEF Found
  <2> QED BY <1>1, <2>1, <2>5 DEF LookupInv
<1>6. ASSUME NEW u \in Threads, Return(u) PROVE Way(t)'
  <2>1. t # u /\ pc'[t] = pc[t] /\ frames'[t] = frames[t] /\ UNCHANGED << entries, op, key, result >>
        BY <1>1, <1>6 DEF Return, Goto, IInv, TypeOK
  <2> QED BY <1>1, <2>1 DEF LookupInv, Found
<1>7. ASSUME NEW s \in Storages, Renew(s) PROVE Way(t)'
  <2>1. /\ UNCHANGED threadVars /\ \A r \in Storages : entries'[r] \subseteq entries[r]
        BY <1>7 DEF Renew, IInv, TypeOK
  <2>2. \A i \in DOMAIN frames[t] : Found(frames[t][i], key[t])' \subseteq Found(frames[t][i], key[t])
        BY <2>1 DEF Found, threadVars, IInv, TypeOK
  <2> QED BY <1>1, <2>1, <2>2 DEF LookupInv, threadVars
<1>8. CASE UNCHANGED vars
      BY <1>1, <1>8 DEF LookupInv, vars, threadVars, Found
<1> HIDE DEF Way
<1> QED BY <1>2, <1>3, <1>4, <1>5, <1>6, <1>7, <1>8 DEF Next, Step

(* The nearest value is well defined, as every way leads to a root.        *)
NearStep(hits, f, s) == IF hits[s] # {} THEN hits[s]
                        ELSE IF Parent[s] # None THEN f[Parent[s]] ELSE {None}

Shallow(n) == {s \in Storages : Depth[s] < n}

NearTo(hits, n) == {f \in [Shallow(n) -> SUBSET (Values \union {None})] :
                       \A s \in Shallow(n) : f[s] = NearStep(hits, f, s)}

LEMMA LeastNumber ==
    ASSUME NEW T, T \subseteq Nat, T # {}
    PROVE  \E x \in T : \A y \in T : x <= y
<1>1. PICK x \in T : \A y \in T : ~(<<y, x>> \in OpToRel(<, Nat))
      BY NatLessThanWellFounded, WFMin
<1>2. ASSUME NEW y \in T PROVE x <= y
  <2>1. ~(y < x)
        BY <1>1 DEF OpToRel
  <2> QED BY <2>1
<1> QED BY <1>2

LEMMA ParentIsShallow ==
    ASSUME NEW n \in Nat, NEW s \in Shallow(n + 1), Parent[s] # None
    PROVE  Parent[s] \in Shallow(n)
<1>1. s \in Storages /\ Depth[s] \in Nat /\ Depth[s] < n + 1
      BY ContextAssumption DEF Shallow
<1>2. Parent[s] \in Storages /\ Depth[Parent[s]] < Depth[s] /\ Depth[Parent[s]] \in Nat
      BY <1>1, ContextAssumption
<1> QED BY <1>1, <1>2 DEF Shallow

(* Two such functions agree where both are defined.                        *)
LEMMA NearAgree ==
    ASSUME NEW hits, NEW m \in Nat, NEW n \in Nat, NEW f \in NearTo(hits, m), NEW g \in NearTo(hits, n),
           NEW s \in Shallow(m) \intersect Shallow(n)
    PROVE  f[s] = g[s]
<1> DEFINE T == {d \in Nat : \E r \in Shallow(m) \intersect Shallow(n) :
                                Depth[r] = d /\ f[r] # g[r]}
<1> SUFFICES ASSUME T # {} PROVE FALSE
  <2>1. Depth[s] \in Nat
        BY ContextAssumption DEF Shallow
  <2> QED BY <2>1
<1>1. PICK d \in T : \A y \in T : d <= y
      BY LeastNumber
<1>2. PICK r \in Shallow(m) \intersect Shallow(n) : Depth[r] = d /\ f[r] # g[r]
      OBVIOUS
<1>3. f[r] = NearStep(hits, f, r) /\ g[r] = NearStep(hits, g, r)
      BY DEF NearTo
<1>4. ASSUME Parent[r] # None PROVE f[Parent[r]] = g[Parent[r]]
  <2>1. /\ r \in Storages /\ Parent[r] \in Storages /\ Depth[Parent[r]] \in Nat
        /\ Depth[Parent[r]] < Depth[r] /\ Depth[r] \in Nat
        /\ Depth[r] < m /\ Depth[r] < n
        BY <1>4, ContextAssumption DEF Shallow
  <2>2. Parent[r] \in Shallow(m) \intersect Shallow(n)
        BY <2>1 DEF Shallow
  <2>3. Depth[Parent[r]] \notin T
        BY <1>1, <1>2, <2>1
  <2> QED BY <2>1, <2>2, <2>3
<1> QED BY <1>2, <1>3, <1>4 DEF NearStep

LEMMA NearToExists ==
    ASSUME NEW hits \in [Storages -> SUBSET Values], NEW n \in Nat
    PROVE  NearTo(hits, n) # {}
<1> DEFINE T == {k \in Nat : NearTo(hits, k) = {}}
<1> SUFFICES ASSUME T # {} PROVE FALSE OBVIOUS
<1>1. PICK k \in T : \A y \in T : k <= y
      BY LeastNumber
<1>2. k # 0
  <2>1. Shallow(0) = {}
        BY ContextAssumption DEF Shallow
  <2>2. [s \in {} |-> {}] \in NearTo(hits, 0)
        BY <2>1 DEF NearTo
  <2> QED BY <2>2
<1>3. k - 1 \in Nat /\ k - 1 \notin T /\ k = (k - 1) + 1
      BY <1>1, <1>2
<1>4. PICK f : f \in NearTo(hits, k - 1)
      BY <1>3
<1> DEFINE g == [s \in Shallow(k) |-> NearStep(hits, f, s)]
<1>5. ASSUME NEW s \in Shallow(k) PROVE g[s] \in SUBSET (Values \union {None})
  <2>1. s \in Storages
        BY DEF Shallow
  <2>2. Parent[s] # None => Parent[s] \in Shallow(k - 1)
        BY <1>3, ParentIsShallow
  <2> QED BY <1>4, <2>1, <2>2 DEF NearStep, NearTo
<1>6. ASSUME NEW s \in Shallow(k - 1) PROVE f[s] = g[s]
  <2>1. s \in Shallow(k)
        BY <1>3, ContextAssumption DEF Shallow
  <2> QED BY <1>4, <2>1 DEF NearTo
<1>7. ASSUME NEW s \in Shallow(k) PROVE g[s] = NearStep(hits, g, s)
  <2>1. Parent[s] # None => f[Parent[s]] = g[Parent[s]]
        BY <1>3, <1>6, ParentIsShallow
  <2> QED BY <2>1 DEF NearStep
<1>8. g \in [Shallow(k) -> SUBSET (Values \union {None})]
      BY <1>5
<1>9. g \in NearTo(hits, k)
  <2> HIDE DEF g
  <2> QED BY <1>7, <1>8 DEF NearTo
<1> QED BY <1>1, <1>9

LEMMA NearExists ==
    ASSUME NEW hits \in [Storages -> SUBSET Values]
    PROVE  \E d : d = [s \in Storages |-> NearStep(hits, d, s)]
<1> DEFINE G(n) == CHOOSE f : f \in NearTo(hits, n)
           d == [s \in Storages |-> G(Depth[s] + 1)[s]]
<1>1. \A n \in Nat : G(n) \in NearTo(hits, n)
      BY NearToExists
<1> HIDE DEF G
<1>2. ASSUME NEW s \in Storages PROVE d[s] = NearStep(hits, d, s)
  <2>1. Depth[s] \in Nat /\ Depth[s] + 1 \in Nat /\ s \in Shallow(Depth[s] + 1)
        BY ContextAssumption DEF Shallow
  <2>2. d[s] = NearStep(hits, G(Depth[s] + 1), s)
        BY <1>1, <2>1 DEF NearTo
  <2>3. ASSUME Parent[s] # None PROVE d[Parent[s]] = G(Depth[s] + 1)[Parent[s]]
    <3> DEFINE p == Parent[s]
    <3>1. p \in Storages /\ Depth[p] \in Nat /\ Depth[p] + 1 \in Nat /\ Depth[p] < Depth[s]
          BY <2>3, ContextAssumption
    <3>2. p \in Shallow(Depth[p] + 1) \intersect Shallow(Depth[s] + 1)
          BY <2>1, <3>1 DEF Shallow
    <3>3. d[p] = G(Depth[p] + 1)[p]
          BY <3>1
    <3>4. G(Depth[p] + 1) \in NearTo(hits, Depth[p] + 1) /\ G(Depth[s] + 1) \in NearTo(hits, Depth[s] + 1)
          BY <1>1, <2>1, <3>1
    <3> HIDE DEF d, p
    <3>5. G(Depth[p] + 1)[p] = G(Depth[s] + 1)[p]
          BY <2>1, <3>1, <3>2, <3>4, NearAgree
    <3> QED BY <3>3, <3>5 DEF p
  <2> QED BY <2>2, <2>3 DEF NearStep
<1> HIDE DEF d
<1>3. d = [s \in Storages |-> NearStep(hits, d, s)]
  <2>1. d = [s \in Storages |-> d[s]]
        BY DEF d
  <2> QED BY <1>2, <2>1
<1> QED BY <1>3

LEMMA ShownIs ==
    /\ \A s \in Storages : Shown[s] = entries[s] \union Pending(s)
    /\ \A s \in Storages : Shown'[s] = entries'[s] \union Pending(s)'
    /\ Shown = [s \in Storages |-> Shown[s]] /\ Shown' = [s \in Storages |-> Shown'[s]]
BY DEF Shown

LEMMA ShownType == ASSUME IInv PROVE Shown \in [Storages -> SUBSET Entry]
<1>1. \A t \in Threads : pc[t] = "insert" => [key |-> key[t], value |-> value[t]] \in Entry
      BY DEF IInv, CallInv, Entry
<1>2. \A s \in Storages : Pending(s) \subseteq Entry
      BY <1>1 DEF Pending
<1> QED BY <1>2 DEF Shown, IInv, TypeOK

LEMMA NearestIs ==
    ASSUME IInv, NEW k
    PROVE  \A s \in Storages : Atomic!Nearest(k)[s] =
              IF Atomic!ValuesAt(s, k) # {} THEN Atomic!ValuesAt(s, k)
              ELSE IF Parent[s] # None THEN Atomic!Nearest(k)[Parent[s]] ELSE {None}
<1> DEFINE hits == [s \in Storages |-> Atomic!ValuesAt(s, k)]
<1>1. hits \in [Storages -> SUBSET Values]
      BY ShownType DEF Atomic!ValuesAt, Entry
<1>2. \A s \in Storages : hits[s] = Atomic!ValuesAt(s, k)
      OBVIOUS
<1> HIDE DEF hits
<1>3. PICK d : d = [s \in Storages |-> NearStep(hits, d, s)]
      BY <1>1, NearExists
<1>4. d = [s \in Storages |-> IF Atomic!ValuesAt(s, k) # {} THEN Atomic!ValuesAt(s, k)
                              ELSE IF Parent[s] # None THEN d[Parent[s]] ELSE {None}]
  <2>1. \A s \in Storages : NearStep(hits, d, s) =
           IF Atomic!ValuesAt(s, k) # {} THEN Atomic!ValuesAt(s, k)
           ELSE IF Parent[s] # None THEN d[Parent[s]] ELSE {None}
        BY <1>2 DEF NearStep
  <2> QED BY <1>3, <2>1
<1>5. Atomic!Nearest(k) =
         [s \in Storages |-> IF Atomic!ValuesAt(s, k) # {} THEN Atomic!ValuesAt(s, k)
                             ELSE IF Parent[s] # None THEN Atomic!Nearest(k)[Parent[s]]
                             ELSE {None}]
      BY <1>4 DEF Atomic!Nearest
<1> DEFINE near == Atomic!Nearest(k)
<1>6. near = [s \in Storages |-> IF Atomic!ValuesAt(s, k) # {} THEN Atomic!ValuesAt(s, k)
                                 ELSE IF Parent[s] # None THEN near[Parent[s]] ELSE {None}]
      BY <1>5
<1> HIDE DEF near
<1>7. \A s \in Storages : near[s] = IF Atomic!ValuesAt(s, k) # {} THEN Atomic!ValuesAt(s, k)
                                    ELSE IF Parent[s] # None THEN near[Parent[s]] ELSE {None}
      BY <1>6
<1> QED BY <1>7 DEF near

(* What a lookup's way tells: the storages behind it hold nothing, so the  *)
(* nearest value from where it started is the nearest from where it is.    *)
LEMMA NearestOnTheWay ==
    ASSUME IInv, LookupInv, NEW t \in Threads, pc[t] = "body", op[t] = "lookup"
    PROVE  Atomic!Nearest(key[t])[Last(frames[t])] = Atomic!Nearest(key[t])[Here(t)]
<1> DEFINE q == frames[t]
           N(s) == Atomic!Nearest(key[t])[s]
           T == {i \in DOMAIN q : N(q[i]) # N(q[1])}
<1>1. /\ q \in Seq(Storages) /\ Len(q) \in Nat \ {0} /\ DOMAIN q = 1 .. Len(q)
      /\ Here(t) = q[1]
      BY InCall, Left DEF Here
<1>2. \A i \in DOMAIN q : i > 1 => /\ q[i] \in Storages /\ q[i - 1] \in Storages
                                   /\ q[i - 1] = Parent[q[i]]
                                   /\ Found(q[i], key[t]) = {} /\ lock[q[i]] = t
  <2>1. \A i \in DOMAIN q : i > 1 => q[i - 1] = Parent[q[i]] /\ Found(q[i], key[t]) = {}
        BY DEF LookupInv
  <2>2. \A i \in DOMAIN q : i > 1 => lock[q[i]] = t
        BY DEF IInv, LockInv
  <2>3. \A i \in DOMAIN q : i > 1 => q[i] \in Storages /\ q[i - 1] \in Storages
        BY <1>1
  <2> QED BY <2>1, <2>2, <2>3
<1>3. \A i \in DOMAIN q : i > 1 => Atomic!ValuesAt(q[i], key[t]) = {}
  <2>1. ASSUME NEW i \in DOMAIN q, i > 1, NEW u \in Threads, pc[u] = "insert", Here(u) = q[i]
        PROVE  FALSE
    <3>1. lock[Here(u)] = u
          BY <2>1, InCall DEF IInv, LockInv
    <3> QED BY <1>2, <2>1, <3>1
  <2>2. \A i \in DOMAIN q : i > 1 => Pending(q[i]) = {}
        BY <2>1 DEF Pending
  <2>3. \A i \in DOMAIN q : i > 1 => Shown[q[i]] = entries[q[i]]
    <3>1. \A s \in Storages : Pending(s) = {} => Shown[s] = entries[s]
          BY ShownIs
    <3> QED BY <1>2, <2>2, <3>1
  <2> QED BY <1>2, <2>3 DEF Atomic!ValuesAt, Found
<1>4. \A i \in DOMAIN q : i > 1 => N(q[i]) = N(q[i - 1])
  <2> TAKE i \in DOMAIN q
  <2> HAVE i > 1
  <2>1. q[i] \in Storages /\ Parent[q[i]] = q[i - 1] /\ Parent[q[i]] # None
        BY <1>2, ContextAssumption
  <2>2. Atomic!ValuesAt(q[i], key[t]) = {}
        BY <1>3
  <2> QED BY <2>1, <2>2, NearestIs
<1> HIDE DEF q, N
<1>5. T = {}
  <2> SUFFICES ASSUME T # {} PROVE FALSE OBVIOUS
  <2>1. T \subseteq Nat
        BY <1>1
  <2>2. PICK i \in T : \A y \in T : i <= y
        BY <2>1, LeastNumber
  <2>3. i \in DOMAIN q /\ i > 1
        BY <1>1, <2>2
  <2>4. i - 1 \in DOMAIN q /\ i - 1 \notin T
        BY <1>1, <2>2, <2>3
  <2> QED BY <1>4, <2>2, <2>3, <2>4
<1>6. Last(q) = q[Len(q)] /\ Len(q) \in DOMAIN q
      BY <1>1 DEF Last
<1>7. N(Last(q)) = N(Here(t))
      BY <1>1, <1>5, <1>6
<1> QED BY <1>7 DEF q, N

(* The abstract state, thread by thread.                                   *)
LEMMA ShownStays ==
    ASSUME UNCHANGED entries,
           \A u \in Threads :
              /\ pc'[u] = "insert" <=> pc[u] = "insert"
              /\ pc[u] = "insert" => UNCHANGED << frames[u], key[u], value[u] >>
    PROVE  UNCHANGED Shown
<1>1. \A u \in Threads : pc[u] = "insert" =>
         Here(u)' = Here(u) /\ key'[u] = key[u] /\ value'[u] = value[u]
      BY DEF Here
<1>2. \A s : {u \in Threads : pc[u] = "insert" /\ Here(u) = s}'
             = {u \in Threads : pc[u] = "insert" /\ Here(u) = s}
      BY <1>1
<1>3. \A s : Pending(s)' = Pending(s)
      BY <1>1, <1>2 DEF Pending
<1> QED BY <1>3 DEF Shown

LEMMA RequestIs ==
    /\ \A t \in Threads : Request[t] = IF pc[t] = "idle" THEN None
          ELSE [op |-> op[t], at |-> Last(frames[t]), key |-> key[t], value |-> value[t]]
    /\ \A t \in Threads : Progress[t] =
          IF pc[t] = "idle" THEN "idle"
          ELSE IF pc[t] \in {"lock", "body"} THEN "pending" ELSE "done"
    /\ Request = [t \in Threads |-> Request[t]] /\ Progress = [t \in Threads |-> Progress[t]]
BY DEF Request, Progress

(* Where one thread acts the others' calls stay as they are.               *)
LEMMA OthersStay ==
    ASSUME NEW t \in Threads,
           \A u \in Threads \ {t} : UNCHANGED << pc[u], frames[u], op[u], key[u], value[u] >>
    PROVE  /\ Request' = [Request EXCEPT ![t] = Request'[t]]
           /\ Progress' = [Progress EXCEPT ![t] = Progress'[t]]
           /\ Request'[t] = Request[t] => Request' = Request
           /\ Progress'[t] = Progress[t] => Progress' = Progress
<1>1. \A u \in Threads \ {t} : Last(frames[u])' = Last(frames[u])
      BY DEF Last
<1>2. \A u \in Threads \ {t} : Request'[u] = Request[u] /\ Progress'[u] = Progress[u]
      BY <1>1 DEF Request, Progress
<1>3. /\ DOMAIN Request = Threads /\ DOMAIN Request' = Threads
      /\ DOMAIN Progress = Threads /\ DOMAIN Progress' = Threads
      BY DEF Request, Progress
<1>4. /\ Request = [u \in Threads |-> Request[u]] /\ Request' = [u \in Threads |-> Request'[u]]
      /\ Progress = [u \in Threads |-> Progress[u]] /\ Progress' = [u \in Threads |-> Progress'[u]]
      BY DEF Request, Progress
<1> QED BY <1>2, <1>4

LEMMA AtomicInit == Init => Atomic!Init
<1> SUFFICES ASSUME Init PROVE Atomic!Init OBVIOUS
<1>1. \A s \in Storages : Pending(s) = {}
      BY DEF Init, Pending
<1>2. Shown = [s \in Storages |-> {}]
      BY <1>1 DEF Init, Shown
<1>3. Request = [t \in Threads |-> None] /\ Progress = [t \in Threads |-> "idle"]
      BY DEF Init, Request, Progress
<1> QED BY <1>2, <1>3 DEF Init, Atomic!Init

LEMMA CallBegins == ASSUME IInv, IInv', NEW t \in Threads, Call(t) PROVE Atomic!Begin(t)
<1>1. PICK s \in Storages, o \in Operations, k \in Keys, v \in Values :
        /\ frames' = [frames EXCEPT ![t] = << s >>]
        /\ op' = [op EXCEPT ![t] = o]
        /\ key' = [key EXCEPT ![t] = k]
        /\ value' = [value EXCEPT ![t] = IF o = "assign" THEN v ELSE None]
      BY DEF Call
<1>2. /\ pc[t] = "idle" /\ pc' = [pc EXCEPT ![t] = "lock"]
      /\ result' = [result EXCEPT ![t] = None]
      /\ entries' = entries
      BY DEF Call, Goto
<1>3. \A u \in Threads \ {t} : UNCHANGED << pc[u], frames[u], op[u], key[u], value[u] >>
      BY <1>1, <1>2 DEF IInv, TypeOK
<1>4. pc'[t] = "lock" /\ frames'[t] = << s >> /\ op'[t] = o /\ key'[t] = k
      /\ value'[t] \in Values \union {None}
      BY <1>1, <1>2 DEF IInv, TypeOK
<1>5. UNCHANGED Shown
      BY <1>2, <1>3, <1>4, ShownStays
<1>6. Request'[t] \in Atomic!Requests
  <2>1. Last(frames[t])' = s
        BY <1>4 DEF Last
  <2>2. Request'[t] = [op |-> o, at |-> s, key |-> k, value |-> value'[t]]
        BY <1>4, <2>1 DEF Request
  <2> QED BY <1>4, <2>2 DEF Atomic!Requests, Atomic!Operations, Operations
<1>7. Progress[t] = "idle" /\ Progress'[t] = "pending"
      BY <1>2, <1>4 DEF Progress
<1>8. /\ Request' = [Request EXCEPT ![t] = Request'[t]]
      /\ Progress' = [Progress EXCEPT ![t] = Progress'[t]]
      BY <1>3, OthersStay
<1> QED BY <1>2, <1>5, <1>6, <1>7, <1>8 DEF Atomic!Begin

(* Locking, inserting what counts already, and going on in the parent are  *)
(* not seen from outside.                                                  *)
LEMMA LockStutters == ASSUME IInv, IInv', NEW t \in Threads, Lock(t) PROVE UNCHANGED Atomic!vars
<1>1. /\ pc[t] = "lock" /\ pc' = [pc EXCEPT ![t] = "body"]
      /\ UNCHANGED << entries, frames, op, key, value, result >>
      BY DEF Lock, Goto
<1>2. \A u \in Threads \ {t} : UNCHANGED << pc[u], frames[u], op[u], key[u], value[u] >>
      BY <1>1 DEF IInv, TypeOK
<1>3. pc'[t] = "body"
      BY <1>1 DEF IInv, TypeOK
<1>4. UNCHANGED Shown
      BY <1>1, <1>2, <1>3, ShownStays
<1>5. Last(frames[t])' = Last(frames[t])
      BY <1>1
<1>6. Request'[t] = Request[t] /\ Progress'[t] = Progress[t]
      BY <1>1, <1>3, <1>5 DEF Request, Progress
<1>7. Request' = Request /\ Progress' = Progress
      BY <1>2, <1>6, OthersStay
<1> QED BY <1>1, <1>4, <1>7 DEF Atomic!vars

LEMMA LookupAnswers ==
    ASSUME IInv, IInv', LookupInv, NEW t \in Threads, Get(t)
    PROVE  Atomic!Effect(t) \/ UNCHANGED Atomic!vars
<1>1. /\ pc[t] = "body" /\ op[t] = "lookup" /\ UNCHANGED << entries, op, key, value >>
      BY DEF Get
<1>2. /\ Here(t) \in Storages /\ Here(t) = frames[t][1] /\ frames[t] \in Seq(Storages)
      /\ key[t] \in Keys /\ frames[t] # << >> /\ 1 \in DOMAIN frames[t] /\ result[t] = None
      BY <1>1, InCall DEF LookupInv
<1>3. \A u \in Threads \ {t} : UNCHANGED << pc[u], frames[u], op[u], key[u], value[u] >>
      BY <1>1 DEF Get, Goto, Enter, IInv, TypeOK
<1>4. pc'[t] # "insert"
      BY <1>1 DEF Get, Goto, IInv, TypeOK
<1>5. UNCHANGED Shown
      BY <1>1, <1>3, <1>4, ShownStays
<1>6. /\ Request' = [Request EXCEPT ![t] = Request'[t]]
      /\ Progress' = [Progress EXCEPT ![t] = Progress'[t]]
      /\ Request'[t] = Request[t] => Request' = Request
      /\ Progress'[t] = Progress[t] => Progress' = Progress
      BY <1>3, OthersStay
<1>7. /\ Request[t] = [op |-> "lookup", at |-> Last(frames[t]), key |-> key[t], value |-> value[t]]
      /\ Progress[t] = "pending"
      BY <1>1 DEF Request, Progress
<1>8. Atomic!ValuesAt(Here(t), key[t]) = {e.value : e \in Found(Here(t), key[t])}
  <2>1. lock[Here(t)] = t
        BY <1>1, <1>2 DEF IInv, LockInv
  <2>2. \A u \in Threads : pc[u] = "insert" => lock[Here(u)] = u
        BY InCall DEF IInv, LockInv
  <2>3. Pending(Here(t)) = {}
        BY <1>1, <2>1, <2>2 DEF Pending
  <2>4. Shown[Here(t)] = entries[Here(t)]
        BY <1>2, <2>3, ShownIs
  <2> QED BY <2>4 DEF Atomic!ValuesAt, Found
<1>9. ASSUME pc' = [pc EXCEPT ![t] = "return"], frames' = frames,
             NEW v \in Atomic!Nearest(key[t])[Last(frames[t])],
             result' = [result EXCEPT ![t] = v]
      PROVE  Atomic!Effect(t)
  <2>1. pc'[t] = "return" /\ Last(frames[t])' = Last(frames[t])
        BY <1>9 DEF IInv, TypeOK
  <2>2. Request'[t] = Request[t] /\ Progress'[t] = "done"
        BY <1>1, <2>1 DEF Request, Progress
  <2>3. Request' = Request
        BY <1>6, <2>2
  <2>4. Request[t].op = "lookup" /\ Request[t].at = Last(frames[t]) /\ Request[t].key = key[t]
        BY <1>7
  <2> QED BY <1>5, <1>6, <1>7, <1>9, <2>2, <2>3, <2>4 DEF Atomic!Effect
<1>10. Atomic!Nearest(key[t])[Last(frames[t])] = Atomic!Nearest(key[t])[Here(t)]
       BY <1>1, NearestOnTheWay
<1>11. CASE /\ \E e \in Found(Here(t), key[t]) : result' = [result EXCEPT ![t] = e.value]
            /\ Goto(t, "return") /\ UNCHANGED << lock, frames >>
  <2>1. PICK e \in Found(Here(t), key[t]) : result' = [result EXCEPT ![t] = e.value]
        BY <1>11
  <2>2. e.value \in Atomic!ValuesAt(Here(t), key[t])
        BY <1>8
  <2>3. e.value \in Atomic!Nearest(key[t])[Last(frames[t])]
        BY <1>2, <1>10, <2>2, NearestIs
  <2> QED BY <1>9, <1>11, <2>1, <2>3 DEF Goto
<1>12. CASE /\ Found(Here(t), key[t]) = {} /\ ~HasParent(Here(t))
            /\ Goto(t, "return") /\ UNCHANGED << lock, frames, result >>
  <2>1. Atomic!ValuesAt(Here(t), key[t]) = {}
        BY <1>8, <1>12
  <2>2. None \in Atomic!Nearest(key[t])[Last(frames[t])]
        BY <1>2, <1>10, <1>12, <2>1, NearestIs DEF HasParent
  <2>3. result' = [result EXCEPT ![t] = None]
        BY <1>2, <1>12 DEF IInv, TypeOK
  <2> QED BY <1>9, <1>12, <2>2, <2>3 DEF Goto
<1>13. CASE /\ HasParent(Here(t)) /\ Enter(t, Parent[Here(t)])
            /\ Goto(t, "lock") /\ UNCHANGED << lock, result >>
  <2>1. /\ pc'[t] = "lock" /\ frames'[t] = << Parent[Here(t)] >> \o frames[t]
        /\ Parent[Here(t)] \in Storages
        BY <1>2, <1>13, ContextAssumption DEF Goto, Enter, HasParent, IInv, TypeOK
  <2>2. Last(frames[t])' = Last(frames[t])
    <3>1. \A S, q : q \in Seq(S) /\ q # << >> => \A s \in S : Last(<< s >> \o q) = Last(q)
      <4> SUFFICES ASSUME NEW S, NEW q \in Seq(S), q # << >>, NEW s \in S
                   PROVE  (<< s >> \o q)[Len(<< s >> \o q)] = q[Len(q)]
          BY DEF Last
      <4>1. /\ Len(<< s >> \o q) = Len(q) + 1 /\ Len(q) \in Nat \ {0}
            BY Left
      <4>2. Len(q) + 1 \in 2 .. Len(q) + 1 /\ (Len(q) + 1) - 1 = Len(q)
            BY <4>1
      <4> QED BY <4>1, <4>2, Entered
    <3> QED BY <1>2, <2>1, <3>1
  <2>3. Request'[t] = Request[t] /\ Progress'[t] = Progress[t]
        BY <1>1, <2>1, <2>2 DEF Request, Progress
  <2>4. Request' = Request /\ Progress' = Progress
        BY <1>6, <2>3
  <2> QED BY <1>5, <1>13, <2>4 DEF Atomic!vars
<1> QED BY <1>11, <1>12, <1>13 DEF Get

(* An Erase, or the erase of an Assign, is where the call takes effect.    *)
LEMMA EraseTakesEffect ==
    ASSUME IInv, IInv', LookupInv, NEW t \in Threads, Erase(t) PROVE Atomic!Effect(t)
<1> DEFINE new == [key |-> key[t], value |-> value[t]]
<1>0. PICK h : h = Here(t)
      OBVIOUS
<1>1. /\ pc[t] = "body" /\ op[t] \in {"assign", "erase"}
      /\ entries' = [entries EXCEPT ![h] = @ \ Found(h, key[t])]
      /\ pc' = [pc EXCEPT ![t] = IF op[t] = "assign" THEN "insert" ELSE "return"]
      /\ UNCHANGED << lock, frames, op, key, value, result >>
      BY <1>0 DEF Erase, Goto
<1>2. /\ h \in Storages /\ h = frames[t][1] /\ frames[t] \in Seq(Storages) /\ frames[t] # << >>
      /\ Len(frames[t]) \in Nat \ {0} /\ DOMAIN frames[t] = 1 .. Len(frames[t])
      BY <1>0, <1>1, InCall, Left
<1>3. Last(frames[t]) = h
  <2>1. ~(Len(frames[t]) > 1)
        BY <1>1, <1>2 DEF LookupInv
  <2> QED BY <1>2, <2>1 DEF Last
<1>4. \A u \in Threads \ {t} : UNCHANGED << pc[u], frames[u], op[u], key[u], value[u] >>
      BY <1>1 DEF IInv, TypeOK
<1>5. pc'[t] = IF op[t] = "assign" THEN "insert" ELSE "return"
      BY <1>1 DEF IInv, TypeOK
<1>6. /\ Request' = [Request EXCEPT ![t] = Request'[t]]
      /\ Progress' = [Progress EXCEPT ![t] = Progress'[t]]
      /\ Request'[t] = Request[t] => Request' = Request
      BY <1>4, OthersStay
<1>7. /\ Request[t] = [op |-> op[t], at |-> h, key |-> key[t], value |-> value[t]]
      /\ Request'[t] = Request[t] /\ Progress[t] = "pending" /\ Progress'[t] = "done"
  <2>1. Last(frames[t])' = Last(frames[t])
        BY <1>1
  <2> QED BY <1>1, <1>3, <1>5, <2>1 DEF Request, Progress
<1>8. Pending(h) = {}
  <2>1. lock[h] = t
        BY <1>1, <1>2 DEF IInv, LockInv
  <2>2. \A u \in Threads : pc[u] = "insert" => lock[Here(u)] = u
        BY InCall DEF IInv, LockInv
  <2> QED BY <1>1, <2>1, <2>2 DEF Pending
<1>9. \A u \in Threads : Here(u)' = Here(u)
      BY <1>1 DEF Here
<1>10. /\ Pending(h)' = IF op[t] = "assign" THEN {new} ELSE {}
       /\ \A s \in Storages \ {h} : Pending(s)' = Pending(s)
  <2>1. \A u \in Threads : pc[u] = "insert" => Here(u) # h
        BY <1>8 DEF Pending
  <2>2. \A s : {u \in Threads : pc[u] = "insert" /\ Here(u) = s}'
               = {u \in Threads : pc'[u] = "insert" /\ Here(u) = s}
        BY <1>9
  <2>3. \A s, x : x \in Pending(s)' <=>
           \E u \in Threads : pc'[u] = "insert" /\ Here(u) = s
                              /\ x = [key |-> key[u], value |-> value[u]]
        BY <1>1, <2>2 DEF Pending
  <2>4. \A s, x : x \in Pending(s) <=>
           \E u \in Threads : pc[u] = "insert" /\ Here(u) = s
                              /\ x = [key |-> key[u], value |-> value[u]]
        BY DEF Pending
  <2>5. \A u \in Threads \ {t} : pc'[u] = pc[u]
        BY <1>4
  <2>6. \A x : x \in Pending(h)' <=> op[t] = "assign" /\ x = new
    <3>1. ASSUME NEW u \in Threads, pc'[u] = "insert", Here(u) = h PROVE u = t
          BY <2>1, <2>5, <3>1
    <3>2. pc'[t] = "insert" <=> op[t] = "assign"
          BY <1>5
    <3>3. Here(t) = h /\ new = [key |-> key[t], value |-> value[t]]
          BY <1>0
    <3> HIDE DEF new
    <3> QED BY <2>3, <3>1, <3>2, <3>3
  <2>7. \A s \in Storages \ {h} : \A x : x \in Pending(s)' <=> x \in Pending(s)
    <3>1. ASSUME NEW s \in Storages \ {h}, NEW u \in Threads, Here(u) = s
          PROVE  pc'[u] = "insert" <=> pc[u] = "insert"
          BY <1>0, <2>5, <3>1
    <3> TAKE s \in Storages \ {h}
    <3> TAKE x
    <3>2. /\ x \in Pending(s)' <=>
             \E u \in Threads : pc'[u] = "insert" /\ Here(u) = s
                                /\ x = [key |-> key[u], value |-> value[u]]
          /\ x \in Pending(s) <=>
             \E u \in Threads : pc[u] = "insert" /\ Here(u) = s
                                /\ x = [key |-> key[u], value |-> value[u]]
          BY <2>3, <2>4
    <3> QED BY <3>1, <3>2
  <2> HIDE DEF new
  <2>8. \A s \in Storages \ {h} : Pending(s)' = Pending(s)
        BY <2>7
  <2>9. Pending(h)' = IF op[t] = "assign" THEN {new} ELSE {}
        BY <2>6
  <2> QED BY <2>8, <2>9
<1>11. Shown' = [Shown EXCEPT ![h] = {e \in Shown[h] : e.key # key[t]}
                                     \union IF op[t] = "assign" THEN {new} ELSE {}]
  <2>1. entries'[h] = {e \in entries[h] : e.key # key[t]}
        /\ \A s \in Storages \ {h} : entries'[s] = entries[s]
        BY <1>1, <1>2 DEF Found, IInv, TypeOK
  <2>2. \A s \in Storages : Shown'[s] = entries'[s] \union Pending(s)'
        BY ShownIs
  <2>3. Shown[h] = entries[h]
        BY <1>2, <1>8, ShownIs
  <2>4. Shown'[h] = {e \in Shown[h] : e.key # key[t]} \union IF op[t] = "assign" THEN {new} ELSE {}
    <3>1. h \in Storages
          BY <1>2
    <3> HIDE DEF new
    <3>2. Shown'[h] = entries'[h] \union IF op[t] = "assign" THEN {new} ELSE {}
          BY <1>10, <2>2, <3>1
    <3>3. entries'[h] = {e \in Shown[h] : e.key # key[t]}
          BY <2>1, <2>3
    <3> QED BY <3>2, <3>3
  <2>5. \A s \in Storages \ {h} : Shown'[s] = Shown[s]
        BY <1>10, <2>1, <2>2, ShownIs
  <2>6. Shown = [s \in Storages |-> Shown[s]] /\ Shown' = [s \in Storages |-> Shown'[s]]
        BY ShownIs
  <2> DEFINE X == {e \in Shown[h] : e.key # key[t]} \union IF op[t] = "assign" THEN {new} ELSE {}
  <2>7. Shown'[h] = X
        BY <2>4
  <2> HIDE DEF X
  <2>8. Shown' = [Shown EXCEPT ![h] = X]
        BY <2>5, <2>6, <2>7
  <2> QED BY <2>8 DEF X
<1>12. /\ Request[t].op = op[t] /\ Request[t].at = h /\ Request[t].key = key[t]
       /\ Request[t].value = value[t]
       BY <1>7
<1>13. CASE op[t] = "assign"
  <2>1. Shown' = [Shown EXCEPT ![h] = {e \in Shown[h] : e.key # key[t]} \union {new}]
        BY <1>11, <1>13
  <2> QED BY <1>1, <1>6, <1>7, <1>12, <1>13, <2>1 DEF Atomic!Effect
<1>14. CASE op[t] = "erase"
  <2>1. Shown' = [Shown EXCEPT ![h] = {e \in Shown[h] : e.key # key[t]}]
        BY <1>11, <1>14
  <2> QED BY <1>1, <1>6, <1>7, <1>12, <1>14, <2>1 DEF Atomic!Effect
<1> QED BY <1>1, <1>13, <1>14

LEMMA EmplaceStutters ==
    ASSUME IInv, IInv', NEW t \in Threads, Emplace(t) PROVE UNCHANGED Atomic!vars
<1> DEFINE h == Here(t)
           new == [key |-> key[t], value |-> value[t]]
<1>1. /\ pc[t] = "insert" /\ pc' = [pc EXCEPT ![t] = "return"]
      /\ entries' = [entries EXCEPT ![h] = @ \union {new}]
      /\ UNCHANGED << lock, frames, op, key, value, result >>
      BY DEF Emplace, Goto
<1>2. h \in Storages
      BY <1>1, InCall
<1>3. \A u \in Threads \ {t} : UNCHANGED << pc[u], frames[u], op[u], key[u], value[u] >>
      BY <1>1 DEF IInv, TypeOK
<1>4. pc'[t] = "return" /\ Last(frames[t])' = Last(frames[t])
      BY <1>1 DEF IInv, TypeOK
<1>5. Request'[t] = Request[t] /\ Progress'[t] = Progress[t]
      BY <1>1, <1>4 DEF Request, Progress
<1>6. Request' = Request /\ Progress' = Progress
      BY <1>3, <1>5, OthersStay
<1>7. \A s : Pending(s)' = {[key |-> key[u], value |-> value[u]] :
                               u \in {u \in Threads : pc'[u] = "insert" /\ Here(u) = s}}
  <2>1. \A u \in Threads : Here(u)' = Here(u)
        BY <1>1 DEF Here
  <2> QED BY <1>1, <2>1 DEF Pending
<1>8. \A s \in Storages : Pending(s)' \subseteq Pending(s)
                          /\ Pending(s) \subseteq Pending(s)' \union (IF s = h THEN {new} ELSE {})
  <2> TAKE s \in Storages
  <2>1. {u \in Threads : pc'[u] = "insert" /\ Here(u) = s}
          \subseteq {u \in Threads : pc[u] = "insert" /\ Here(u) = s}
        BY <1>3, <1>4
  <2>2. \A u \in Threads : pc[u] = "insert" /\ Here(u) = s =>
           pc'[u] = "insert" \/ (u = t /\ s = h)
        BY <1>3
  <2>3. \A x : x \in Pending(s) <=>
            \E u \in Threads : pc[u] = "insert" /\ Here(u) = s /\ x = [key |-> key[u], value |-> value[u]]
        BY DEF Pending
  <2>4. \A x : x \in Pending(s)' <=>
            \E u \in Threads : pc'[u] = "insert" /\ Here(u) = s /\ x = [key |-> key[u], value |-> value[u]]
        BY <1>7
  <2>5. Pending(s)' \subseteq Pending(s)
        BY <1>3, <1>4, <2>3, <2>4
  <2>6. ASSUME NEW x \in Pending(s) PROVE x \in Pending(s)' \union (IF s = h THEN {new} ELSE {})
    <3>1. PICK u \in Threads : /\ pc[u] = "insert" /\ Here(u) = s
                               /\ x = [key |-> key[u], value |-> value[u]]
          BY <2>3
    <3>2. CASE pc'[u] = "insert"
          BY <2>4, <3>1, <3>2
    <3>3. CASE u = t /\ s = h
          BY <3>1, <3>3
    <3> QED BY <2>2, <3>1, <3>2, <3>3
  <2> QED BY <2>5, <2>6
<1>9. \A s \in Storages : Shown'[s] = Shown[s]
  <2> TAKE s \in Storages
  <2>1. new \in Pending(h)
        BY <1>1 DEF Pending
  <2>2. entries'[s] = IF s = h THEN entries[h] \union {new} ELSE entries[s]
        BY <1>1, <1>2 DEF IInv, TypeOK
  <2>3. Shown'[s] = entries'[s] \union Pending(s)' /\ Shown[s] = entries[s] \union Pending(s)
        BY ShownIs
  <2> HIDE DEF h, new
  <2>4. Pending(s)' \subseteq Pending(s)
        /\ Pending(s) \subseteq Pending(s)' \union (IF s = h THEN {new} ELSE {})
        BY <1>8
  <2> QED BY <2>1, <2>2, <2>3, <2>4
<1>10. Shown' = Shown
       BY <1>9, ShownIs
<1> QED BY <1>1, <1>6, <1>10 DEF Atomic!vars

LEMMA ReturnReturns ==
    ASSUME IInv, IInv', NEW t \in Threads, Return(t)
    PROVE  Atomic!Return(t) \/ UNCHANGED Atomic!vars
<1>1. /\ pc[t] = "return" /\ frames' = [frames EXCEPT ![t] = Tail(@)]
      /\ pc' = [pc EXCEPT ![t] = IF Len(frames[t]) = 1 THEN "idle" ELSE "return"]
      /\ UNCHANGED << entries, op, key, value, result >>
      BY DEF Return, Goto
<1>2. /\ frames[t] \in Seq(Storages) /\ frames[t] # << >> /\ Len(frames[t]) \in Nat \ {0}
      BY <1>1, InCall, Left
<1>3. \A u \in Threads \ {t} : UNCHANGED << pc[u], frames[u], op[u], key[u], value[u] >>
      BY <1>1 DEF IInv, TypeOK
<1>4. /\ pc'[t] = IF Len(frames[t]) = 1 THEN "idle" ELSE "return"
      /\ frames'[t] = Tail(frames[t])
      BY <1>1 DEF IInv, TypeOK
<1>5. UNCHANGED Shown
      BY <1>1, <1>3, <1>4, ShownStays
<1>6. /\ Request' = [Request EXCEPT ![t] = Request'[t]]
      /\ Progress' = [Progress EXCEPT ![t] = Progress'[t]]
      /\ Request'[t] = Request[t] => Request' = Request
      /\ Progress'[t] = Progress[t] => Progress' = Progress
      BY <1>3, OthersStay
<1>7. CASE Len(frames[t]) = 1
  <2>1. Progress[t] = "done" /\ Progress'[t] = "idle" /\ Request'[t] = None
        BY <1>1, <1>4, <1>7 DEF Progress, Request
  <2> QED BY <1>1, <1>5, <1>6, <2>1 DEF Atomic!Return
<1>8. CASE Len(frames[t]) # 1
  <2>1. Last(Tail(frames[t])) = Last(frames[t])
    <3>1. Len(Tail(frames[t])) = Len(frames[t]) - 1 /\ Len(frames[t]) - 1 \in DOMAIN Tail(frames[t])
          BY <1>2, <1>8, Left
    <3> QED BY <1>2, <3>1, Left DEF Last
  <2>2. Last(frames[t])' = Last(frames[t])
        BY <1>4, <2>1 DEF Last
  <2>3. Request'[t] = Request[t] /\ Progress'[t] = Progress[t]
        BY <1>1, <1>4, <1>8, <2>2 DEF Request, Progress
  <2> QED BY <1>1, <1>5, <1>6, <2>3 DEF Atomic!vars
<1> QED BY <1>7, <1>8

LEMMA RenewRenews ==
    ASSUME IInv, IInv', NEW s \in Storages, Renew(s) PROVE Atomic!Renew(s)
<1>1. /\ entries' = [entries EXCEPT ![s] = {}]
      /\ UNCHANGED << pc, frames, op, key, value, result >>
      /\ \A t \in Threads : s \notin ToSet(frames[t])
      BY DEF Renew, threadVars
<1>2. \A u : Last(frames[u])' = Last(frames[u])
      BY <1>1
<1>3. Request' = Request /\ Progress' = Progress
      BY <1>1, <1>2 DEF Request, Progress
<1>4. \A u \in Threads : Here(u)' = Here(u)
      BY <1>1 DEF Here
<1>5. \A r : Pending(r)' = Pending(r)
      BY <1>1, <1>4 DEF Pending
<1>6. Pending(s) = {}
  <2>1. \A u \in Threads : pc[u] = "insert" => Here(u) \in ToSet(frames[u])
        BY InCall DEF ToSet
  <2> QED BY <1>1, <2>1 DEF Pending
<1>7. /\ entries'[s] = {} /\ \A r \in Storages \ {s} : entries'[r] = entries[r]
      BY <1>1 DEF IInv, TypeOK
<1>8. \A r \in Storages : Shown'[r] = entries'[r] \union Pending(r)'
      BY ShownIs
<1>9. Shown'[s] = {} /\ \A r \in Storages \ {s} : Shown'[r] = Shown[r]
      BY <1>5, <1>6, <1>7, <1>8, ShownIs
<1>10. Shown = [r \in Storages |-> Shown[r]] /\ Shown' = [r \in Storages |-> Shown'[r]]
       BY ShownIs
<1>11. Shown' = [Shown EXCEPT ![s] = {}]
       BY <1>9, <1>10
<1> QED BY <1>1, <1>3, <1>11 DEF Atomic!Renew

LEMMA StutterStutters == ASSUME UNCHANGED vars PROVE UNCHANGED Atomic!vars
<1>1. UNCHANGED << entries, pc, frames, op, key, value, result >>
      BY DEF vars, threadVars
<1>2. \A u : Last(frames[u])' = Last(frames[u]) /\ Here(u)' = Here(u)
      BY <1>1 DEF Here
<1>3. \A r : Pending(r)' = Pending(r)
      BY <1>1, <1>2 DEF Pending
<1>4. Shown' = Shown
      BY <1>1, <1>3 DEF Shown
<1>5. Request' = Request /\ Progress' = Progress
      BY <1>1, <1>2 DEF Request, Progress
<1> QED BY <1>1, <1>4, <1>5 DEF Atomic!vars

LEMMA AtomicStep ==
    ASSUME IInv, IInv', LookupInv, [Next]_vars PROVE [Atomic!Next]_(Atomic!vars)
<1>1. ASSUME NEW t \in Threads, Call(t) \/ Step(t) PROVE [Atomic!Next]_(Atomic!vars)
  <2>1. CASE Call(t)
        BY <2>1, CallBegins DEF Atomic!Next
  <2>2. CASE Lock(t)
        BY <2>2, LockStutters
  <2>3. CASE Get(t)
        BY <2>3, LookupAnswers DEF Atomic!Next
  <2>4. CASE Erase(t)
        BY <2>4, EraseTakesEffect DEF Atomic!Next
  <2>5. CASE Emplace(t)
        BY <2>5, EmplaceStutters
  <2>6. CASE Return(t)
        BY <2>6, ReturnReturns DEF Atomic!Next
  <2> QED BY <1>1, <2>1, <2>2, <2>3, <2>4, <2>5, <2>6 DEF Step
<1>2. ASSUME NEW s \in Storages, Renew(s) PROVE [Atomic!Next]_(Atomic!vars)
      BY <1>2, RenewRenews DEF Atomic!Next
<1>3. CASE UNCHANGED vars
      BY <1>3, StutterStutters
<1> QED BY <1>1, <1>2, <1>3 DEF Next

(* While a lookup goes on towards the root, nothing appears behind it.     *)
THEOREM LookupInvariance == Spec => []LookupInv
<1>1. Init => LookupInv
      BY LookupInit
<1>2. IInv /\ LookupInv /\ [Next]_vars => LookupInv'
      BY LookupStep
<1> QED BY <1>1, <1>2, StorageInvariance, PTL DEF Spec

(* However many threads share however large a tree of contexts: each call  *)
(* takes effect at one moment, and a lookup answers with the nearest value *)
(* of that moment.                                                         *)
THEOREM StoragesAreAtomic == Spec => CallsAreAtomic
<1>1. Init => Atomic!Init
      BY AtomicInit
<1>2. IInv /\ IInv' /\ LookupInv /\ [Next]_vars => [Atomic!Next]_(Atomic!vars)
      BY AtomicStep
<1>3. Spec => [](IInv /\ LookupInv)
      BY StorageInvariance, LookupInvariance, PTL
<1> QED BY <1>1, <1>2, <1>3, PTL DEF Spec, CallsAreAtomic, Atomic!Spec
=============================================================================
