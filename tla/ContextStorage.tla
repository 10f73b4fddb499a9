--------------------------- MODULE ContextStorage ---------------------------
(***************************************************************************)
(* The storages behind a tree of Contexts (program, feature, scenario),    *)
(* created by ContextStorageFactoryThreadSafe and called by the threads of *)
(* step definitions.  Every call locks the storage it enters; a lookup     *)
(* that finds nothing calls the parent while it holds its own lock, and    *)
(* Assign erases and inserts in two steps.                                 *)
(*                                                                         *)
(* With one thread this is also what the default, lock-free storages do.   *)
(* An entry's place in the list decides only which value dies first, and   *)
(* is left out; the values' destructors do not call back.                  *)
(***************************************************************************)
EXTENDS Naturals, Sequences, SequencesExt

CONSTANTS
    Threads,    \* those that share the contexts
    Storages,   \* one per Context
    Parent,     \* storage |-> the storage it was created on, or None
    Depth,      \* storage |-> how far it is from the root
    Keys,       \* type names and names
    Values,     \* what can be stored
    None

ASSUME ContextAssumption ==
    /\ Parent \in [Storages -> Storages \union {None}]
    /\ None \notin Storages \union Threads \union Values
    /\ Depth \in [Storages -> Nat]
    /\ \A s \in Storages : Parent[s] # None => Depth[Parent[s]] < Depth[s]

VARIABLES
    entries,    \* storage |-> its entries
    lock,       \* storage |-> the thread that holds its mutex, or None
    frames,     \* thread |-> the storages whose member it is in, innermost first
    pc,         \* thread |-> where it is in the innermost one
    op, key, value,     \* thread |-> the call's name and arguments
    result      \* thread |-> what its last lookup found

threadVars == << frames, pc, op, key, value, result >>
vars == << entries, lock, threadVars >>

Entry      == [key : Keys, value : Values]
Operations == {"assign", "erase", "lookup"}
Places     == {"idle", "lock", "body", "insert", "return"}

Init ==
    /\ entries = [s \in Storages |-> {}]
    /\ lock = [s \in Storages |-> None]
    /\ frames = [t \in Threads |-> << >>]
    /\ pc = [t \in Threads |-> "idle"]
    /\ op = [t \in Threads |-> None]
    /\ key = [t \in Threads |-> None]
    /\ value = [t \in Threads |-> None]
    /\ result = [t \in Threads |-> None]

-----------------------------------------------------------------------------
Here(t) == Head(frames[t])

(* parent != nullptr                                                       *)
HasParent(s) == Parent[s] # None

Found(s, k) == {e \in entries[s] : e.key = k}

Goto(t, place) == pc' = [pc EXCEPT ![t] = place]

Enter(t, s) == frames' = [frames EXCEPT ![t] = << s >> \o @]

(* A member of Context: SetShared, Emplace and Insert assign, Clear        *)
(* erases, Get and Contains look up.                                       *)
Call(t) ==
    /\ pc[t] = "idle"
    /\ \E s \in Storages, o \in Operations, k \in Keys, v \in Values :
          /\ frames' = [frames EXCEPT ![t] = << s >>]
          /\ op' = [op EXCEPT ![t] = o]
          /\ key' = [key EXCEPT ![t] = k]
          /\ value' = [value EXCEPT ![t] = IF o = "assign" THEN v ELSE None]
    /\ Goto(t, "lock")
    /\ result' = [result EXCEPT ![t] = None]
    /\ UNCHANGED << entries, lock >>

SlipUnlocked(t) ==
    /\ pc[t] = "lock"
    /\ Goto(t, "body")
    /\ UNCHANGED << entries, lock, frames, op, key, value, result >>

(* std::lock_guard lock{ mutex }                                           *)
Lock(t) ==
    /\ pc[t] = "lock"
    /\ lock[Here(t)] = None
    /\ lock' = [lock EXCEPT ![Here(t)] = t]
    /\ Goto(t, "body")
    /\ UNCHANGED << entries, frames, op, key, value, result >>

(* Contains and Get: here, or in the parent, or nowhere (KeyNotFound).     *)
Get(t) ==
    /\ pc[t] = "body"
    /\ op[t] = "lookup"
    /\ \/ /\ \E e \in Found(Here(t), key[t]) : result' = [result EXCEPT ![t] = e.value]
          /\ Goto(t, "return")
          /\ UNCHANGED << lock, frames >>
       \/ /\ Found(Here(t), key[t]) = {}
          /\ ~HasParent(Here(t))
          /\ Goto(t, "return")
          /\ UNCHANGED << lock, frames, result >>
       \/ /\ Found(Here(t), key[t]) = {}
          /\ HasParent(Here(t))
          /\ Enter(t, Parent[Here(t)])
          /\ Goto(t, "lock")
          /\ UNCHANGED << lock, result >>
    /\ UNCHANGED << entries, op, key, value >>

SlipAssignOnTop(t) ==
    /\ pc[t] = "body"
    /\ op[t] \in {"assign", "erase"}
    /\ entries' = [entries EXCEPT ![Here(t)] =
                      IF op[t] = "assign" THEN @ ELSE @ \ Found(Here(t), key[t])]
    /\ Goto(t, IF op[t] = "assign" THEN "insert" ELSE "return")
    /\ UNCHANGED << lock, frames, op, key, value, result >>

(* Erase, on its own or as the first half of Assign.                       *)
Erase(t) ==
    /\ pc[t] = "body"
    /\ op[t] \in {"assign", "erase"}
    /\ entries' = [entries EXCEPT ![Here(t)] = @ \ Found(Here(t), key[t])]
    /\ Goto(t, IF op[t] = "assign" THEN "insert" ELSE "return")
    /\ UNCHANGED << lock, frames, op, key, value, result >>

(* Assign's emplace_front.                                                 *)
Emplace(t) ==
    /\ pc[t] = "insert"
    /\ entries' = [entries EXCEPT ![Here(t)] =
                      @ \union {[key |-> key[t], value |-> value[t]]}]
    /\ Goto(t, "return")
    /\ UNCHANGED << lock, frames, op, key, value, result >>

SlipKeepsLock(t) ==
    /\ pc[t] = "return"
    /\ frames' = [frames EXCEPT ![t] = Tail(@)]
    /\ Goto(t, IF Len(frames[t]) = 1 THEN "idle" ELSE "return")
    /\ UNCHANGED << entries, lock, op, key, value, result >>

(* ~lock_guard, and back to the caller.                                    *)
Return(t) ==
    /\ pc[t] = "return"
    /\ lock' = [lock EXCEPT ![Here(t)] = None]
    /\ frames' = [frames EXCEPT ![t] = Tail(@)]
    /\ Goto(t, IF Len(frames[t]) = 1 THEN "idle" ELSE "return")
    /\ UNCHANGED << entries, op, key, value, result >>

(* A Context leaves its scope and the next feature or scenario creates one *)
(* on the same parent, while no thread is in it.                           *)
Renew(s) ==
    /\ Parent[s] # None
    /\ \A t \in Threads : s \notin ToSet(frames[t])
    /\ entries' = [entries EXCEPT ![s] = {}]
    /\ UNCHANGED << lock, threadVars >>

Step(t) == Lock(t) \/ Get(t) \/ Erase(t) \/ Emplace(t) \/ Return(t)

Next ==
    \/ \E t \in Threads : Call(t) \/ Step(t)
    \/ \E s \in Storages : Renew(s)

Spec == Init /\ [][Next]_vars

(* The operating system runs every thread that can go on; a mutex promises *)
(* no order among those that wait for it, so fairness is weak.             *)
FairSpec == Spec /\ \A t \in Threads : WF_vars(Step(t))

-----------------------------------------------------------------------------
(* Properties                                                              *)

TypeOK ==
    /\ entries \in [Storages -> SUBSET Entry]
    /\ lock \in [Storages -> Threads \union {None}]
    /\ frames \in [Threads -> Seq(Storages)]
    /\ pc \in [Threads -> Places]
    /\ op \in [Threads -> Operations \union {None}]
    /\ key \in [Threads -> Keys \union {None}]
    /\ value \in [Threads -> Values \union {None}]
    /\ result \in [Threads -> Values \union {None}]

(* A storage never holds two entries with one key, however the threads'    *)
(* erase and insert steps fall: Find's first match is the only one.        *)
KeysAreUnique ==
    \A s \in Storages : \A e, f \in entries[s] : e.key = f.key => e = f

(* Threads wait for each other's storages only towards the root, so no     *)
(* circle forms: once the steps stop making new calls, as at a scenario's  *)
(* end, every call under way returns.                                      *)
CallsReturn ==
    <>[][\A t \in Threads : ~Call(t)]_vars =>
        \A t \in Threads : pc[t] # "idle" ~> pc[t] = "idle"

(* What an Assign between its two steps is about to put into s.            *)
Pending(s) == {[key |-> key[t], value |-> value[t]] :
                  t \in {u \in Threads : pc[u] = "insert" /\ Here(u) = s}}

Shown    == [s \in Storages |-> entries[s] \union Pending(s)]
Request  == [t \in Threads |->
                IF pc[t] = "idle" THEN None
                ELSE [op |-> op[t], at |-> Last(frames[t]), key |-> key[t], value |-> value[t]]]
Progress == [t \in Threads |->
                CASE pc[t] = "idle" -> "idle"
                  [] pc[t] \in {"lock", "body"} -> "pending"
                  [] OTHER -> "done"]

(* The tree of locked storages is one atomic map per context: no thread    *)
(* sees a key missing in the middle of an Assign, and a lookup's answer    *)
(* was the nearest value at some moment of the call, although it reads the *)
(* storages one by one.  An Assign counts from its erase on.               *)
Atomic == INSTANCE AtomicContext WITH
    entries <- Shown, request <- Request, progress <- Progress

CallsAreAtomic == Atomic!Spec

-----------------------------------------------------------------------------
(* The inductive invariant behind KeysAreUnique.                           *)

CallInv ==
    \A t \in Threads :
        /\ pc[t] = "idle" <=> frames[t] = << >>
        /\ pc[t] # "idle" => op[t] \in Operations /\ key[t] \in Keys
        /\ pc[t] # "idle" /\ op[t] = "assign" => value[t] \in Values
        /\ pc[t] = "insert" => op[t] = "assign"

(* A thread has locked every storage it is in, but for one it has not yet  *)
(* entered, and went from each towards the root.                           *)
LockInv ==
    \A t \in Threads :
        /\ \A i \in DOMAIN frames[t] :
              i > 1 \/ pc[t] # "lock" => lock[frames[t][i]] = t
        /\ \A i, j \in DOMAIN frames[t] :
              i < j => Depth[frames[t][i]] < Depth[frames[t][j]]

(* Between Assign's two steps its key is nowhere in the storage.           *)
EntryInv ==
    /\ KeysAreUnique
    /\ \A t \in Threads : pc[t] = "insert" =>
          \A e \in entries[Here(t)] : e.key # key[t]

IInv == TypeOK /\ CallInv /\ LockInv /\ EntryInv

(* A lookup has found nothing in the storages it has gone through, and     *)
(* because it holds their locks there is still nothing.                    *)
LookupInv ==
    \A t \in Threads : pc[t] \in {"lock", "body"} =>
        /\ result[t] = None
        /\ \A i \in DOMAIN frames[t] : i > 1 =>
              /\ op[t] = "lookup"
              /\ frames[t][i - 1] = Parent[frames[t][i]]
              /\ Found(frames[t][i], key[t]) = {}
=============================================================================
