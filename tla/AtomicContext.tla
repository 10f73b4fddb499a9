---------------------------- MODULE AtomicContext ----------------------------
(***************************************************************************)
(* What a tree of contexts promises to the threads that share it: a call   *)
(* takes effect at one moment between its start and its return, and a      *)
(* lookup answers with the nearest value on the way to the root as it is   *)
(* at that moment.                                                         *)
(***************************************************************************)
CONSTANTS Threads, Storages, Parent, Keys, Values, None

VARIABLES
    entries,    \* storage |-> its set of [key, value]
    request,    \* thread |-> the call it is in, or None
    progress,   \* thread |-> "idle", "pending" or "done"
    result      \* thread |-> what its last lookup found

vars == << entries, request, progress, result >>

Operations == {"assign", "erase", "lookup"}
Requests   == [op : Operations, at : Storages, key : Keys, value : Values \union {None}]
Entry      == [key : Keys, value : Values]

ValuesAt(s, k) == {e.value : e \in {f \in entries[s] : f.key = k}}

(* The answers a lookup in s may give: one value, or None at the root.     *)
Nearest(k) ==
    LET near[s \in Storages] ==
          IF ValuesAt(s, k) # {} THEN ValuesAt(s, k)
          ELSE IF Parent[s] # None THEN near[Parent[s]] ELSE {None}
    IN near

Init ==
    /\ entries = [s \in Storages |-> {}]
    /\ request = [t \in Threads |-> None]
    /\ progress = [t \in Threads |-> "idle"]
    /\ result = [t \in Threads |-> None]

Begin(t) ==
    /\ progress[t] = "idle"
    /\ \E r \in Requests : request' = [request EXCEPT ![t] = r]
    /\ progress' = [progress EXCEPT ![t] = "pending"]
    /\ result' = [result EXCEPT ![t] = None]
    /\ UNCHANGED entries

Effect(t) ==
    /\ progress[t] = "pending"
    /\ progress' = [progress EXCEPT ![t] = "done"]
    /\ UNCHANGED request
    /\ LET r    == request[t]
           kept == {e \in entries[r.at] : e.key # r.key} IN
       \/ /\ r.op = "assign"
          /\ entries' = [entries EXCEPT ![r.at] =
                            kept \union {[key |-> r.key, value |-> r.value]}]
          /\ UNCHANGED result
       \/ /\ r.op = "erase"
          /\ entries' = [entries EXCEPT ![r.at] = kept]
          /\ UNCHANGED result
       \/ /\ r.op = "lookup"
          /\ \E v \in Nearest(r.key)[r.at] : result' = [result EXCEPT ![t] = v]
          /\ UNCHANGED entries

Return(t) ==
    /\ progress[t] = "done"
    /\ progress' = [progress EXCEPT ![t] = "idle"]
    /\ request' = [request EXCEPT ![t] = None]
    /\ UNCHANGED << entries, result >>

(* A context ends with its scope, and another one takes its place.         *)
Renew(s) ==
    /\ entries' = [entries EXCEPT ![s] = {}]
    /\ UNCHANGED << request, progress, result >>

Next ==
    \/ \E t \in Threads : Begin(t) \/ Effect(t) \/ Return(t)
    \/ \E s \in Storages : Renew(s)

Spec == Init /\ [][Next]_vars
=============================================================================
