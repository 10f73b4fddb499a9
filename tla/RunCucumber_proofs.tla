------------------------- MODULE RunCucumber_proofs -------------------------
(***************************************************************************)
(* Proofs about a process, whatever the feature files, the options, the    *)
(* registered definitions and the tests CTest has discovered: a parse      *)
(* error stops it, discovery gives every test a name that finds its        *)
(* scenario again, test cases refer to what was announced, and a step is   *)
(* matched with all its definitions.                                       *)
(*                                                                         *)
(* What is true of every number, and of every position in a sequence, is   *)
(* proved by the least counterexample (LeastNumber).                       *)
(***************************************************************************)
EXTENDS RunCucumber, FiniteSetTheorems, SequenceTheorems, WellFoundedInduction, TLAPS

(* Sequences and the orders the registries are read in                     *)

(* A function on 1 .. n is a sequence.                                     *)
LEMMA SequenceOn ==
    ASSUME NEW S, NEW n \in Nat, NEW q \in [1 .. n -> S]
    PROVE  q \in Seq(S) /\ Len(q) = n /\ DOMAIN q = 1 .. n
<1>1. q \in Seq(S) BY SeqDef
<1>2. DOMAIN q = 1 .. n OBVIOUS
<1>3. DOMAIN q = 1 .. Len(q) /\ Len(q) \in Nat BY <1>1, LenProperties
<1> QED BY <1>1, <1>2, <1>3

LEMMA SequenceFacts ==
    ASSUME NEW S, NEW q \in Seq(S)
    PROVE  /\ Len(q) \in Nat /\ DOMAIN q = 1 .. Len(q)
           /\ \A i \in DOMAIN q : i \in Nat \ {0} /\ q[i] \in S
OBVIOUS

LEMMA Appended ==
    ASSUME NEW S, NEW q \in Seq(S), NEW e \in S
    PROVE  /\ Append(q, e) \in Seq(S)
           /\ Len(Append(q, e)) = Len(q) + 1
           /\ DOMAIN Append(q, e) = 1 .. Len(q) + 1
           /\ Append(q, e)[Len(q) + 1] = e
           /\ \A k \in DOMAIN q : Append(q, e)[k] = q[k]
OBVIOUS

LEMMA ReverseKeeps ==
    ASSUME NEW S, NEW q \in Seq(S)
    PROVE  Reverse(q) \in Seq(S) /\ ToSet(Reverse(q)) = ToSet(q)
<1>1. Len(q) \in Nat /\ DOMAIN q = 1 .. Len(q) /\ \A i \in DOMAIN q : q[i] \in S
      OBVIOUS
<1> DEFINE r == Reverse(q)
<1>2. r = [i \in 1 .. Len(q) |-> q[(Len(q) - i) + 1]] BY DEF Reverse
<1>3. \A i \in 1 .. Len(q) : (Len(q) - i) + 1 \in 1 .. Len(q) /\ r[i] = q[(Len(q) - i) + 1]
      BY <1>1, <1>2
<1>4. r \in [1 .. Len(q) -> S] BY <1>1, <1>2, <1>3
<1> HIDE DEF r
<1>5. r \in Seq(S) /\ DOMAIN r = 1 .. Len(q) BY <1>1, <1>4, SequenceOn
<1>6. \A i \in 1 .. Len(q) : \E k \in 1 .. Len(q) : r[k] = q[i]
  <2> TAKE i \in 1 .. Len(q)
  <2>1. (Len(q) - i) + 1 \in 1 .. Len(q) /\ (Len(q) - ((Len(q) - i) + 1)) + 1 = i BY <1>1
  <2>2. r[(Len(q) - i) + 1] = q[i] BY <1>3, <2>1
  <2> QED BY <2>1, <2>2
<1>7. \A i \in 1 .. Len(q) : \E k \in 1 .. Len(q) : q[k] = r[i]
      BY <1>3
<1>8. ToSet(r) = ToSet(q)
  <2>1. ToSet(r) = {r[i] : i \in 1 .. Len(q)} BY <1>5 DEF ToSet
  <2>2. ToSet(q) = {q[i] : i \in 1 .. Len(q)} BY <1>1 DEF ToSet
  <2> QED BY <1>6, <1>7, <2>1, <2>2, Zenon
<1> QED BY <1>5, <1>8 DEF r

LEMMA ConcatElements ==
    ASSUME NEW S, NEW p \in Seq(S), NEW q \in Seq(S)
    PROVE  \A s \in ToSet(p \o q) : s \in ToSet(p) \/ s \in ToSet(q)
BY DEF ToSet

(* A set of numbers has a least one.                                       *)
LEMMA LeastNumber ==
    ASSUME NEW T, T \subseteq Nat, T # {}
    PROVE  \E x \in T : \A y \in T : x <= y
<1>1. PICK x \in T : \A y \in T : ~(<<y, x>> \in OpToRel(<, Nat))
  BY NatLessThanWellFounded, WFMin
<1>2. ASSUME NEW y \in T PROVE x <= y
  <2>1. ~(y < x)
    BY <1>1 DEF OpToRel
  <2> QED
    BY <2>1
<1> QED
  BY <1>2

StrictOrder(S, before) ==
    /\ \A x \in S : << x, x >> \notin before
    /\ \A x, y \in S : x # y => << x, y >> \in before \/ << y, x >> \in before
    /\ \A x, y, z \in S : << x, y >> \in before /\ << y, z >> \in before => << x, z >> \in before

(* Ordered lists the elements of a finite set, each once and in order:     *)
(* the number of elements before one is different for each.                *)
LEMMA OrderedLists ==
    ASSUME NEW S, IsFiniteSet(S), NEW before, StrictOrder(S, before)
    PROVE  /\ Ordered(S, before) \in Seq(S)
           /\ DOMAIN Ordered(S, before) = 1 .. Cardinality(S)
           /\ Cardinality(S) \in Nat
           /\ ToSet(Ordered(S, before)) = S
           /\ \A i, j \in DOMAIN Ordered(S, before) :
                 i < j => << Ordered(S, before)[i], Ordered(S, before)[j] >> \in before
<1> DEFINE Below(x) == {y \in S : << y, x >> \in before}
           size == Cardinality(S)
           rank == [x \in S |-> Cardinality(Below(x))]
           q == Ordered(S, before)
<1>1. size \in Nat
      BY FS_CardinalityType
<1>2. ASSUME NEW x \in S
      PROVE  IsFiniteSet(Below(x)) /\ rank[x] \in 0 .. size - 1
  <2>1. Below(x) \in SUBSET (S \ {x})
        BY DEF StrictOrder
  <2>2. IsFiniteSet(S \ {x}) /\ Cardinality(S \ {x}) = size - 1
        BY FS_RemoveElement
  <2>3. IsFiniteSet(Below(x)) /\ Cardinality(Below(x)) <= size - 1
        BY <2>1, <2>2, FS_Subset
  <2>4. Cardinality(Below(x)) \in Nat
        BY <2>3, FS_CardinalityType
  <2> QED BY <1>1, <2>3, <2>4
<1>3. ASSUME NEW x \in S, NEW y \in S, << x, y >> \in before
      PROVE  rank[x] < rank[y]
  <2>1. Below(x) \in SUBSET Below(y) /\ x \in Below(y) /\ x \notin Below(x)
        BY <1>3 DEF StrictOrder
  <2>2. IsFiniteSet(Below(y)) BY <1>2
  <2>3. Cardinality(Below(x)) <= Cardinality(Below(y))
        BY <2>1, <2>2, FS_Subset
  <2>4. Cardinality(Below(x)) # Cardinality(Below(y))
        BY <2>1, <2>2, FS_Subset
  <2>5. rank[x] \in 0 .. size - 1 /\ rank[y] \in 0 .. size - 1
        BY <1>2
  <2> HIDE DEF Below, size
  <2> QED BY <2>3, <2>4, <2>5, <1>1
<1>4. rank \in Surjection(S, 0 .. size - 1)
  <2>1. rank \in [S -> 0 .. size - 1]
        BY <1>2
  <2>2. ASSUME NEW x \in S, NEW y \in S, rank[x] = rank[y]
        PROVE  x = y
    <3>1. rank[x] \in 0 .. size - 1 BY <1>2
    <3>2. ~ rank[x] < rank[y] /\ ~ rank[y] < rank[x]
          BY <2>2, <3>1, <1>1
    <3> HIDE DEF rank
    <3> QED BY <1>3, <3>2 DEF StrictOrder
  <2> HIDE DEF rank
  <2>3. rank \in Injection(S, 0 .. size - 1)
        BY <2>1, <2>2 DEF Injection, IsInjective
  <2>4. IsFiniteSet(0 .. size - 1) /\ Cardinality(0 .. size - 1) = size
        BY <1>1, FS_Interval
  <2> QED BY <2>3, <2>4, FS_Injection
<1>5. ASSUME NEW n \in 1 .. size
      PROVE  q[n] \in S /\ rank[q[n]] = n - 1
  <2>1. n - 1 \in 0 .. size - 1
        BY <1>1
  <2>2. \E x \in S : rank[x] = n - 1
        BY <1>4, <2>1 DEF Surjection
  <2>3. q[n] = CHOOSE x \in S : Cardinality(Below(x)) = n - 1
        BY DEF Ordered
  <2> QED BY <2>2, <2>3
<1>6. q \in [1 .. size -> S]
      BY <1>5 DEF Ordered
<1>7. q \in Seq(S) /\ DOMAIN q = 1 .. size
      BY <1>1, <1>6, SequenceOn
<1> HIDE DEF q, rank, size
<1>8. ASSUME NEW i \in 1 .. size, NEW j \in 1 .. size, i < j
      PROVE  << q[i], q[j] >> \in before
  <2>1. /\ q[i] \in S /\ q[j] \in S
        /\ rank[q[i]] = i - 1 /\ rank[q[j]] = j - 1
        BY <1>5
  <2>2. q[i] # q[j] /\ ~ rank[q[j]] < rank[q[i]]
        BY <1>8, <2>1, <1>1
  <2> QED BY <1>3, <2>1, <2>2 DEF StrictOrder
<1>9. ASSUME NEW x \in S PROVE \E n \in 1 .. size : q[n] = x
  <2>1. rank[x] \in 0 .. size - 1 BY <1>2
  <2>2. rank[x] + 1 \in 1 .. size BY <2>1, <1>1
  <2>3. q[rank[x] + 1] \in S /\ rank[q[rank[x] + 1]] = rank[x]
        BY <1>5, <2>1, <2>2, <1>1
  <2>4. ~ << x, q[rank[x] + 1] >> \in before /\ ~ << q[rank[x] + 1], x >> \in before
        BY <1>3, <2>1, <2>3, <1>1
  <2> QED BY <2>2, <2>3, <2>4 DEF StrictOrder
<1>10. ToSet(q) = S
      BY <1>5, <1>7, <1>9 DEF ToSet
<1> QED BY <1>1, <1>7, <1>8, <1>10 DEF q, size

LEMMA AscendingLists ==
    ASSUME NEW m \in Nat, NEW P \in SUBSET (1 .. m)
    PROVE  /\ Ascending(P) \in Seq(P)
           /\ DOMAIN Ascending(P) = 1 .. Cardinality(P)
           /\ Cardinality(P) \in Nat
           /\ ToSet(Ascending(P)) = P
           /\ \A i, j \in DOMAIN Ascending(P) : i < j => Ascending(P)[i] < Ascending(P)[j]
<1> DEFINE before == {n \in P \X P : n[1] < n[2]}
<1>1. IsFiniteSet(P)
  <2>1. IsFiniteSet(1 .. m) BY FS_Interval
  <2> QED BY <2>1, FS_Subset
<1>2. \A x, y \in P : << x, y >> \in before <=> x < y
      OBVIOUS
<1>3. StrictOrder(P, before)
  <2> HIDE DEF before
  <2> QED BY <1>2 DEF StrictOrder
<1>4. Ascending(P) = Ordered(P, before)
      BY DEF Ascending
<1> HIDE DEF before
<1>5. \A i \in DOMAIN Ascending(P) : Ascending(P)[i] \in P
      BY <1>1, <1>3, <1>4, OrderedLists DEF ToSet
<1> QED BY <1>1, <1>2, <1>3, <1>4, <1>5, OrderedLists

(* Select keeps the elements at the positions, and their order.            *)
LEMMA SelectKeeps ==
    ASSUME NEW T, NEW s \in Seq(T), NEW P \in SUBSET DOMAIN s
    PROVE  /\ Select(s, P) \in Seq(T)
           /\ ToSet(Select(s, P)) = {s[i] : i \in P}
           /\ \A i, j \in DOMAIN Select(s, P) : i < j =>
                 \E k, l \in P : k < l /\ Select(s, P)[i] = s[k] /\ Select(s, P)[j] = s[l]
<1> DEFINE p == Ascending(P)
           n == Cardinality(P)
<1>1. Len(s) \in Nat /\ DOMAIN s = 1 .. Len(s) /\ \A i \in DOMAIN s : s[i] \in T
      OBVIOUS
<1>2. /\ p \in Seq(P) /\ DOMAIN p = 1 .. n /\ n \in Nat /\ ToSet(p) = P
      /\ \A i, j \in DOMAIN p : i < j => p[i] < p[j]
      BY <1>1, AscendingLists
<1>3. \A i \in 1 .. n : p[i] \in P
      BY <1>2 DEF ToSet
<1> HIDE DEF p, n
<1>4. Select(s, P) = [i \in 1 .. n |-> s[p[i]]]
      BY <1>2 DEF Select, p
<1>5. Select(s, P) \in Seq(T) /\ DOMAIN Select(s, P) = 1 .. n
      BY <1>1, <1>2, <1>3, <1>4, SequenceOn
<1>6. ToSet(Select(s, P)) = {s[i] : i \in P}
      BY <1>2, <1>3, <1>4 DEF ToSet
<1> QED BY <1>2, <1>3, <1>4, <1>5, <1>6

-----------------------------------------------------------------------------
(* The recursion of Digits.                                                *)
DigitStep(d, id) == IF id < 10 THEN << id >> ELSE Append(d[id \div 10], id % 10)

DigitsUpTo(n) == {d \in [0 .. n -> Seq(Nat) \ {<< >>}] : \A id \in 0 .. n : d[id] = DigitStep(d, id)}

LEMMA Quotient ==
    ASSUME NEW id \in Nat, ~ id < 10
    PROVE  /\ id \div 10 \in Nat /\ id \div 10 < id
           /\ id % 10 \in 0 .. 9
           /\ id = 10 * (id \div 10) + (id % 10)
OBVIOUS

LEMMA DigitStepType ==
    ASSUME NEW id \in Nat, NEW d, id >= 10 => d[id \div 10] \in Seq(Nat)
    PROVE  DigitStep(d, id) \in Seq(Nat) \ {<< >>}
<1>1. CASE id < 10
  <2>1. << id >> \in Seq(Nat) /\ << id >> # << >> OBVIOUS
  <2> QED BY <1>1, <2>1 DEF DigitStep
<1>2. CASE ~ id < 10
  <2>1. id % 10 \in Nat BY <1>2, Quotient
  <2>2. d[id \div 10] \in Seq(Nat) BY <1>2
  <2>3. Append(d[id \div 10], id % 10) \in Seq(Nat) /\ Append(d[id \div 10], id % 10) # << >>
        BY <2>1, <2>2, AppendProperties
  <2> QED BY <1>2, <2>3 DEF DigitStep
<1> QED BY <1>1, <1>2

LEMMA UpToExists == \A n \in Nat : DigitsUpTo(n) # {}
<1> DEFINE T == {n \in Nat : DigitsUpTo(n) = {}}
<1> SUFFICES ASSUME T # {} PROVE FALSE OBVIOUS
<1>1. PICK x \in T : \A y \in T : x <= y
      BY LeastNumber
<1>2. CASE x = 0
  <2> DEFINE h == [id \in 0 .. 0 |-> << id >>]
  <2>1. 0 .. 0 = {0} OBVIOUS
  <2>2. h[0] = << 0 >> /\ << 0 >> \in Seq(Nat) \ {<< >>} BY <2>1
  <2>3. h \in [0 .. 0 -> Seq(Nat) \ {<< >>}] BY <2>1, <2>2
  <2>4. \A id \in 0 .. 0 : h[id] = DigitStep(h, id) BY <2>1, <2>2 DEF DigitStep
  <2>5. h \in DigitsUpTo(0) BY <2>3, <2>4 DEF DigitsUpTo
  <2> QED BY <1>2, <2>5
<1>3. CASE x # 0
  <2>1. x \in Nat /\ x - 1 \in Nat /\ x - 1 \notin T
        BY <1>1, <1>3
  <2>2. PICK g : g \in DigitsUpTo(x - 1)
        BY <2>1
  <2> DEFINE h == [id \in 0 .. x |-> IF id = x THEN DigitStep(g, x) ELSE g[id]]
  <2>3. ASSUME NEW id \in 0 .. x, ~ id < 10 PROVE id \div 10 \in 0 .. x - 1
        BY <2>1, <2>3, Quotient
  <2>4. DigitStep(g, x) \in Seq(Nat) \ {<< >>}
    <3>1. ASSUME x >= 10 PROVE g[x \div 10] \in Seq(Nat)
      <4>1. x \div 10 \in 0 .. x - 1 BY <2>1, <2>3, <3>1
      <4> QED BY <2>2, <4>1 DEF DigitsUpTo
    <3> QED BY <2>1, <3>1, DigitStepType
  <2>5. h \in [0 .. x -> Seq(Nat) \ {<< >>}]
        BY <2>1, <2>2, <2>4 DEF DigitsUpTo
  <2>6. ASSUME NEW id \in 0 .. x PROVE h[id] = DigitStep(h, id)
    <3>1. DigitStep(h, id) = DigitStep(g, id)
          BY <2>1, <2>3 DEF DigitStep
    <3>2. CASE id = x BY <3>1, <3>2
    <3>3. CASE id # x
          BY <2>1, <2>2, <3>1, <3>3 DEF DigitsUpTo
    <3> QED BY <3>2, <3>3
  <2>7. h \in DigitsUpTo(x) BY <2>5, <2>6 DEF DigitsUpTo
  <2> QED BY <1>1, <2>7
<1> QED BY <1>2, <1>3

LEMMA UpToAgree ==
    ASSUME NEW m \in Nat, NEW n \in Nat, NEW g \in DigitsUpTo(m), NEW h \in DigitsUpTo(n),
           NEW id \in Nat, id <= m, id <= n
    PROVE  g[id] = h[id]
<1> DEFINE T == {i \in Nat : i <= m /\ i <= n /\ g[i] # h[i]}
<1> SUFFICES ASSUME T # {} PROVE FALSE OBVIOUS
<1>1. PICK x \in T : \A y \in T : x <= y
      BY LeastNumber
<1>2. g[x] = DigitStep(g, x) /\ h[x] = DigitStep(h, x)
      BY DEF DigitsUpTo
<1>3. CASE x < 10 BY <1>1, <1>2, <1>3 DEF DigitStep
<1>4. CASE ~ x < 10
  <2>1. x \div 10 \in Nat /\ x \div 10 < x BY <1>4, Quotient
  <2>2. g[x \div 10] = h[x \div 10] BY <1>1, <2>1
  <2> QED BY <1>1, <1>2, <1>4, <2>2 DEF DigitStep
<1> QED BY <1>3, <1>4

LEMMA DigitsDef ==
    ASSUME NEW id \in Nat
    PROVE  /\ Digits[id] = DigitStep(Digits, id)
           /\ Digits[id] \in Seq(Nat) \ {<< >>}
<1> DEFINE G(n) == CHOOSE g : g \in DigitsUpTo(n)
           d == [n \in Nat |-> G(n)[n]]
<1>1. \A n \in Nat : G(n) \in DigitsUpTo(n)
      BY UpToExists
<1> HIDE DEF G
<1>2. ASSUME NEW n \in Nat PROVE d[n] = DigitStep(d, n) /\ d[n] \in Seq(Nat) \ {<< >>}
  <2>1. G(n)[n] = DigitStep(G(n), n) /\ G(n)[n] \in Seq(Nat) \ {<< >>}
    <3>1. G(n) \in DigitsUpTo(n) /\ n \in 0 .. n BY <1>1
    <3> QED BY <3>1 DEF DigitsUpTo
  <2>2. ASSUME ~ n < 10 PROVE d[n \div 10] = G(n)[n \div 10]
    <3>1. n \div 10 \in Nat /\ n \div 10 < n BY <2>2, Quotient
    <3>2. G(n) \in DigitsUpTo(n) /\ G(n \div 10) \in DigitsUpTo(n \div 10) BY <1>1, <3>1
    <3> QED BY <3>1, <3>2, UpToAgree
  <2> QED BY <2>1, <2>2 DEF DigitStep
<1> HIDE DEF d
<1>3. d = [n \in Nat |-> IF n < 10 THEN << n >> ELSE Append(d[n \div 10], n % 10)]
      BY <1>2 DEF DigitStep, d
<1>4. Digits = [n \in Nat |-> IF n < 10 THEN << n >> ELSE Append(Digits[n \div 10], n % 10)]
      BY <1>3 DEF Digits
<1>5. \A n \in Nat : Digits[n] = DigitStep(Digits, n)
      BY <1>4 DEF DigitStep
<1>6. ASSUME NEW n \in Nat PROVE Digits[n] = d[n]
  <2> DEFINE T == {i \in Nat : Digits[i] # d[i]}
  <2> SUFFICES ASSUME T # {} PROVE FALSE OBVIOUS
  <2>1. PICK x \in T : \A y \in T : x <= y
        BY LeastNumber
  <2>2. DigitStep(Digits, x) = DigitStep(d, x)
    <3>1. ASSUME ~ x < 10 PROVE Digits[x \div 10] = d[x \div 10]
      <4>1. x \div 10 \in Nat /\ x \div 10 < x BY <3>1, Quotient
      <4> QED BY <2>1, <4>1
    <3> QED BY <3>1 DEF DigitStep
  <2> QED BY <1>2, <1>5, <2>1, <2>2
<1> QED BY <1>2, <1>5, <1>6

(* Different ids have different texts.                                     *)
LEMMA DigitsInjective ==
    ASSUME NEW a \in Nat, NEW b \in Nat, Digits[a] = Digits[b]
    PROVE  a = b
<1> DEFINE T == {n \in Nat : \E k \in Nat : k # n /\ Digits[k] = Digits[n]}
<1> SUFFICES ASSUME T # {} PROVE FALSE OBVIOUS
<1>1. PICK x \in T : \A y \in T : x <= y
      BY LeastNumber
<1>2. PICK k \in Nat : k # x /\ Digits[k] = Digits[x]
      BY <1>1
<1>3. ASSUME NEW n \in Nat, ~ n < 10
      PROVE  /\ n \div 10 \in Nat /\ n \div 10 < n /\ n % 10 \in Nat
             /\ n = 10 * (n \div 10) + (n % 10)
             /\ Digits[n \div 10] \in Seq(Nat) \ {<< >>}
             /\ Digits[n] = Append(Digits[n \div 10], n % 10)
  <2>1. n \div 10 \in Nat /\ n \div 10 < n /\ n % 10 \in Nat
        /\ n = 10 * (n \div 10) + (n % 10)
        BY <1>3, Quotient
  <2>2. Digits[n \div 10] \in Seq(Nat) \ {<< >>} BY <2>1, DigitsDef
  <2>3. Digits[n] = Append(Digits[n \div 10], n % 10) BY <1>3, DigitsDef DEF DigitStep
  <2> QED BY <2>1, <2>2, <2>3
<1>4. ASSUME NEW n \in Nat, n < 10 PROVE Digits[n] = << n >>
      BY <1>4, DigitsDef DEF DigitStep
<1>5. ASSUME NEW s \in Seq(Nat), s # << >>, NEW e \in Nat, NEW f \in Nat
      PROVE  Append(s, e) # << f >>
  <2> SUFFICES ASSUME Append(s, e) = << f >> PROVE FALSE OBVIOUS
  <2>1. Len(Append(s, e)) = Len(s) + 1
        BY <1>5, AppendProperties
  <2>3. Len(s) \in Nat \ {0}
        BY <1>5, EmptySeq
  <2>2. Len(<< f >>) = 1 OBVIOUS
  <2>4. Len(Append(s, e)) = 1 BY <2>2
  <2> QED BY <2>1, <2>3, <2>4
<1>10. ASSUME NEW s \in Seq(Nat), NEW t \in Seq(Nat), NEW e \in Nat, NEW f \in Nat,
              Append(s, e) = Append(t, f)
       PROVE  s = t /\ e = f
       BY <1>10, AppendInjective
<1> USE <1>1
<1>6. CASE x < 10 /\ k < 10
      BY <1>2, <1>4, <1>6
<1>11. ASSUME NEW n \in Nat, ~ n < 10
       PROVE  \E q, r \in Nat : \E s \in Seq(Nat) \ {<< >>} :
                 /\ q < n /\ n = 10 * q + r
                 /\ s = Digits[q] /\ Digits[n] = Append(s, r)
  <2> DEFINE q == n \div 10
             r == n % 10
  <2>1. /\ q \in Nat /\ q < n /\ r \in Nat /\ n = 10 * q + r
        /\ Digits[q] \in Seq(Nat) \ {<< >>} /\ Digits[n] = Append(Digits[q], r)
        BY <1>3, <1>11
  <2> HIDE DEF q, r
  <2> QED BY <2>1
<1>7. CASE x < 10 /\ ~ k < 10
  <2>1. PICK r \in Nat, s \in Seq(Nat) \ {<< >>} : Digits[k] = Append(s, r)
        BY <1>7, <1>11
  <2>2. x \in Nat /\ Digits[x] = << x >> BY <1>4, <1>7
  <2> QED BY <1>2, <1>5, <2>1, <2>2, Zenon
<1>8. CASE ~ x < 10 /\ k < 10
  <2>1. PICK r \in Nat, s \in Seq(Nat) \ {<< >>} : Digits[x] = Append(s, r)
        BY <1>8, <1>11
  <2>2. Digits[k] = << k >> BY <1>4, <1>8
  <2> QED BY <1>2, <1>5, <2>1, <2>2, Zenon
<1>9. CASE ~ x < 10 /\ ~ k < 10
  <2>1. PICK q \in Nat, r \in Nat, s \in Seq(Nat) \ {<< >>} :
                 /\ q < x /\ x = 10 * q + r
                 /\ s = Digits[q] /\ Digits[x] = Append(s, r)
        BY <1>9, <1>11
  <2>2. PICK p \in Nat, e \in Nat, t \in Seq(Nat) \ {<< >>} :
                 /\ p < k /\ k = 10 * p + e
                 /\ t = Digits[p] /\ Digits[k] = Append(t, e)
        BY <1>9, <1>11
  <2>3. s = t /\ r = e
    <3>1. s \in Seq(Nat) /\ t \in Seq(Nat) OBVIOUS
    <3>2. Append(s, r) = Append(t, e) BY <1>2, <2>1, <2>2, Zenon
    <3> QED BY <1>10, <3>1, <3>2, Zenon
  <2>4. q = p
    <3>1. q \notin T
      <4>1. x \in Nat OBVIOUS
      <4> HIDE DEF T
      <4> QED BY <1>1, <2>1, <4>1
    <3> QED BY <2>1, <2>2, <2>3, <3>1
  <2> QED BY <1>2, <2>1, <2>2, <2>3, <2>4
<1> QED BY <1>1, <1>6, <1>7, <1>8, <1>9

-----------------------------------------------------------------------------
(* The order of texts.                                                     *)
LEMMA TextBeforeTotal ==
    ASSUME NEW a \in Seq(Nat), NEW b \in Seq(Nat), a # b
    PROVE  TextBefore(a, b) \/ TextBefore(b, a)
<1> DEFINE T == {i \in Nat \ {0} : ~ (i \in DOMAIN a /\ i \in DOMAIN b /\ a[i] = b[i])}
<1>1. /\ Len(a) \in Nat /\ DOMAIN a = 1 .. Len(a)
      /\ Len(b) \in Nat /\ DOMAIN b = 1 .. Len(b)
      OBVIOUS
<1>2. PICK x \in T : \A y \in T : x <= y
  <2>1. Len(a) + 1 \in T BY <1>1
  <2> QED BY <2>1, LeastNumber
<1>3. \A j \in 1 .. x - 1 : j \in DOMAIN a /\ j \in DOMAIN b /\ a[j] = b[j]
      BY <1>2
<1>4. CASE x \in DOMAIN a /\ x \in DOMAIN b
  <2>1. a[x] \in Nat /\ b[x] \in Nat /\ a[x] # b[x] BY <1>2, <1>4
  <2>2. CASE a[x] < b[x] BY <1>3, <1>4, <2>2 DEF TextBefore
  <2>3. CASE b[x] < a[x] BY <1>3, <1>4, <2>3 DEF TextBefore
  <2> QED BY <2>1, <2>2, <2>3
<1>5. CASE x \in DOMAIN b /\ x \notin DOMAIN a
      BY <1>3, <1>5 DEF TextBefore
<1>6. CASE x \in DOMAIN a /\ x \notin DOMAIN b
      BY <1>3, <1>6 DEF TextBefore
<1>7. CASE x \notin DOMAIN a /\ x \notin DOMAIN b
  <2>1. Len(a) = x - 1 /\ Len(b) = x - 1
    <3>1. x \in Nat \ {0} BY <1>2
    <3>2. Len(a) \in 1 .. x - 1 => Len(a) \in DOMAIN a /\ Len(a) \in DOMAIN b BY <1>3
    <3>3. x - 1 \in 1 .. x - 1 => x - 1 \in DOMAIN a /\ x - 1 \in DOMAIN b BY <1>3
    <3> QED BY <1>1, <1>7, <3>1, <3>3
  <2>2. \A j \in 1 .. Len(a) : a[j] = b[j] BY <1>3, <2>1
  <2>3. a = b BY <2>1, <2>2, SeqEqual
  <2> QED BY <2>3
<1> QED BY <1>4, <1>5, <1>6, <1>7

LEMMA TextBeforeTransitive ==
    ASSUME NEW a \in Seq(Nat), NEW b \in Seq(Nat), NEW c \in Seq(Nat),
           TextBefore(a, b), TextBefore(b, c)
    PROVE  TextBefore(a, c)
<1>1. PICK i \in DOMAIN b : /\ \A j \in 1 .. i - 1 : j \in DOMAIN a /\ a[j] = b[j]
                            /\ i \in DOMAIN a => a[i] < b[i]
      BY DEF TextBefore
<1>2. PICK k \in DOMAIN c : /\ \A j \in 1 .. k - 1 : j \in DOMAIN b /\ b[j] = c[j]
                            /\ k \in DOMAIN b => b[k] < c[k]
      BY DEF TextBefore
<1>3. /\ DOMAIN a = 1 .. Len(a) /\ Len(a) \in Nat /\ \A n \in DOMAIN a : a[n] \in Nat
      /\ DOMAIN b = 1 .. Len(b) /\ Len(b) \in Nat /\ \A n \in DOMAIN b : b[n] \in Nat
      /\ DOMAIN c = 1 .. Len(c) /\ Len(c) \in Nat /\ \A n \in DOMAIN c : c[n] \in Nat
  OBVIOUS
<1>4. CASE i <= k
  <2>1. i \in DOMAIN c /\ i \in Nat \ {0} /\ k \in Nat \ {0} BY <1>3, <1>4
  <2>2. \A j \in 1 .. i - 1 : j \in DOMAIN a /\ a[j] = c[j] BY <1>1, <1>2, <1>4, <2>1
  <2>3. i \in DOMAIN a => a[i] < c[i]
    <3>1. CASE i < k
      <4>1. i \in 1 .. k - 1 BY <2>1, <3>1
      <4>2. b[i] = c[i] BY <1>2, <4>1
      <4> QED BY <1>1, <4>2
    <3>2. CASE i = k BY <1>1, <1>2, <1>3, <3>2
    <3> QED BY <1>4, <2>1, <3>1, <3>2
  <2> QED BY <2>1, <2>2, <2>3 DEF TextBefore
<1>5. CASE k < i
  <2>1. k \in Nat \ {0} /\ i \in Nat \ {0} /\ k \in DOMAIN b BY <1>3, <1>5
  <2>2. k \in DOMAIN a /\ a[k] = b[k] BY <1>1, <1>5, <2>1
  <2>3. \A j \in 1 .. k - 1 : j \in DOMAIN a /\ a[j] = c[j]
    <3>1. \A j \in 1 .. k - 1 : j \in 1 .. i - 1 BY <1>5, <2>1
    <3> QED BY <1>1, <1>2, <3>1
  <2> QED BY <1>2, <2>1, <2>2, <2>3 DEF TextBefore
<1> QED BY <1>3, <1>4, <1>5

(* Ids are in a strict order by their texts.                               *)
LEMMA TextOrder ==
    ASSUME NEW S \in SUBSET Nat
    PROVE  StrictOrder(S, {m \in S \X S : TextBefore(Digits[m[1]], Digits[m[2]])})
<1> DEFINE before == {m \in S \X S : TextBefore(Digits[m[1]], Digits[m[2]])}
<1>1. \A x, y \in S : << x, y >> \in before <=> TextBefore(Digits[x], Digits[y])
      OBVIOUS
<1>2. \A x \in S : Digits[x] \in Seq(Nat) BY DigitsDef
<1> HIDE DEF before
<1>3. ASSUME NEW x \in S PROVE << x, x >> \notin before
  <2>1. \A i \in DOMAIN Digits[x] : Digits[x][i] \in Nat BY <1>2
  <2>2. ~ TextBefore(Digits[x], Digits[x]) BY <2>1 DEF TextBefore
  <2> QED BY <1>1, <2>2
<1>4. \A x, y \in S : x # y => << x, y >> \in before \/ << y, x >> \in before
      BY <1>1, <1>2, DigitsInjective, TextBeforeTotal
<1>5. \A x, y, z \in S : << x, y >> \in before /\ << y, z >> \in before => << x, z >> \in before
      BY <1>1, <1>2, TextBeforeTransitive
<1>6. StrictOrder(S, before)
      BY <1>3, <1>4, <1>5 DEF StrictOrder
<1> QED BY <1>6 DEF before

-----------------------------------------------------------------------------
(* The process, from the command line to its exit code                     *)

LoadKinds == {"source", "document", "pickle", "parseError"}

OnlyLoadMessages == \A m \in announced : m[1] \in LoadKinds

Before == {"start", "formatters", "names"}

(* Until the files are parsed nothing has been assembled, and no message   *)
(* but those of parsing was sent.                                          *)
EarlyInv ==
    stage \in Before \union {"parse"} => testCases = << >> /\ OnlyLoadMessages

(* A process of --list-scenarios knows no other stage.                     *)
ListInv ==
    mode = "list" =>
        /\ stage \in Before \union {"parse", "unique", "over"}
        /\ testCases = << >>
        /\ OnlyLoadMessages
        /\ stage # "over" => listed = << >>

(* Files are read in order, and each of them is announced before it is     *)
(* parsed.                                                                 *)
FileInv ==
    /\ files \in Inputs
    /\ nextFile \in Nat \ {0}
    /\ stage \in Before => parseErrors = 0 /\ nextFile = 1
    /\ stage = "parse" => \A f \in 1 .. nextFile - 1 : << "source", f >> \in announced

(* Only the end of the process is left once errors have been counted.      *)
ErrorInv == parseErrors > 0 /\ stage # "parse" => stage = "over" /\ exit = Failure

IInv == EarlyInv /\ ListInv /\ FileInv /\ ErrorInv /\ ParseErrorStopsRun

-----------------------------------------------------------------------------
LEMMA InitialProcess == Init => IInv
<1> SUFFICES ASSUME Init PROVE IInv OBVIOUS
<1> USE DEF Init, Fresh, Nothing, Running, Failure
<1>1. EarlyInv BY DEF EarlyInv, OnlyLoadMessages
<1>2. ListInv BY DEF ListInv, OnlyLoadMessages, Before
<1>3. FileInv BY DEF FileInv
<1>4. ErrorInv BY DEF ErrorInv
<1>5. ParseErrorStopsRun BY DEF ParseErrorStopsRun
<1> QED BY <1>1, <1>2, <1>3, <1>4, <1>5 DEF IInv

(* What IInv says of a process that counted errors and ends.               *)
LEMMA EndsAtErrors ==
    ASSUME EarlyInv, ListInv, FileInv, stage = "parse",
           (\A f \in DOMAIN files : files[f].readable) => nextFile > Len(files)
    PROVE  /\ testCases = << >>
           /\ mode = "list" => listed = << >>
           /\ \A m \in announced : m[1] \in LoadKinds
           /\ (\A f \in DOMAIN files : files[f].readable) =>
                  \A f \in DOMAIN files : << "source", f >> \in announced
<1> USE DEF EarlyInv, ListInv, OnlyLoadMessages
<1>1. ASSUME \A f \in DOMAIN files : files[f].readable, NEW f \in DOMAIN files
      PROVE  << "source", f >> \in announced
  <2>1. Len(files) \in Nat /\ DOMAIN files = 1 .. Len(files)
        BY RunCucumberAssumption DEF FileInv
  <2>2. f \in 1 .. nextFile - 1
        BY <1>1, <2>1 DEF FileInv
  <2> QED BY <2>2 DEF FileInv
<1> QED BY <1>1

-----------------------------------------------------------------------------
(* Before the first file nothing has been counted.                         *)
LEMMA BeforeFilesKeeps ==
    ASSUME IInv, ParseCommandLine \/ EnableFormatters \/ CreateNameRegexStrategies
    PROVE  IInv'
<1> USE DEF IInv, ParseCommandLine, EnableFormatters, CreateNameRegexStrategies, Goto, End,
            inputVars, processVars, loadVars, codeVars
<1>0. stage \in Before /\ parseErrors = 0 /\ nextFile' = nextFile
      BY DEF FileInv, Before
<1>1. EarlyInv'
      BY <1>0 DEF EarlyInv, OnlyLoadMessages, Before
<1>2. ListInv'
      BY <1>0 DEF ListInv, EarlyInv, OnlyLoadMessages, Before
<1>3. FileInv'
      BY <1>0 DEF FileInv, Before
<1>4. ErrorInv' /\ ParseErrorStopsRun'
      BY <1>0 DEF ErrorInv, ParseErrorStopsRun
<1> QED BY <1>1, <1>2, <1>3, <1>4

(* A file adds messages of parsing, one of them for its source.            *)
LEMMA ParsesToAnnounces ==
    ASSUME NEW f, ParsesTo(f) \/ FailsToParse(f)
    PROVE  /\ announced \subseteq announced'
           /\ << "source", f >> \in announced'
           /\ OnlyLoadMessages => OnlyLoadMessages'
<1>1. CASE ParsesTo(f)
  <2> DEFINE compiled == Compile(f, ids + files[f].nodes)
             pickles  == {<< "pickle", compiled[i].id >> : i \in DOMAIN compiled}
  <2>1. announced' = announced \union {<< "source", f >>, << "document", f >>} \union pickles
        BY <1>1 DEF ParsesTo
  <2>2. \A m \in pickles : m[1] = "pickle"
        OBVIOUS
  <2> HIDE DEF pickles
  <2> QED BY <2>1, <2>2 DEF OnlyLoadMessages, LoadKinds
<1>2. CASE FailsToParse(f)
      BY <1>2 DEF FailsToParse, OnlyLoadMessages, LoadKinds
<1> QED BY <1>1, <1>2

LEMMA CollectPicklesKeeps == ASSUME IInv, CollectPickles PROVE IInv'
<1> USE DEF IInv, CollectPickles, inputVars, processVars
<1>0. nextFile \in Nat \ {0} /\ nextFile \in DOMAIN files
      BY RunCucumberAssumption DEF FileInv
<1>1. CASE ~files[nextFile].readable /\ End(Failure)
           /\ UNCHANGED << nextFile, ids, parseErrors, pickleSources, announced >>
  <2> USE DEF End
  <2>1. EarlyInv' /\ ListInv' /\ FileInv'
        BY <1>1 DEF EarlyInv, ListInv, FileInv, OnlyLoadMessages, Before
  <2>2. ErrorInv'
        BY <1>1 DEF ErrorInv
  <2>3. ParseErrorStopsRun'
        BY <1>0, <1>1, EndsAtErrors DEF ParseErrorStopsRun, LoadKinds
  <2> QED BY <2>1, <2>2, <2>3
<1>2. CASE (ParsesTo(nextFile) \/ FailsToParse(nextFile))
           /\ nextFile' = nextFile + 1 /\ UNCHANGED << stage, exit >>
  <2>1. /\ announced \subseteq announced'
        /\ << "source", nextFile >> \in announced'
        /\ OnlyLoadMessages => OnlyLoadMessages'
        BY <1>2, ParsesToAnnounces
  <2>2. EarlyInv' /\ ListInv'
        BY <1>2, <2>1 DEF EarlyInv, ListInv, Before
  <2>3. FileInv'
    <3>1. ASSUME NEW f \in 1 .. nextFile' - 1 PROVE << "source", f >> \in announced'
      <4>1. f = nextFile \/ f \in 1 .. nextFile - 1
            BY <1>0, <1>2, <3>1
      <4> QED BY <2>1, <4>1 DEF FileInv
    <3> QED BY <1>0, <1>2, <3>1 DEF FileInv, Before
  <2>4. ErrorInv' /\ ParseErrorStopsRun'
        BY <1>2 DEF ErrorInv, ParseErrorStopsRun
  <2> QED BY <2>2, <2>3, <2>4
<1> QED BY <1>1, <1>2

(* Errors end the process after the last file.                             *)
LEMMA LoadPicklesKeeps == ASSUME IInv, LoadPickles PROVE IInv'
<1> USE DEF IInv, LoadPickles, inputVars, processVars, codeVars, Goto, End
<1>1. EarlyInv' /\ ListInv' /\ FileInv'
      BY DEF EarlyInv, ListInv, FileInv, OnlyLoadMessages, Before
<1>2. ErrorInv'
      BY DEF ErrorInv
<1>3. ParseErrorStopsRun'
      BY EndsAtErrors DEF ParseErrorStopsRun, LoadKinds
<1> QED BY <1>1, <1>2, <1>3

-----------------------------------------------------------------------------
(* Past the parse stage of a process that goes on, no error was counted.   *)
LEMMA ListedKeeps == ASSUME IInv, MakeUniqueTestNames \/ ListScenarios PROVE IInv'
<1> USE DEF IInv, MakeUniqueTestNames, ListScenarios, AllNamed, End, inputVars, processVars,
            loadVars, codeVars
<1>0. stage = "unique" /\ ~ parseErrors > 0
      BY DEF ErrorInv
<1>1. EarlyInv' /\ ListInv' /\ FileInv'
      BY <1>0 DEF EarlyInv, ListInv, FileInv, OnlyLoadMessages, Before
<1>2. ErrorInv' /\ ParseErrorStopsRun'
      BY <1>0 DEF ErrorInv, ParseErrorStopsRun
<1> QED BY <1>1, <1>2

Register ==
    \/ OrderPickles \/ LoadParameters \/ LoadIds \/ LoadSteps \/ LoadHooks
    \/ EmitStepDefinitionsAndHooks \/ AssembleTestCase \/ FailBeforeAll \/ RunTests

LateStages == {"parameters", "ids", "steps", "hooks", "emit", "run", "over"}

LEMMA RegisterSteps ==
    ASSUME ListInv, Register
    PROVE  /\ mode # "list" /\ mode' = mode /\ stage # "over" /\ stage # "parse"
           /\ stage' \in LateStages
           /\ UNCHANGED << files, nextFile, parseErrors >>
<1> USE DEF ListInv, AllNamed, Goto, End, Before, LateStages, inputVars, processVars, loadVars
<1>1. CASE OrderPickles BY <1>1 DEF OrderPickles
<1>2. CASE LoadParameters BY <1>2 DEF LoadParameters
<1>3. CASE LoadIds BY <1>3 DEF LoadIds
<1>4. CASE LoadSteps BY <1>4 DEF LoadSteps
<1>5. CASE LoadHooks BY <1>5 DEF LoadHooks
<1>6. CASE EmitStepDefinitionsAndHooks BY <1>6 DEF EmitStepDefinitionsAndHooks
<1>7. CASE AssembleTestCase BY <1>7 DEF AssembleTestCase
<1>8. CASE FailBeforeAll BY <1>8 DEF FailBeforeAll
<1>9. CASE RunTests BY <1>9 DEF RunTests
<1> QED BY <1>1, <1>2, <1>3, <1>4, <1>5, <1>6, <1>7, <1>8, <1>9 DEF Register

LEMMA RegisterKeeps == ASSUME IInv, Register PROVE IInv'
<1> USE DEF IInv
<1>0. /\ mode # "list" /\ mode' = mode /\ ~ parseErrors > 0
      /\ stage' \in LateStages
      /\ UNCHANGED << files, nextFile, parseErrors >>
      BY RegisterSteps DEF ErrorInv
<1>1. EarlyInv' /\ ListInv' /\ FileInv'
      BY <1>0 DEF EarlyInv, ListInv, FileInv, Before, LateStages
<1>2. ErrorInv' /\ ParseErrorStopsRun'
      BY <1>0 DEF ErrorInv, ParseErrorStopsRun
<1> QED BY <1>1, <1>2

(* A process that listed scenarios has counted no error and kept nothing.  *)
LEMMA DiscoveredTestKeeps == ASSUME IInv, DiscoveredTest PROVE IInv'
<1> USE DEF IInv, DiscoveredTest, inputVars, codeVars
<1>1. EarlyInv'
      BY DEF EarlyInv, ListInv, OnlyLoadMessages
<1>2. ListInv'
      BY DEF ListInv
<1>3. FileInv'
      BY DEF FileInv
<1>4. ErrorInv' /\ ParseErrorStopsRun'
      BY DEF ErrorInv, ParseErrorStopsRun
<1> QED BY <1>1, <1>2, <1>3, <1>4

LEMMA ProcessInductive == IInv /\ [Next]_vars => IInv'
<1> SUFFICES ASSUME IInv, [Next]_vars PROVE IInv' OBVIOUS
<1>1. CASE ParseCommandLine \/ EnableFormatters \/ CreateNameRegexStrategies
      BY <1>1, BeforeFilesKeeps
<1>2. CASE CollectPickles BY <1>2, CollectPicklesKeeps
<1>3. CASE LoadPickles BY <1>3, LoadPicklesKeeps
<1>4. CASE MakeUniqueTestNames \/ ListScenarios BY <1>4, ListedKeeps
<1>5. CASE Register BY <1>5, RegisterKeeps
<1>6. CASE DiscoveredTest BY <1>6, DiscoveredTestKeeps
<1>7. CASE UNCHANGED vars
      BY <1>7 DEF IInv, EarlyInv, ListInv, FileInv, ErrorInv, OnlyLoadMessages,
                  ParseErrorStopsRun, vars, inputVars, processVars, loadVars, codeVars
<1> QED BY <1>1, <1>2, <1>3, <1>4, <1>5, <1>6, <1>7 DEF Next, Register

-----------------------------------------------------------------------------
(* The scenarios, their names and the tests                                *)

Late == {"parameters", "ids", "steps", "hooks", "emit", "run"}

SourceBefore(a, b) == a[1] < b[1] \/ (a[1] = b[1] /\ a[2] < b[2])

Sources(q) == {q[i].source : i \in DOMAIN q}

InOrder(q) == \A i, j \in DOMAIN q : i < j => SourceBefore(q[i].source, q[j].source)

(* The scenarios of the files before next that parsed.                     *)
Parsed(next) ==
    {s \in (1 .. next - 1) \X Nat : /\ files[s[1]].errors = 0
                                    /\ s[2] \in DOMAIN files[s[1]].pickles}

(* The scenarios that have the tags asked for.                             *)
Chosen == {s \in Parsed(Len(files) + 1) : Evaluate(options.tag, [source |-> s])}

Scenarios == [source : Nat \X Nat, id : Int]

PickleInv ==
    /\ pickleSources \in Seq(Scenarios)
    /\ InOrder(pickleSources)
    /\ stage \in Before => pickleSources = << >>
    /\ stage = "parse" =>
          /\ nextFile <= Len(files) + 1
          /\ Sources(pickleSources) = Parsed(nextFile)
    /\ stage \in {"unique"} \union Late => Sources(pickleSources) = Chosen

NameParts == Parts \union {Number(k) : k \in Nat}

NameRecords == [name : Seq(NameParts), source : Nat \X Nat]

NamesBefore(q, i) == {q[j].name : j \in 1 .. i - 1}

Named(q) ==
    \A i \in DOMAIN q :
        /\ q[i].name = MakeUnique(GetHierarchicalTestName(q[i]), NamesBefore(q, i))
        /\ q[i].name \notin NamesBefore(q, i)

NameInv ==
    /\ uniqueNames \in Seq(NameRecords)
    /\ Named(uniqueNames)
    /\ stage \in Before \union {"parse"} => uniqueNames = << >>
    /\ stage \in {"unique"} \union Late =>
          /\ Len(uniqueNames) <= Len(pickleSources)
          /\ \A i \in DOMAIN uniqueNames : uniqueNames[i].source = pickleSources[i].source
    /\ stage \in Late => Len(uniqueNames) = Len(pickleSources)

ListedInv ==
    \/ listed = << >>
    \/ /\ listed \in Seq(NameRecords)
       /\ Named(listed)
       /\ InOrder(listed)
       /\ Sources(listed) = Chosen

WantedInv == mode = "test" => wanted \in ToSet(listed)

Identified ==
    mode = "test" /\ stage \notin {"start", "formatters", "names", "parse", "unique", "over"} =>
        /\ \E s \in ToSet(selected) : s.source = wanted.source
        /\ \A s \in ToSet(selected) :
              s.source = wanted.source \/ Pickle(s).name = wanted.name

NamesInv == PickleInv /\ NameInv /\ ListedInv /\ WantedInv /\ Identified

-----------------------------------------------------------------------------
(* Lists of scenarios in order                                             *)

(* Of two lists of the same scenarios in order, one cannot come earlier at *)
(* the first place where they differ.                                      *)
LEMMA NotEarlier ==
    ASSUME NEW S, NEW T, NEW p \in Seq(S), NEW q \in Seq(T),
           \A r \in S \union T : r.source \in Nat \X Nat,
           InOrder(p), InOrder(q), Sources(p) \subseteq Sources(q),
           NEW x \in DOMAIN p, x \in DOMAIN q,
           \A i \in 1 .. x - 1 : p[i].source = q[i].source
    PROVE  ~ SourceBefore(p[x].source, q[x].source)
<1> SUFFICES ASSUME SourceBefore(p[x].source, q[x].source) PROVE FALSE OBVIOUS
<1>1. PICK k \in DOMAIN q : q[k].source = p[x].source
      BY DEF Sources
<1>2. /\ x \in Nat \ {0} /\ k \in Nat \ {0}
      /\ DOMAIN p = 1 .. Len(p) /\ Len(p) \in Nat
      /\ p[x].source \in Nat \X Nat /\ q[x].source \in Nat \X Nat
      BY SequenceFacts
<1>3. CASE k < x
  <2>1. k \in 1 .. x - 1 /\ k \in DOMAIN p BY <1>2, <1>3
  <2>2. p[k].source = p[x].source BY <1>1, <2>1
  <2>3. SourceBefore(p[k].source, p[x].source) BY <1>3, <2>1 DEF InOrder
  <2> QED BY <1>2, <2>2, <2>3 DEF SourceBefore
<1>4. CASE k = x
      BY <1>1, <1>2, <1>4 DEF SourceBefore
<1>5. CASE x < k
  <2>1. SourceBefore(q[x].source, p[x].source) BY <1>1, <1>5 DEF InOrder
  <2> QED BY <1>2, <2>1 DEF SourceBefore
<1> QED BY <1>2, <1>3, <1>4, <1>5

LEMMA SourcesCompare ==
    \A a, b \in Nat \X Nat : a = b \/ SourceBefore(a, b) \/ SourceBefore(b, a)
BY DEF SourceBefore

LEMMA SameSources ==
    ASSUME NEW S, NEW T, NEW p \in Seq(S), NEW q \in Seq(T),
           \A r \in S \union T : r.source \in Nat \X Nat,
           InOrder(p), InOrder(q), Sources(p) = Sources(q)
    PROVE  \A i \in DOMAIN p : i \in DOMAIN q => p[i].source = q[i].source
<1> DEFINE W == {i \in Nat : i \in DOMAIN p /\ i \in DOMAIN q /\ p[i].source # q[i].source}
<1>0. \A i \in DOMAIN p : i \in Nat
      BY SequenceFacts
<1> SUFFICES ASSUME W # {} PROVE FALSE BY <1>0
<1>1. PICK x \in W : \A y \in W : x <= y
      BY LeastNumber
<1>2. ASSUME NEW i \in 1 .. x - 1 PROVE p[i].source = q[i].source
  <2>1. /\ DOMAIN p = 1 .. Len(p) /\ Len(p) \in Nat
        /\ DOMAIN q = 1 .. Len(q) /\ Len(q) \in Nat
        BY SequenceFacts
  <2>2. i \in DOMAIN p /\ i \in DOMAIN q /\ i \in Nat /\ ~ x <= i BY <1>1, <2>1
  <2> QED BY <1>1, <2>2
<1>3. ~ SourceBefore(p[x].source, q[x].source)
      BY <1>1, <1>2, NotEarlier
<1>4. ~ SourceBefore(q[x].source, p[x].source)
      BY <1>1, <1>2, NotEarlier
<1>5. p[x].source \in Nat \X Nat /\ q[x].source \in Nat \X Nat
      BY <1>1, SequenceFacts
<1> QED BY <1>1, <1>3, <1>4, <1>5, SourcesCompare

LEMMA NotShorter ==
    ASSUME NEW S, NEW T, NEW p \in Seq(S), NEW q \in Seq(T),
           \A r \in S \union T : r.source \in Nat \X Nat,
           InOrder(p), InOrder(q), Sources(p) = Sources(q)
    PROVE  ~ Len(p) < Len(q)
<1> SUFFICES ASSUME Len(p) < Len(q) PROVE FALSE OBVIOUS
<1> DEFINE x == Len(p) + 1
<1>1. x \in DOMAIN q BY SequenceFacts
<1>2. PICK k \in DOMAIN p : p[k].source = q[x].source
      BY <1>1 DEF Sources
<1>3. k \in DOMAIN q /\ k < x /\ q[x].source \in Nat \X Nat
      BY <1>1, SequenceFacts
<1>4. q[k].source = p[k].source BY <1>3, SameSources
<1>5. SourceBefore(q[k].source, q[x].source) BY <1>1, <1>3 DEF InOrder
<1> QED BY <1>2, <1>3, <1>4, <1>5 DEF SourceBefore

LEMMA SameOrder ==
    ASSUME NEW S, NEW T, NEW p \in Seq(S), NEW q \in Seq(T),
           \A r \in S \union T : r.source \in Nat \X Nat,
           InOrder(p), InOrder(q), Sources(p) = Sources(q)
    PROVE  /\ DOMAIN p = DOMAIN q
           /\ \A i \in DOMAIN p : p[i].source = q[i].source
<1>1. ~ Len(p) < Len(q) BY NotShorter
<1>2. ~ Len(q) < Len(p) BY NotShorter
<1>3. DOMAIN p = DOMAIN q BY <1>1, <1>2, SequenceFacts
<1> QED BY <1>3, SameSources

(* The names are made in order from the scenarios alone.                   *)
LEMMA SameNames ==
    ASSUME NEW p \in Seq(NameRecords), NEW q \in Seq(NameRecords),
           Named(p), Named(q), DOMAIN p = DOMAIN q,
           \A i \in DOMAIN p : p[i].source = q[i].source
    PROVE  p = q
<1> DEFINE W == {i \in Nat : i \in DOMAIN p /\ p[i].name # q[i].name}
<1>0. \A i \in DOMAIN p : i \in Nat BY SequenceFacts
<1>1. W = {}
  <2> SUFFICES ASSUME W # {} PROVE FALSE OBVIOUS
  <2>1. PICK x \in W : \A y \in W : x <= y BY LeastNumber
  <2>2. ASSUME NEW j \in 1 .. x - 1 PROVE p[j].name = q[j].name
    <3>1. j \in DOMAIN p /\ j \in Nat /\ ~ x <= j BY <2>1, SequenceFacts
    <3> QED BY <2>1, <3>1
  <2>3. NamesBefore(p, x) = NamesBefore(q, x) BY <2>2 DEF NamesBefore
  <2>4. GetHierarchicalTestName(p[x]) = GetHierarchicalTestName(q[x])
        BY <2>1 DEF GetHierarchicalTestName, Pickle
  <2> QED BY <2>1, <2>3, <2>4 DEF Named
<1>2. ASSUME NEW i \in DOMAIN p PROVE p[i] = q[i]
  <2>1. p[i] \in NameRecords /\ q[i] \in NameRecords BY SequenceFacts
  <2>2. p[i].name = q[i].name /\ p[i].source = q[i].source BY <1>0, <1>1
  <2>3. \A r, t \in NameRecords : r.name = t.name /\ r.source = t.source => r = t
    <3>1. \A A, B : \A r, t \in [name : A, source : B] :
             r.name = t.name /\ r.source = t.source => r = t
          OBVIOUS
    <3> QED BY <3>1 DEF NameRecords
  <2> QED BY <2>1, <2>2, <2>3
<1>3. Len(p) = Len(q) /\ DOMAIN p = 1 .. Len(p) BY SequenceFacts
<1> QED BY <1>2, <1>3, SeqEqual

-----------------------------------------------------------------------------
(* Names                                                                   *)

IsParsed(source) ==
    /\ source[1] \in DOMAIN files
    /\ source[2] \in DOMAIN files[source[1]].pickles

LEMMA InputTypes ==
    ASSUME files \in Inputs, NEW f \in DOMAIN files
    PROVE  /\ files \in Seq(ToSet(files))
           /\ files[f].uri \in Seq(Parts)
           /\ files[f].nodes \in Nat
           /\ files[f].pickles \in Seq(ToSet(files[f].pickles))
           /\ \A at \in DOMAIN files[f].pickles :
                 LET p == files[f].pickles[at] IN
                 /\ p.steps \in Seq(ToSet(p.steps))
                 /\ {p.feature, p.rule, p.name, p.example} \subseteq Seq(Parts)
<1>1. /\ IsSequence(files)
      /\ files[f] \in ToSet(files)
      BY RunCucumberAssumption DEF ToSet
<1>2. /\ files[f].uri \in Seq(Parts)
      /\ files[f].nodes \in Nat
      /\ IsSequence(files[f].pickles)
      /\ \A p \in ToSet(files[f].pickles) :
            IsSequence(p.steps) /\ {p.feature, p.rule, p.name, p.example} \subseteq Seq(Parts)
      BY <1>1, RunCucumberAssumption
<1> QED BY <1>1, <1>2 DEF IsSequence, ToSet

LEMMA NameType ==
    ASSUME files \in Inputs, NEW s, IsParsed(s.source)
    PROVE  GetHierarchicalTestName(s) \in Seq(Parts)
<1> DEFINE p == Pickle(s)
<1>1. /\ files[s.source[1]].uri \in Seq(Parts)
      /\ p.feature \in Seq(Parts) /\ p.rule \in Seq(Parts)
      /\ p.name \in Seq(Parts) /\ p.example \in Seq(Parts)
      BY InputTypes DEF IsParsed, Pickle
<1>2. ASSUME NEW name \in Seq(Parts) PROVE SanitizeName(name) \in Seq(Parts)
  <2>1. DOMAIN name = 1 .. Len(name) /\ Len(name) \in Nat /\ \A i \in DOMAIN name : name[i] \in Parts
        OBVIOUS
  <2>2. SanitizeName(name) \in [1 .. Len(name) -> Parts]
        BY <2>1, RunCucumberAssumption DEF SanitizeName
  <2> QED BY <2>1, <2>2, SequenceOn
<1> DEFINE first == IF p.feature = << >> THEN files[s.source[1]].uri ELSE p.feature
<1>3. first \in Seq(Parts) BY <1>1
<1>4. GetHierarchicalTestName(s)
        = SanitizeName(first) \o SanitizeName(p.rule) \o SanitizeName(p.name) \o p.example
      BY DEF GetHierarchicalTestName
<1> HIDE DEF p, first
<1>5. /\ SanitizeName(first) \in Seq(Parts) /\ SanitizeName(p.rule) \in Seq(Parts)
      /\ SanitizeName(p.name) \in Seq(Parts)
      BY <1>1, <1>2, <1>3
<1> QED BY <1>1, <1>4, <1>5, ConcatProperties

(* There are more suffixes than names to avoid, so that one is left.       *)
LEMMA MakesUnique ==
    ASSUME NEW name \in Seq(NameParts), NEW seen, IsFiniteSet(seen)
    PROVE  MakeUnique(name, seen) \in Seq(NameParts) /\ MakeUnique(name, seen) \notin seen
<1> DEFINE Suffixed(k) == name \o << Number(k) >>
           size == Cardinality(seen)
           Free == {k \in 2 .. size + 2 : Suffixed(k) \notin seen}
<1>1. size \in Nat BY FS_CardinalityType
<1>2. ASSUME NEW k \in Nat
      PROVE  /\ Suffixed(k) \in Seq(NameParts) /\ Len(name) \in Nat
             /\ Suffixed(k)[Len(name) + 1] = << "#", k >>
  <2>1. Number(k) \in NameParts /\ << Number(k) >> \in Seq(NameParts)
        BY DEF NameParts
  <2>2. Len(name) \in Nat /\ Len(<< Number(k) >>) = 1 /\ << Number(k) >>[1] = Number(k)
        OBVIOUS
  <2>3. Suffixed(k) \in Seq(NameParts)
        BY <2>1, ConcatProperties
  <2>4. Suffixed(k)[Len(name) + 1] = Number(k)
        BY <2>1, <2>2, ConcatProperties
  <2> QED BY <2>2, <2>3, <2>4 DEF Number
<1> HIDE DEF Suffixed, size
<1>3. Free # {}
  <2> SUFFICES ASSUME Free = {} PROVE FALSE OBVIOUS
  <2> DEFINE h == [k \in 2 .. size + 2 |-> Suffixed(k)]
  <2>1. h \in [2 .. size + 2 -> seen] OBVIOUS
  <2>2. IsFiniteSet(2 .. size + 2) /\ Cardinality(2 .. size + 2) = size + 1
        BY <1>1, FS_Interval
  <2>3. PICK j, k \in 2 .. size + 2 : j # k /\ h[j] = h[k]
    <3>1. Cardinality(seen) < Cardinality(2 .. size + 2)
          BY <1>1, <2>2 DEF size
    <3> DEFINE D == 2 .. size + 2
    <3>2. IsFiniteSet(D) /\ Cardinality(seen) < Cardinality(D) /\ h \in [D -> seen]
          BY <2>1, <2>2, <3>1
    <3> HIDE DEF h, D
    <3>3. \E j, k \in D : j # k /\ h[j] = h[k]
          BY <3>2, FS_PigeonHole
    <3> QED BY <3>3 DEF D
  <2>4. Suffixed(j) = Suffixed(k) /\ j \in Nat /\ k \in Nat BY <1>1, <2>3
  <2>5. << "#", j >> = << "#", k >> BY <1>2, <2>4
  <2> QED BY <2>3, <2>5
<1>4. PICK least \in Free : \A k \in Free : least <= k
  <2>1. Free \subseteq Nat BY <1>1
  <2> HIDE DEF Free
  <2> QED BY <1>3, <2>1, LeastNumber
<1>5. \A j \in 2 .. least - 1 : Suffixed(j) \in seen
      BY <1>1, <1>4
<1> DEFINE chosen == CHOOSE k \in 2 .. size + 2 :
                        /\ Suffixed(k) \notin seen
                        /\ \A j \in 2 .. k - 1 : Suffixed(j) \in seen
<1>6. chosen \in 2 .. size + 2 /\ Suffixed(chosen) \notin seen
      BY <1>4, <1>5
<1>7. MakeUnique(name, seen) = IF name \notin seen THEN name ELSE Suffixed(chosen)
      BY DEF MakeUnique, Suffixed, size
<1> HIDE DEF chosen
<1> QED BY <1>1, <1>2, <1>6, <1>7

-----------------------------------------------------------------------------
(* What keeps the names                                                    *)

LEMMA KeepsChosen ==
    ASSUME UNCHANGED << files, options >>
    PROVE  Chosen' = Chosen /\ Parsed(Len(files) + 1)' = Parsed(Len(files) + 1)
BY DEF Chosen, Parsed, Evaluate, Pickle

LEMMA KeepsListed ==
    ASSUME ListedInv, UNCHANGED << files, options, listed >>
    PROVE  ListedInv'
<1>1. Chosen' = Chosen BY KeepsChosen
<1>2. Named(listed) => Named(listed)'
  <2>1. \A i : GetHierarchicalTestName(listed[i])' = GetHierarchicalTestName(listed[i])
        BY DEF GetHierarchicalTestName, Pickle
  <2>2. \A i : NamesBefore(listed, i)' = NamesBefore(listed, i)
        BY DEF NamesBefore
  <2> QED BY <2>1, <2>2 DEF Named
<1>3. InOrder(listed)' = InOrder(listed) /\ Sources(listed)' = Sources(listed)
      BY DEF InOrder, Sources
<1> QED BY <1>1, <1>2, <1>3 DEF ListedInv

LEMMA KeepsNamed ==
    ASSUME Named(uniqueNames), UNCHANGED << files, uniqueNames >>
    PROVE  Named(uniqueNames)'
<1>1. \A i : GetHierarchicalTestName(uniqueNames[i])' = GetHierarchicalTestName(uniqueNames[i])
      BY DEF GetHierarchicalTestName, Pickle
<1>2. \A i : NamesBefore(uniqueNames, i)' = NamesBefore(uniqueNames, i)
      BY DEF NamesBefore
<1> QED BY <1>1, <1>2 DEF Named

LEMMA KeepsPickles ==
    ASSUME UNCHANGED pickleSources
    PROVE  InOrder(pickleSources)' = InOrder(pickleSources)
           /\ Sources(pickleSources)' = Sources(pickleSources)
BY DEF InOrder, Sources

(* The tests have different names.                                         *)
LEMMA NamesDiffer ==
    ASSUME NEW q \in Seq(NameRecords), Named(q)
    PROVE  \A i, j \in DOMAIN q : q[i].name = q[j].name => i = j
<1>1. ASSUME NEW i \in DOMAIN q, NEW j \in DOMAIN q, i < j
      PROVE  q[i].name # q[j].name
  <2>1. i \in 1 .. j - 1 BY <1>1, SequenceFacts
  <2>2. q[i].name \in NamesBefore(q, j) BY <2>1 DEF NamesBefore
  <2> QED BY <2>2 DEF Named
<1> QED BY <1>1, SequenceFacts

LEMMA ListedIdentifies ==
    ASSUME ListedInv, Identified
    PROVE  DiscoveryIdentifies
<1>1. \A i, j \in DOMAIN listed : listed[i].name = listed[j].name => i = j
      BY NamesDiffer DEF ListedInv
<1> QED BY <1>1 DEF DiscoveryIdentifies, Identified

(* A step that leaves the names alone keeps what is known of them.         *)
LEMMA NamesUntouched ==
    ASSUME NamesInv,
           UNCHANGED << files, options, mode, wanted, listed, nextFile,
                        pickleSources, uniqueNames >>,
           \/ stage' = "over"
           \/ stage' = stage /\ UNCHANGED selected
           \/ stage \in Late /\ stage' \in Late /\ UNCHANGED selected
    PROVE  NamesInv'
<1> USE DEF NamesInv
<1>1. Chosen' = Chosen /\ Parsed(nextFile)' = Parsed(nextFile)
      BY KeepsChosen DEF Parsed
<1>2. PickleInv'
      BY <1>1, KeepsPickles DEF PickleInv, Before, Late
<1>3. NameInv'
      BY KeepsNamed DEF NameInv, Before, Late
<1>4. ListedInv'
      BY KeepsListed
<1>5. WantedInv'
      BY DEF WantedInv
<1>6. Identified'
      BY DEF Identified, Late, Pickle
<1> QED BY <1>2, <1>3, <1>4, <1>5, <1>6

LEMMA InitialNames == Init => NamesInv
<1> SUFFICES ASSUME Init PROVE NamesInv OBVIOUS
<1>1. pickleSources = << >> /\ uniqueNames = << >> /\ listed = << >> /\ stage = "start"
      BY DEF Init, Fresh
<1>2. PickleInv BY <1>1 DEF PickleInv, InOrder, Late
<1>3. NameInv BY <1>1 DEF NameInv, Named, Late
<1>4. ListedInv /\ WantedInv BY DEF ListedInv, WantedInv, Init
<1>5. Identified BY <1>1 DEF Identified
<1> QED BY <1>2, <1>3, <1>4, <1>5 DEF NamesInv

LEMMA BeforeFilesNames ==
    ASSUME IInv, NamesInv, ParseCommandLine \/ EnableFormatters \/ CreateNameRegexStrategies
    PROVE  NamesInv'
<1> USE DEF ParseCommandLine, EnableFormatters, CreateNameRegexStrategies, Goto, End,
            inputVars, processVars, loadVars
<1>1. /\ stage \in Before /\ stage' \in Before \union {"parse", "over"}
      /\ UNCHANGED << files, options, mode, wanted, listed, nextFile,
                      pickleSources, uniqueNames, selected >>
      BY DEF Before
<1>2. pickleSources = << >> /\ uniqueNames = << >> /\ nextFile = 1
      BY <1>1 DEF NamesInv, PickleInv, NameInv, IInv, FileInv
<1>3. PickleInv'
  <2>1. pickleSources' = << >> /\ nextFile' = 1 BY <1>1, <1>2
  <2>2. Sources(pickleSources)' = {} /\ Parsed(nextFile)' = {} BY <2>1 DEF Sources, Parsed
  <2>3. InOrder(pickleSources)' /\ pickleSources' \in Seq(Scenarios)
        BY <2>1 DEF InOrder
  <2>4. stage' \notin {"unique"} \union Late
        BY <1>1 DEF Before, Late
  <2>5. nextFile' <= Len(files') + 1
    <3>1. Len(files) \in Nat BY RunCucumberAssumption DEF IInv, FileInv, IsSequence
    <3> QED BY <1>1, <2>1, <3>1
  <2> QED BY <2>1, <2>2, <2>3, <2>4, <2>5 DEF PickleInv
<1>4. NameInv'
      BY <1>1, <1>2 DEF NameInv, Named, Before, Late
<1>5. ListedInv' BY <1>1, KeepsListed DEF NamesInv
<1>6. WantedInv' /\ Identified'
      BY <1>1 DEF WantedInv, Identified, NamesInv, Before
<1> QED BY <1>3, <1>4, <1>5, <1>6 DEF NamesInv

(* The ids a file takes are finitely many.                                 *)
LEMMA IdsAreCounted ==
    ASSUME files \in Inputs, NEW f \in DOMAIN files, NEW at \in 0 .. Len(files[f].pickles)
    PROVE  IdsUpTo(f, at) \in Nat
<1> DEFINE Of(i) == {i} \X (0 .. Len(files[f].pickles[i].steps))
           all == {Of(i) : i \in 1 .. at}
<1>1. /\ Len(files[f].pickles) \in Nat
      /\ \A i \in 1 .. at : Len(files[f].pickles[i].steps) \in Nat
  <2>1. /\ files[f].pickles \in Seq(ToSet(files[f].pickles))
        /\ \A i \in DOMAIN files[f].pickles :
              files[f].pickles[i].steps \in Seq(ToSet(files[f].pickles[i].steps))
        BY InputTypes
  <2>2. Len(files[f].pickles) \in Nat /\ DOMAIN files[f].pickles = 1 .. Len(files[f].pickles)
        BY <2>1, LenProperties
  <2>3. \A i \in 1 .. at : i \in DOMAIN files[f].pickles BY <2>2
  <2> QED BY <2>1, <2>2, <2>3, LenProperties
<1>2. IsFiniteSet(all)
  <2>1. IsFiniteSet(1 .. at) BY <1>1, FS_Interval
  <2> DEFINE h == [i \in 1 .. at |-> Of(i)]
  <2>2. h \in Surjection(1 .. at, all) BY DEF Surjection
  <2> HIDE DEF h, all
  <2> QED BY <2>1, <2>2, FS_Surjection
<1>3. ASSUME NEW T \in all PROVE IsFiniteSet(T)
  <2>1. PICK i \in 1 .. at : T = Of(i) OBVIOUS
  <2>2. IsFiniteSet({i}) BY FS_Singleton
  <2>4. \A n \in Nat : IsFiniteSet(0 .. n) BY FS_Interval
  <2>3. IsFiniteSet(0 .. Len(files[f].pickles[i].steps)) BY <1>1, <2>4
  <2> QED BY <2>1, <2>2, <2>3, FS_Product
<1>4. IsFiniteSet(UNION all)
  <2> HIDE DEF all
  <2> QED BY <1>2, <1>3, FS_UNION
<1>5. IdsUpTo(f, at) = Cardinality(UNION all) BY DEF IdsUpTo
<1> HIDE DEF all
<1> QED BY <1>4, <1>5, FS_CardinalityType

(* The pickles of a file come after those of the files before it.          *)
LEMMA CompiledPickles ==
    ASSUME files \in Inputs, NEW f \in DOMAIN files, NEW first \in Int
    PROVE  /\ Compile(f, first) \in Seq(Scenarios)
           /\ DOMAIN Compile(f, first) = DOMAIN files[f].pickles
           /\ \A at \in DOMAIN Compile(f, first) : Compile(f, first)[at].source = << f, at >>
<1> DEFINE q == Compile(f, first)
<1>1. Len(files[f].pickles) \in Nat /\ DOMAIN files[f].pickles = 1 .. Len(files[f].pickles)
      BY InputTypes, LenProperties
<1>2. f \in Nat BY InputTypes, LenProperties
<1>3. ASSUME NEW at \in 1 .. Len(files[f].pickles)
      PROVE  q[at] \in Scenarios /\ q[at].source = << f, at >>
  <2>1. q[at] = [source |-> << f, at >>, id |-> first + IdsUpTo(f, at) - 1]
        BY <1>1 DEF Compile
  <2>2. IdsUpTo(f, at) \in Nat BY <1>1, IdsAreCounted
  <2> QED BY <1>2, <2>1, <2>2 DEF Scenarios
<1>4. q \in [1 .. Len(files[f].pickles) -> Scenarios]
      BY <1>1, <1>3 DEF Compile
<1> HIDE DEF q
<1> QED BY <1>1, <1>3, <1>4, SequenceOn DEF q

LEMMA ConcatInOrder ==
    ASSUME NEW p \in Seq(Scenarios), NEW q \in Seq(Scenarios), InOrder(p), InOrder(q),
           \A i \in DOMAIN p : \A j \in DOMAIN q : SourceBefore(p[i].source, q[j].source)
    PROVE  InOrder(p \o q) /\ Sources(p \o q) = Sources(p) \union Sources(q)
<1> DEFINE r == p \o q
<1>1. /\ Len(p) \in Nat /\ DOMAIN p = 1 .. Len(p)
      /\ Len(q) \in Nat /\ DOMAIN q = 1 .. Len(q)
      /\ r \in Seq(Scenarios) /\ Len(r) = Len(p) + Len(q) /\ DOMAIN r = 1 .. Len(r)
      /\ \A i \in 1 .. Len(p) + Len(q) : r[i] = IF i <= Len(p) THEN p[i] ELSE q[i - Len(p)]
      BY ConcatProperties, LenProperties
<1> HIDE DEF r
<1>2. \A i \in DOMAIN p : i \in DOMAIN r /\ r[i] = p[i]
      BY <1>1
<1>3. \A j \in DOMAIN q : j + Len(p) \in DOMAIN r /\ r[j + Len(p)] = q[j]
      BY <1>1
<1>4. \A i \in DOMAIN r : i \in DOMAIN p \/ (i - Len(p) \in DOMAIN q /\ r[i] = q[i - Len(p)])
      BY <1>1
<1>5. InOrder(r)
  <2> SUFFICES ASSUME NEW i \in DOMAIN r, NEW j \in DOMAIN r, i < j
               PROVE  SourceBefore(r[i].source, r[j].source)
      BY DEF InOrder
  <2>1. CASE j \in DOMAIN p
    <3>1. i \in DOMAIN p BY <1>1, <2>1
    <3> QED BY <1>2, <2>1, <3>1 DEF InOrder
  <2>2. CASE i \in DOMAIN p /\ j \notin DOMAIN p
    <3>1. j - Len(p) \in DOMAIN q /\ r[j] = q[j - Len(p)] BY <1>4, <2>2
    <3> QED BY <1>2, <2>2, <3>1
  <2>3. CASE i \notin DOMAIN p /\ j \notin DOMAIN p
    <3>1. /\ i - Len(p) \in DOMAIN q /\ r[i] = q[i - Len(p)]
          /\ j - Len(p) \in DOMAIN q /\ r[j] = q[j - Len(p)]
          /\ i - Len(p) < j - Len(p)
          BY <1>1, <1>4, <2>3
    <3> QED BY <3>1 DEF InOrder
  <2> QED BY <2>1, <2>2, <2>3
<1>6. Sources(r) = Sources(p) \union Sources(q)
  <2>1. \A i \in DOMAIN p : \E k \in DOMAIN r : r[k] = p[i] BY <1>2
  <2>2. \A i \in DOMAIN q : \E k \in DOMAIN r : r[k] = q[i] BY <1>3
  <2>3. \A k \in DOMAIN r : (\E i \in DOMAIN p : r[k] = p[i]) \/ (\E i \in DOMAIN q : r[k] = q[i])
        BY <1>2, <1>4
  <2> QED BY <2>1, <2>2, <2>3 DEF Sources
<1> QED BY <1>5, <1>6 DEF r

LEMMA CollectPicklesNames ==
    ASSUME IInv, NamesInv, ids \in Nat, CollectPickles
    PROVE  NamesInv'
<1> USE DEF CollectPickles, inputVars, processVars
<1>0. /\ files \in Inputs /\ nextFile \in Nat \ {0} /\ nextFile \in DOMAIN files
      /\ stage = "parse"
      BY RunCucumberAssumption DEF IInv, FileInv
<1>1. CASE End(Failure) /\ UNCHANGED << nextFile, ids, parseErrors, pickleSources, announced >>
      BY <1>1, NamesUntouched DEF End
<1>2. CASE /\ IF files[nextFile].errors = 0 THEN ParsesTo(nextFile) ELSE FailsToParse(nextFile)
           /\ nextFile' = nextFile + 1 /\ UNCHANGED << stage, exit >>
  <2>1. pickleSources' \in Seq(Scenarios) /\ InOrder(pickleSources)'
        /\ Sources(pickleSources)' = Parsed(nextFile)'
    <3>1. CASE files[nextFile].errors = 0
      <4> DEFINE q == Compile(nextFile, ids + files[nextFile].nodes)
      <4>1. ids + files[nextFile].nodes \in Int BY <1>0, InputTypes
      <4>2. /\ q \in Seq(Scenarios) /\ DOMAIN q = DOMAIN files[nextFile].pickles
            /\ \A at \in DOMAIN q : q[at].source = << nextFile, at >>
            BY <1>0, <4>1, CompiledPickles
      <4>3. pickleSources' = pickleSources \o q BY <1>2, <3>1 DEF ParsesTo
      <4> HIDE DEF q
      <4>4. /\ pickleSources \in Seq(Scenarios) /\ InOrder(pickleSources)
            /\ Sources(pickleSources) = Parsed(nextFile)
            BY <1>0 DEF NamesInv, PickleInv
      <4>5. InOrder(q) BY <4>2, SequenceFacts DEF InOrder, SourceBefore
      <4>6. \A i \in DOMAIN pickleSources : \A j \in DOMAIN q :
                SourceBefore(pickleSources[i].source, q[j].source)
        <5>1. \A s \in Sources(pickleSources) : s[1] < nextFile BY <1>0, <4>4 DEF Parsed
        <5>2. \A i \in DOMAIN pickleSources : pickleSources[i].source \in Sources(pickleSources)
              BY DEF Sources
        <5> QED BY <4>2, <5>1, <5>2 DEF SourceBefore
      <4>7. InOrder(pickleSources \o q)
            /\ Sources(pickleSources \o q) = Parsed(nextFile) \union Sources(q)
            BY <4>2, <4>4, <4>5, <4>6, ConcatInOrder
      <4>8. Parsed(nextFile)' = Parsed(nextFile) \union Sources(q)
        <5>1. Sources(q) = {<< nextFile, at >> : at \in DOMAIN files[nextFile].pickles}
              BY <4>2 DEF Sources
        <5>2. DOMAIN files[nextFile].pickles \subseteq Nat BY <1>0, <4>2, SequenceFacts
        <5>3. Parsed(nextFile)' =
                {s \in (1 .. nextFile) \X Nat : /\ files[s[1]].errors = 0
                                               /\ s[2] \in DOMAIN files[s[1]].pickles}
              BY <1>0, <1>2 DEF Parsed
        <5> QED BY <1>0, <3>1, <5>1, <5>2, <5>3 DEF Parsed
      <4>9. pickleSources \o q \in Seq(Scenarios) BY <4>2, <4>4, ConcatProperties
      <4>10. InOrder(pickleSources)' <=> InOrder(pickleSources \o q) BY <4>3 DEF InOrder
      <4>11. Sources(pickleSources)' = Sources(pickleSources \o q) BY <4>3 DEF Sources
      <4> QED BY <4>3, <4>7, <4>8, <4>9, <4>10, <4>11
    <3>2. CASE files[nextFile].errors # 0
      <4>1. UNCHANGED pickleSources BY <1>2, <3>2 DEF FailsToParse
      <4>2. Parsed(nextFile)' = Parsed(nextFile) BY <1>0, <1>2, <3>2 DEF Parsed
      <4> QED BY <1>0, <4>1, <4>2, KeepsPickles DEF NamesInv, PickleInv
    <3> QED BY <3>1, <3>2
  <2>2. PickleInv'
    <3>1. nextFile' <= Len(files') + 1 BY <1>0, <1>2, InputTypes, LenProperties
    <3> QED BY <1>0, <1>2, <2>1, <3>1 DEF PickleInv, Before, Late
  <2>3. NameInv' BY <1>0, <1>2, KeepsNamed DEF NamesInv, NameInv, Before, Late
  <2>4. ListedInv' BY KeepsListed DEF NamesInv
  <2>5. WantedInv' /\ Identified' BY <1>0, <1>2 DEF NamesInv, WantedInv, Identified
  <2> QED BY <2>2, <2>3, <2>4, <2>5 DEF NamesInv
<1> QED BY <1>1, <1>2

LEMMA LoadPicklesNames ==
    ASSUME IInv, NamesInv, LoadPickles
    PROVE  NamesInv'
<1> USE DEF LoadPickles, inputVars, processVars
<1>0. stage = "parse" /\ nextFile > Len(files) OBVIOUS
<1>1. CASE End(Failure) /\ UNCHANGED pickleSources
      BY <1>1, NamesUntouched DEF End
<1>2. CASE pickleSources' = Select(pickleSources, Tagged) /\ Goto("unique")
  <2> DEFINE q == Select(pickleSources, Tagged)
  <2>1. /\ pickleSources \in Seq(Scenarios) /\ InOrder(pickleSources)
        /\ Sources(pickleSources) = Parsed(nextFile)
        /\ nextFile = Len(files) + 1
    <3>1. Len(files) \in Nat /\ nextFile \in Nat
          BY RunCucumberAssumption DEF IInv, FileInv, IsSequence
    <3> QED BY <1>0, <3>1 DEF NamesInv, PickleInv
  <2>2. Tagged \in SUBSET DOMAIN pickleSources BY DEF Tagged
  <2>3. /\ q \in Seq(Scenarios)
        /\ ToSet(q) = {pickleSources[i] : i \in Tagged}
        /\ \A i, j \in DOMAIN q : i < j =>
              \E k, l \in Tagged : k < l /\ q[i] = pickleSources[k] /\ q[j] = pickleSources[l]
        BY <2>1, <2>2, SelectKeeps
  <2> HIDE DEF q
  <2>4. InOrder(q) BY <2>1, <2>2, <2>3 DEF InOrder
  <2>5. Sources(q) = Chosen
    <3>1. Sources(q) = {pickleSources[i].source : i \in Tagged}
      <4>1. Sources(q) = {r.source : r \in ToSet(q)} BY DEF Sources, ToSet
      <4> QED BY <2>3, <4>1
    <3>2. \A i \in DOMAIN pickleSources :
             i \in Tagged <=> Evaluate(options.tag, [source |-> pickleSources[i].source])
          BY DEF Tagged, Evaluate, Pickle
    <3> QED BY <2>1, <2>2, <3>1, <3>2 DEF Chosen, Sources
  <2>6. InOrder(pickleSources)' /\ Sources(pickleSources)' = Chosen
        BY <1>2, <2>4, <2>5 DEF q, InOrder, Sources
  <2>7. PickleInv'
    <3>1. Chosen' = Chosen BY KeepsChosen
    <3>2. pickleSources' \in Seq(Scenarios) BY <1>2, <2>3 DEF q
    <3> QED BY <1>2, <2>6, <3>1, <3>2 DEF PickleInv, Goto, Before
  <2>8. NameInv'
    <3>1. uniqueNames' = << >> BY <1>0 DEF NamesInv, NameInv
    <3>2. Len(pickleSources') \in Nat BY <1>2, <2>3 DEF q
    <3> QED BY <1>2, <3>1, <3>2 DEF NameInv, Named, Goto, Before, Late
  <2>9. ListedInv' BY KeepsListed DEF NamesInv
  <2>10. WantedInv' /\ Identified' BY <1>2 DEF NamesInv, WantedInv, Identified, Goto
  <2> QED BY <2>7, <2>8, <2>9, <2>10 DEF NamesInv
<1> QED BY <1>1, <1>2

LEMMA MakeUniqueTestNamesNames ==
    ASSUME IInv, NamesInv, MakeUniqueTestNames
    PROVE  NamesInv'
<1> USE DEF MakeUniqueTestNames, inputVars, processVars
<1> DEFINE i == Len(uniqueNames) + 1
           s == pickleSources[i]
           seen == {made.name : made \in ToSet(uniqueNames)}
           record == [name |-> MakeUnique(GetHierarchicalTestName(s), seen), source |-> s.source]
<1>0. /\ stage = "unique" /\ stage' = stage
      /\ uniqueNames' = Append(uniqueNames, record)
      /\ Len(uniqueNames) < Len(pickleSources)
      /\ UNCHANGED << files, options, mode, wanted, listed, nextFile, pickleSources, selected >>
      BY DEF NextToName
<1>1. /\ pickleSources \in Seq(Scenarios) /\ Sources(pickleSources) = Chosen
      /\ uniqueNames \in Seq(NameRecords) /\ Named(uniqueNames)
      /\ \A k \in DOMAIN uniqueNames : uniqueNames[k].source = pickleSources[k].source
      BY <1>0 DEF NamesInv, PickleInv, NameInv
<1>2. /\ Len(uniqueNames) \in Nat /\ DOMAIN uniqueNames = 1 .. Len(uniqueNames)
      /\ Len(pickleSources) \in Nat /\ i \in DOMAIN pickleSources
      /\ s.source \in Nat \X Nat /\ s.source \in Chosen
  <2>1. /\ Len(uniqueNames) \in Nat /\ DOMAIN uniqueNames = 1 .. Len(uniqueNames)
        /\ Len(pickleSources) \in Nat /\ DOMAIN pickleSources = 1 .. Len(pickleSources)
        BY <1>1, LenProperties
  <2>2. i \in DOMAIN pickleSources BY <1>0, <2>1
  <2>3. s \in Scenarios BY <1>1, <2>2, SequenceFacts
  <2> QED BY <1>1, <2>1, <2>2, <2>3 DEF Sources, Scenarios
<1>3. seen = NamesBefore(uniqueNames, i) /\ IsFiniteSet(seen)
  <2>1. seen = {uniqueNames[k].name : k \in 1 .. Len(uniqueNames)} BY <1>2 DEF ToSet
  <2>2. i - 1 = Len(uniqueNames) BY <1>2
  <2>3. seen = NamesBefore(uniqueNames, i) BY <2>1, <2>2 DEF NamesBefore
  <2>4. IsFiniteSet(1 .. Len(uniqueNames)) BY <1>2, FS_Interval
  <2> DEFINE h == [k \in 1 .. Len(uniqueNames) |-> uniqueNames[k].name]
  <2>5. h \in Surjection(1 .. Len(uniqueNames), seen) BY <2>1 DEF Surjection
  <2> HIDE DEF h, seen
  <2> QED BY <2>3, <2>4, <2>5, FS_Surjection
<1>4. record.name \in Seq(NameParts) /\ record.name \notin seen
  <2>1. IsParsed(s.source) BY <1>2, InputTypes, LenProperties DEF Chosen, Parsed, IsParsed, IInv, FileInv
  <2>2. GetHierarchicalTestName(s) \in Seq(Parts) BY <2>1, NameType DEF IInv, FileInv
  <2>3. GetHierarchicalTestName(s) \in Seq(NameParts) BY <2>2, SeqMonotonic DEF NameParts
  <2> HIDE DEF s, seen
  <2> QED BY <1>3, <2>3, MakesUnique
<1>5. record \in NameRecords /\ record.source = s.source
      BY <1>2, <1>4 DEF NameRecords
<1>6. record.name = MakeUnique(GetHierarchicalTestName(record), NamesBefore(uniqueNames, i))
  <2>1. GetHierarchicalTestName(record) = GetHierarchicalTestName(s)
        BY DEF GetHierarchicalTestName, Pickle
  <2> QED BY <1>3, <2>1
<1> HIDE DEF record, s, seen
<1>7. /\ uniqueNames' \in Seq(NameRecords) /\ DOMAIN uniqueNames' = 1 .. i
      /\ Len(uniqueNames') = i
      /\ uniqueNames'[i] = record
      /\ \A k \in 1 .. i - 1 : uniqueNames'[k] = uniqueNames[k] /\ k \in DOMAIN uniqueNames
  <2>1. /\ Append(uniqueNames, record) \in Seq(NameRecords)
        /\ Len(Append(uniqueNames, record)) = Len(uniqueNames) + 1
        /\ DOMAIN Append(uniqueNames, record) = 1 .. Len(uniqueNames) + 1
        /\ Append(uniqueNames, record)[Len(uniqueNames) + 1] = record
        /\ \A k \in DOMAIN uniqueNames : Append(uniqueNames, record)[k] = uniqueNames[k]
        BY <1>1, <1>2, <1>5, Appended
  <2> QED BY <1>0, <1>2, <2>1
<1> HIDE DEF i
<1>8. Named(uniqueNames)'
  <2>1. \A k : GetHierarchicalTestName(uniqueNames[k])' = GetHierarchicalTestName(uniqueNames'[k])
        BY <1>0 DEF GetHierarchicalTestName, Pickle
  <2>2. ASSUME NEW k \in 1 .. i
        PROVE  NamesBefore(uniqueNames, k)' = NamesBefore(uniqueNames, k)
    <3>1. \A j \in 1 .. k - 1 : uniqueNames'[j] = uniqueNames[j]
          BY <1>2, <1>7 DEF i
    <3> QED BY <3>1 DEF NamesBefore
  <2>3. ASSUME NEW k \in 1 .. i
        PROVE  /\ uniqueNames'[k].name = MakeUnique(GetHierarchicalTestName(uniqueNames'[k]),
                                                   NamesBefore(uniqueNames, k))
               /\ uniqueNames'[k].name \notin NamesBefore(uniqueNames, k)
    <3>1. CASE k = i BY <1>3, <1>4, <1>6, <1>7, <3>1
    <3>2. CASE k # i
      <4>1. k \in 1 .. i - 1 BY <1>2, <3>2 DEF i
      <4> QED BY <1>1, <1>7, <4>1 DEF Named
    <3> QED BY <3>1, <3>2
  <2> QED BY <1>7, <2>1, <2>2, <2>3 DEF Named
<1>9. NameInv'
  <2>1. \A k \in DOMAIN uniqueNames' : uniqueNames'[k].source = pickleSources[k].source
    <3>1. \A k \in 1 .. i : k = i \/ k \in 1 .. i - 1 BY <1>2 DEF i
    <3> QED BY <1>1, <1>5, <1>7, <3>1 DEF s
  <2>2. Len(uniqueNames') <= Len(pickleSources) BY <1>0, <1>2, <1>7 DEF i
  <2> QED BY <1>0, <1>7, <1>8, <2>1, <2>2 DEF NameInv, Before, Late
<1>10. PickleInv'
  <2>1. Chosen' = Chosen BY <1>0, KeepsChosen
  <2> QED BY <1>0, <2>1, KeepsPickles DEF NamesInv, PickleInv, Before, Late
<1>11. ListedInv' BY <1>0, KeepsListed DEF NamesInv
<1>12. WantedInv' /\ Identified' BY <1>0 DEF NamesInv, WantedInv, Identified
<1> QED BY <1>9, <1>10, <1>11, <1>12 DEF NamesInv

LEMMA ListScenariosNames ==
    ASSUME NamesInv, ListScenarios
    PROVE  NamesInv'
<1> USE DEF ListScenarios, AllNamed, End, inputVars, loadVars
<1>1. /\ stage = "unique" /\ mode = "list" /\ mode' = mode /\ stage' = "over"
      /\ listed' = uniqueNames /\ Len(uniqueNames) = Len(pickleSources)
      /\ UNCHANGED << files, options, pickleSources, uniqueNames >>
      OBVIOUS
<1>2. /\ pickleSources \in Seq(Scenarios) /\ InOrder(pickleSources) /\ Sources(pickleSources) = Chosen
      /\ uniqueNames \in Seq(NameRecords) /\ Named(uniqueNames)
      /\ \A k \in DOMAIN uniqueNames : uniqueNames[k].source = pickleSources[k].source
      BY <1>1 DEF NamesInv, PickleInv, NameInv
<1>3. InOrder(uniqueNames) /\ Sources(uniqueNames) = Chosen
  <2>1. DOMAIN uniqueNames = DOMAIN pickleSources BY <1>1, <1>2, LenProperties
  <2> QED BY <1>2, <2>1 DEF InOrder, Sources
<1>4. ListedInv'
  <2>1. Chosen' = Chosen BY <1>1, KeepsChosen
  <2>2. Named(listed)'
    <3>1. \A k : GetHierarchicalTestName(listed[k])' = GetHierarchicalTestName(uniqueNames[k])
          BY <1>1 DEF GetHierarchicalTestName, Pickle
    <3>2. \A k : NamesBefore(listed, k)' = NamesBefore(uniqueNames, k)
          BY <1>1 DEF NamesBefore
    <3> QED BY <1>1, <1>2, <3>1, <3>2 DEF Named
  <2>3. InOrder(listed)' /\ Sources(listed)' = Chosen
        BY <1>1, <1>3 DEF InOrder, Sources
  <2> QED BY <1>1, <1>2, <2>1, <2>2, <2>3 DEF ListedInv
<1>5. PickleInv' BY <1>1, KeepsPickles DEF NamesInv, PickleInv, Before, Late
<1>6. NameInv' BY <1>1, KeepsNamed DEF NamesInv, NameInv, Before, Late
<1>7. WantedInv' /\ Identified' BY <1>1 DEF WantedInv, Identified
<1> QED BY <1>4, <1>5, <1>6, <1>7 DEF NamesInv

(* The process of a test makes the names discovery has listed.             *)
LEMMA NamesAgain ==
    ASSUME NamesInv, AllNamed, mode = "test"
    PROVE  uniqueNames = listed /\ wanted \in ToSet(uniqueNames)
<1> USE DEF AllNamed
<1>1. /\ pickleSources \in Seq(Scenarios) /\ InOrder(pickleSources) /\ Sources(pickleSources) = Chosen
      /\ uniqueNames \in Seq(NameRecords) /\ Named(uniqueNames)
      /\ \A k \in DOMAIN uniqueNames : uniqueNames[k].source = pickleSources[k].source
      BY DEF NamesInv, PickleInv, NameInv
<1>2. wanted \in ToSet(listed) BY DEF NamesInv, WantedInv
<1>3. /\ listed \in Seq(NameRecords) /\ Named(listed)
      /\ InOrder(listed) /\ Sources(listed) = Chosen
      BY <1>2 DEF NamesInv, ListedInv, ToSet
<1>4. DOMAIN uniqueNames = DOMAIN pickleSources BY <1>1, LenProperties
<1>5. /\ DOMAIN pickleSources = DOMAIN listed
      /\ \A k \in DOMAIN pickleSources : pickleSources[k].source = listed[k].source
  <2>1. \A r \in Scenarios \union NameRecords : r.source \in Nat \X Nat
        BY DEF Scenarios, NameRecords
  <2> QED BY <1>1, <1>3, <2>1, SameOrder
<1>6. uniqueNames = listed BY <1>1, <1>3, <1>4, <1>5, SameNames
<1> QED BY <1>2, <1>6

LEMMA OrderPicklesNames ==
    ASSUME NamesInv, OrderPickles
    PROVE  NamesInv'
<1> USE DEF OrderPickles, inputVars, processVars
<1> DEFINE matching == {i \in DOMAIN pickleSources : FilterByNameRegex(pickleSources[i])}
           chosen   == Select(pickleSources, matching)
<1>0. /\ stage = "unique" /\ stage' = "parameters" /\ Len(uniqueNames) = Len(pickleSources)
      /\ UNCHANGED << files, options, mode, wanted, listed, nextFile, pickleSources, uniqueNames >>
      BY DEF AllNamed, Goto
<1>1. pickleSources \in Seq(Scenarios) BY DEF NamesInv, PickleInv
<1>2. ToSet(selected') = {pickleSources[i] : i \in matching}
  <2>1. matching \in SUBSET DOMAIN pickleSources OBVIOUS
  <2>2. selected' = IF options.reverse THEN Reverse(chosen) ELSE chosen OBVIOUS
  <2> HIDE DEF matching
  <2>3. chosen \in Seq(Scenarios) /\ ToSet(chosen) = {pickleSources[i] : i \in matching}
        BY <1>1, <2>1, SelectKeeps
  <2> HIDE DEF chosen
  <2>4. ToSet(Reverse(chosen)) = ToSet(chosen) BY <2>3, ReverseKeeps
  <2> QED BY <2>2, <2>3, <2>4
<1>3. PickleInv'
  <2>1. Chosen' = Chosen BY <1>0, KeepsChosen
  <2> QED BY <1>0, <2>1, KeepsPickles DEF NamesInv, PickleInv, Before, Late
<1>4. NameInv' BY <1>0, KeepsNamed DEF NamesInv, NameInv, Before, Late
<1>5. ListedInv' BY <1>0, KeepsListed DEF NamesInv
<1>6. WantedInv' BY <1>0 DEF NamesInv, WantedInv
<1>7. ASSUME mode = "test"
      PROVE  /\ \E s \in ToSet(selected') : s.source = wanted.source
             /\ \A s \in ToSet(selected') : s.source = wanted.source \/ Pickle(s).name = wanted.name
  <2>1. wanted \in ToSet(uniqueNames) /\ NameRegexes = {wanted.name}
        BY <1>7, NamesAgain DEF NameRegexes
  <2>2. /\ uniqueNames \in Seq(NameRecords) /\ Named(uniqueNames)
        /\ \A k \in DOMAIN uniqueNames : uniqueNames[k].source = pickleSources[k].source
        BY <1>0 DEF NamesInv, NameInv
  <2>3. DOMAIN uniqueNames = DOMAIN pickleSources BY <1>0, <1>1, <2>2, LenProperties
  <2>4. \E s \in ToSet(selected') : s.source = wanted.source
    <3>1. PICK k \in DOMAIN uniqueNames : uniqueNames[k] = wanted BY <2>1 DEF ToSet
    <3>2. FilterByNameRegex(pickleSources[k])
          BY <2>1, <2>2, <3>1 DEF FilterByNameRegex
    <3>3. k \in matching BY <2>3, <3>2
    <3>4. pickleSources[k].source = wanted.source BY <2>2, <3>1
    <3> HIDE DEF matching
    <3> QED BY <1>2, <3>3, <3>4
  <2>5. ASSUME NEW s \in ToSet(selected'), Pickle(s).name # wanted.name
        PROVE  s.source = wanted.source
    <3>1. FilterByNameRegex(s) BY <1>2
    <3>2. PICK made \in ToSet(uniqueNames) : made.source = s.source /\ made.name = wanted.name
          BY <2>1, <2>5, <3>1 DEF FilterByNameRegex
    <3>3. made = wanted BY <2>1, <2>2, <3>2, NamesDiffer DEF ToSet
    <3> QED BY <3>2, <3>3
  <2> QED BY <2>4, <2>5
<1>8. Identified'
      BY <1>0, <1>7 DEF Identified, Pickle
<1> QED BY <1>3, <1>4, <1>5, <1>6, <1>8 DEF NamesInv

LEMMA DiscoveredTestNames ==
    ASSUME NamesInv, ids \in Nat, DiscoveredTest, files \in Inputs
    PROVE  NamesInv'
<1> USE DEF DiscoveredTest, inputVars
<1>0. /\ stage' = "start" /\ nextFile' = 1 /\ pickleSources' = << >> /\ uniqueNames' = << >>
      /\ wanted' \in ToSet(listed) /\ UNCHANGED << files, options, listed >>
      OBVIOUS
<1>1. PickleInv' BY <1>0 DEF PickleInv, InOrder, Before, Late
<1>2. NameInv' BY <1>0 DEF NameInv, Named, Before, Late
<1>3. ListedInv' BY <1>0, KeepsListed DEF NamesInv
<1>4. WantedInv' /\ Identified' BY <1>0 DEF WantedInv, Identified
<1> QED BY <1>1, <1>2, <1>3, <1>4 DEF NamesInv

(* What comes after the choice of scenarios leaves the names alone.        *)
LEMMA RegisterNames ==
    ASSUME IInv, NamesInv, Register, ~ OrderPickles
    PROVE  NamesInv'
<1>1. /\ UNCHANGED << files, options, mode, wanted, listed, nextFile,
                     pickleSources, uniqueNames, selected >>
      /\ stage \in Late
      /\ stage' \in Late \union {"over"}
  <2> USE DEF Goto, End, Late, inputVars, processVars, loadVars
  <2>1. CASE LoadParameters BY <2>1 DEF LoadParameters
  <2>2. CASE LoadIds BY <2>2 DEF LoadIds
  <2>3. CASE LoadSteps BY <2>3 DEF LoadSteps
  <2>4. CASE LoadHooks BY <2>4 DEF LoadHooks
  <2>5. CASE EmitStepDefinitionsAndHooks BY <2>5 DEF EmitStepDefinitionsAndHooks
  <2>6. CASE AssembleTestCase BY <2>6 DEF AssembleTestCase
  <2>7. CASE FailBeforeAll BY <2>7 DEF FailBeforeAll
  <2>8. CASE RunTests BY <2>8 DEF RunTests
  <2> QED BY <2>1, <2>2, <2>3, <2>4, <2>5, <2>6, <2>7, <2>8 DEF Register
<1> QED BY <1>1, NamesUntouched

LEMMA NamesInductive ==
    IInv /\ ids \in Nat /\ NamesInv /\ [Next]_vars => NamesInv'
<1> SUFFICES ASSUME IInv, ids \in Nat, NamesInv, [Next]_vars PROVE NamesInv' OBVIOUS
<1>1. CASE ParseCommandLine \/ EnableFormatters \/ CreateNameRegexStrategies
      BY <1>1, BeforeFilesNames
<1>2. CASE CollectPickles BY <1>2, CollectPicklesNames
<1>3. CASE LoadPickles BY <1>3, LoadPicklesNames
<1>4. CASE MakeUniqueTestNames BY <1>4, MakeUniqueTestNamesNames
<1>5. CASE ListScenarios BY <1>5, ListScenariosNames
<1>6. CASE OrderPickles BY <1>6, OrderPicklesNames
<1>7. CASE Register /\ ~ OrderPickles BY <1>7, RegisterNames
<1>8. CASE DiscoveredTest BY <1>8, DiscoveredTestNames DEF IInv, FileInv
<1>9. CASE UNCHANGED vars
      BY <1>9, NamesUntouched DEF vars, inputVars, processVars, loadVars
<1> QED BY <1>1, <1>2, <1>3, <1>4, <1>5, <1>6, <1>7, <1>8, <1>9 DEF Next, Register

-----------------------------------------------------------------------------
(* What is registered, announced and assembled                             *)

Known(at) == registered[at].needs \in Host \union Custom \union {Unset}

Entry(at) == [at |-> at, id |-> definitionIds[at]]

FoundSteps == {Entry(at) : at \in {d \in Steps : Known(d)}}

Ran == stage = "run" \/ testCases # << >>

RegisterInv ==
    /\ registered \in Programs
    /\ ids \in Nat
    /\ mode = "list" \/ stage \notin {"ids", "steps", "hooks", "emit", "run", "over"} =>
          parameters = Host
    /\ stage \in {"ids", "steps", "hooks", "emit"} \/ Ran => parameters = Host \union Custom
    /\ stage \in {"steps", "hooks", "emit"} \/ Ran => definitionIds \in [DOMAIN registered -> Nat]
    /\ stage \in {"hooks", "emit"} \/ Ran =>
          stepRegistry \in Seq(FoundSteps) /\ ToSet(stepRegistry) = FoundSteps
    /\ stage = "emit" \/ Ran => hookRegistry = {Entry(at) : at \in Hooks}

AnnouncedInv ==
    /\ selected \in Seq(Scenarios)
    /\ mode = "list" \/ stage \notin Late \union {"over"} => selected = << >>
    /\ \A s \in ToSet(pickleSources) \union ToSet(selected) : << "pickle", s.id >> \in announced
    /\ stage \notin {"run", "over"} =>
          \A m \in announced : m[1] \in LoadKinds \union {"parameterType"}
    /\ Ran =>
          /\ \A at \in Steps : Known(at) # (<< "undefinedParameterType", at >> \in announced)
          /\ \A entry \in FoundSteps : << "stepDefinition", entry.id >> \in announced
          /\ \A entry \in hookRegistry : << "hook", entry.id >> \in announced

CasesInv ==
    /\ stage \notin {"run", "over"} => testCases = << >>
    /\ mode = "list" => testCases = << >>
    /\ testCases \in Seq({TestCaseOf(s) : s \in ToSet(selected)})
    /\ Len(testCases) <= Len(selected)
    /\ \A n \in DOMAIN testCases : testCases[n] = TestCaseOf(selected[n])

CodeInv == RegisterInv /\ AnnouncedInv /\ CasesInv

-----------------------------------------------------------------------------
(* What a test case is assembled from                                      *)

Registered ==
    /\ registered \in Programs
    /\ definitionIds \in [DOMAIN registered -> Nat]
    /\ stepRegistry \in Seq(FoundSteps) /\ ToSet(stepRegistry) = FoundSteps
    /\ hookRegistry = {Entry(at) : at \in Hooks}

LEMMA ProgramTypes ==
    ASSUME registered \in Programs
    PROVE  /\ Len(registered) \in Nat /\ DOMAIN registered = 1 .. Len(registered)
           /\ Steps \subseteq DOMAIN registered /\ Hooks \subseteq DOMAIN registered
           /\ IsFiniteSet(Hooks)
<1>1. registered \in Seq(ToSet(registered)) BY RunCucumberAssumption DEF IsSequence
<1>2. Len(registered) \in Nat /\ DOMAIN registered = 1 .. Len(registered) BY <1>1, LenProperties
<1>3. Hooks \in SUBSET (1 .. Len(registered)) BY <1>2 DEF Hooks
<1>4. IsFiniteSet(1 .. Len(registered)) BY <1>2, FS_Interval
<1>5. IsFiniteSet(Hooks) BY <1>3, <1>4, FS_Subset
<1> QED BY <1>2, <1>5 DEF Steps, Hooks

(* The hooks found are registered ones.                                    *)
LEMMA FoundHooks ==
    ASSUME Registered, NEW kind, NEW s
    PROVE  /\ FindIds(kind, s) \in Seq(Nat)
           /\ \A id \in ToSet(FindIds(kind, s)) : \E entry \in hookRegistry : entry.id = id
<1> DEFINE found == {entry.id : entry \in
                       {e \in hookRegistry : /\ registered[e.at].kind = kind
                                             /\ Evaluate(registered[e.at].tag, s)}}
           before == {m \in found \X found : TextBefore(Digits[m[1]], Digits[m[2]])}
           all == {definitionIds[at] : at \in Hooks}
<1>1. found \in SUBSET all BY DEF Registered, Entry
<1>2. all \in SUBSET Nat BY ProgramTypes DEF Registered
<1>3. IsFiniteSet(all)
  <2> DEFINE h == [at \in Hooks |-> definitionIds[at]]
  <2>1. h \in Surjection(Hooks, all) BY DEF Surjection
  <2>2. IsFiniteSet(Hooks) BY ProgramTypes DEF Registered
  <2> HIDE DEF h, all
  <2> QED BY <2>1, <2>2, FS_Surjection
<1>4. \A id \in found : \E entry \in hookRegistry : entry.id = id OBVIOUS
<1>5. FindIds(kind, s) = Ordered(found, before) BY DEF FindIds
<1> HIDE DEF found, all
<1>6. IsFiniteSet(found) /\ found \in SUBSET Nat BY <1>1, <1>2, <1>3, FS_Subset
<1>7. StrictOrder(found, before) BY <1>6, TextOrder
<1> HIDE DEF before
<1>8. Ordered(found, before) \in Seq(found) /\ ToSet(Ordered(found, before)) = found
      BY <1>6, <1>7, OrderedLists
<1> QED BY <1>4, <1>5, <1>6, <1>8, SeqMonotonic

(* The steps found are all that have the text and whose types are known.   *)
LEMMA MatchedSteps ==
    ASSUME Registered, NEW text
    PROVE  ToSet(MatchStepDefinitions(text)) =
              {definitionIds[at] : at \in {d \in Steps : registered[d].text = text /\ Known(d)}}
<1> DEFINE places == {n \in DOMAIN stepRegistry : registered[stepRegistry[n].at].text = text}
           found  == Select(stepRegistry, places)
<1>1. found \in Seq(FoundSteps) /\ ToSet(found) = {stepRegistry[n] : n \in places}
  <2>1. stepRegistry \in Seq(FoundSteps) /\ places \in SUBSET DOMAIN stepRegistry
        BY DEF Registered
  <2> HIDE DEF places
  <2> QED BY <2>1, SelectKeeps
<1>2. MatchStepDefinitions(text) = [n \in DOMAIN found |-> found[n].id]
      BY DEF MatchStepDefinitions
<1>3. ToSet(found) = {e \in FoundSteps : registered[e.at].text = text}
      BY <1>1 DEF Registered, ToSet
<1> HIDE DEF found
<1>4. ToSet(MatchStepDefinitions(text)) = {e.id : e \in ToSet(found)}
      BY <1>2 DEF ToSet
<1>5. {e \in FoundSteps : registered[e.at].text = text}
        = {Entry(at) : at \in {d \in Steps : registered[d].text = text /\ Known(d)}}
      BY DEF FoundSteps, Entry
<1>6. \A at : Entry(at).id = definitionIds[at] BY DEF Entry
<1> QED BY <1>3, <1>4, <1>5, <1>6

LEMMA AssembledCase ==
    ASSUME Registered, NEW s
    PROVE  LET testCase == TestCaseOf(s) IN
           /\ testCase.pickle = s.id
           /\ \A id \in ToSet(testCase.before) \union ToSet(testCase.after) :
                 \E entry \in hookRegistry : entry.id = id
           /\ DOMAIN testCase.steps = DOMAIN Pickle(s).steps
           /\ \A i \in DOMAIN testCase.steps :
                 ToSet(testCase.steps[i]) =
                    {definitionIds[at] : at \in
                        {d \in Steps : registered[d].text = Pickle(s).steps[i] /\ Known(d)}}
<1>1. ToSet(Reverse(FindIds("after", s))) = ToSet(FindIds("after", s))
      BY FoundHooks, ReverseKeeps
<1>2. \A id \in ToSet(FindIds("before", s)) \union ToSet(Reverse(FindIds("after", s))) :
         \E entry \in hookRegistry : entry.id = id
      BY <1>1, FoundHooks
<1>3. \A i \in DOMAIN Pickle(s).steps :
         ToSet(MatchStepDefinitions(Pickle(s).steps[i])) =
            {definitionIds[at] : at \in
                {d \in Steps : registered[d].text = Pickle(s).steps[i] /\ Known(d)}}
      BY MatchedSteps
<1> QED BY <1>2, <1>3 DEF TestCaseOf

-----------------------------------------------------------------------------
LEMMA RanIsRegistered ==
    ASSUME CodeInv, Ran
    PROVE  Registered
BY DEF CodeInv, RegisterInv, Registered

LEMMA CasesResolve == ASSUME CodeInv PROVE ReferencesResolve
<1> SUFFICES ASSUME NEW n \in DOMAIN testCases
             PROVE  LET testCase == testCases[n] IN
                    /\ << "pickle", testCase.pickle >> \in announced
                    /\ \A id \in ToSet(testCase.before) \union ToSet(testCase.after) :
                          << "hook", id >> \in announced
                    /\ \A i \in DOMAIN testCase.steps : \A id \in ToSet(testCase.steps[i]) :
                          << "stepDefinition", id >> \in announced
    BY DEF ReferencesResolve, ToSet
<1>1. Ran BY DEF Ran
<1>2. Registered BY <1>1, RanIsRegistered
<1>3. testCases[n] = TestCaseOf(selected[n]) /\ selected[n] \in ToSet(selected)
  <2>1. n \in DOMAIN selected
    <3>1. DOMAIN testCases = 1 .. Len(testCases) /\ Len(testCases) \in Nat
          BY LenProperties DEF CodeInv, CasesInv
    <3>2. DOMAIN selected = 1 .. Len(selected) /\ Len(selected) \in Nat
          BY LenProperties DEF CodeInv, AnnouncedInv
    <3> QED BY <3>1, <3>2 DEF CodeInv, CasesInv
  <2> QED BY <2>1 DEF CodeInv, CasesInv, ToSet
<1>4. << "pickle", selected[n].id >> \in announced
      BY <1>3 DEF CodeInv, AnnouncedInv
<1>5. \A entry \in hookRegistry : << "hook", entry.id >> \in announced
      BY <1>1 DEF CodeInv, AnnouncedInv
<1>6. \A at \in {d \in Steps : Known(d)} : << "stepDefinition", definitionIds[at] >> \in announced
  <2>1. \A entry \in FoundSteps : << "stepDefinition", entry.id >> \in announced
        BY <1>1 DEF CodeInv, AnnouncedInv
  <2>2. \A at : Entry(at).id = definitionIds[at] BY DEF Entry
  <2> QED BY <2>1, <2>2 DEF FoundSteps
<1>7. /\ testCases[n].pickle = selected[n].id
      /\ \A id \in ToSet(testCases[n].before) \union ToSet(testCases[n].after) :
            \E entry \in hookRegistry : entry.id = id
      /\ \A i \in DOMAIN testCases[n].steps :
            ToSet(testCases[n].steps[i]) \subseteq
               {definitionIds[at] : at \in {d \in Steps : Known(d)}}
  <2> DEFINE testCase == TestCaseOf(selected[n])
  <2>1. /\ testCase.pickle = selected[n].id
        /\ \A id \in ToSet(testCase.before) \union ToSet(testCase.after) :
              \E entry \in hookRegistry : entry.id = id
        /\ \A i \in DOMAIN testCase.steps :
              ToSet(testCase.steps[i]) =
                 {definitionIds[at] : at \in
                    {d \in Steps : registered[d].text = Pickle(selected[n]).steps[i] /\ Known(d)}}
        BY <1>2, AssembledCase
  <2>2. testCases[n] = testCase BY <1>3
  <2> HIDE DEF testCase
  <2> QED BY <2>1, <2>2
<1> QED BY <1>4, <1>5, <1>6, <1>7

LEMMA CasesMatch == ASSUME CodeInv PROVE StepsFindTheirDefinitions
<1> SUFFICES ASSUME NEW n \in DOMAIN testCases
             PROVE  /\ \A i \in DOMAIN Pickle(selected[n]).steps :
                          ToSet(testCases[n].steps[i]) =
                             {definitionIds[at] : at \in
                                {d \in Steps : registered[d].text = Pickle(selected[n]).steps[i]
                                               /\ Known(d)}}
                    /\ \A at \in Steps :
                          Known(at) # (<< "undefinedParameterType", at >> \in announced)
    BY DEF StepsFindTheirDefinitions, Known
<1>1. Ran BY DEF Ran
<1>2. Registered BY <1>1, RanIsRegistered
<1>3. testCases[n] = TestCaseOf(selected[n]) BY DEF CodeInv, CasesInv
<1>4. \A at \in Steps : Known(at) # (<< "undefinedParameterType", at >> \in announced)
      BY <1>1 DEF CodeInv, AnnouncedInv
<1>5. /\ DOMAIN testCases[n].steps = DOMAIN Pickle(selected[n]).steps
      /\ \A i \in DOMAIN testCases[n].steps :
            ToSet(testCases[n].steps[i]) =
               {definitionIds[at] : at \in
                  {d \in Steps : registered[d].text = Pickle(selected[n]).steps[i] /\ Known(d)}}
  <2> DEFINE testCase == TestCaseOf(selected[n])
  <2>1. /\ DOMAIN testCase.steps = DOMAIN Pickle(selected[n]).steps
        /\ \A i \in DOMAIN testCase.steps :
              ToSet(testCase.steps[i]) =
                 {definitionIds[at] : at \in
                    {d \in Steps : registered[d].text = Pickle(selected[n]).steps[i] /\ Known(d)}}
        BY <1>2, AssembledCase
  <2>2. testCases[n] = testCase BY <1>3
  <2> HIDE DEF testCase
  <2> QED BY <2>1, <2>2
<1> QED BY <1>4, <1>5

-----------------------------------------------------------------------------
(* Steps that register and assemble nothing                                *)

LEMMA KeepsEntries ==
    ASSUME UNCHANGED << registered, definitionIds >>
    PROVE  FoundSteps' = FoundSteps /\ Steps' = Steps /\ Hooks' = Hooks
           /\ \A at : Entry(at)' = Entry(at) /\ Known(at)' = Known(at)
BY DEF FoundSteps, Steps, Hooks, Entry, Known

Early == Before \union {"parse", "unique"}

(* Before anything is registered.                                          *)
LEMMA EarlyCode ==
    ASSUME CodeInv, stage \in Early, stage' \in Early \union {"parameters", "over"},
           mode' = mode, ids' \in Nat,
           UNCHANGED << registered, parameters, definitionIds, stepRegistry, hookRegistry, testCases >>,
           selected' \in Seq(Scenarios),
           mode = "list" \/ stage' \notin {"parameters", "over"} => selected' = << >>,
           \A s \in ToSet(pickleSources') \union ToSet(selected') : << "pickle", s.id >> \in announced',
           stage' # "over" => \A m \in announced' : m[1] \in LoadKinds \union {"parameterType"}
    PROVE  CodeInv'
<1> USE DEF CodeInv, Early, Before
<1>1. testCases = << >> /\ testCases' = << >> BY DEF CasesInv
<1>2. RegisterInv' BY <1>1 DEF RegisterInv, Ran
<1>3. AnnouncedInv' BY <1>1 DEF AnnouncedInv, Ran, Late
<1>4. CasesInv'
  <2>1. Len(selected') \in Nat BY LenProperties
  <2> QED BY <1>1, <2>1 DEF CasesInv
<1> QED BY <1>2, <1>3, <1>4

LEMMA InitialCode == Init => CodeInv
<1> SUFFICES ASSUME Init PROVE CodeInv OBVIOUS
<1> USE DEF Init, Fresh
<1>1. RegisterInv BY DEF RegisterInv, Ran
<1>2. AnnouncedInv BY DEF AnnouncedInv, Ran, Late, ToSet
<1>3. CasesInv BY DEF CasesInv
<1> QED BY <1>1, <1>2, <1>3 DEF CodeInv

LEMMA EarlyFacts ==
    ASSUME IInv, NamesInv, CodeInv, stage \in Early
    PROVE  /\ ids \in Nat /\ selected = << >> /\ ToSet(selected) = {}
           /\ \A s \in ToSet(pickleSources) : << "pickle", s.id >> \in announced
           /\ \A m \in announced : m[1] \in LoadKinds \union {"parameterType"}
<1>1. selected = << >> BY DEF CodeInv, AnnouncedInv, Early, Before, Late
<1> QED BY <1>1 DEF CodeInv, RegisterInv, AnnouncedInv, Early, Before, ToSet

(* Whatever leaves the scenarios and the messages alone.                   *)
LEMMA QuietCode ==
    ASSUME IInv, NamesInv, CodeInv,
           ParseCommandLine \/ EnableFormatters \/ CreateNameRegexStrategies
             \/ MakeUniqueTestNames \/ ListScenarios
    PROVE  CodeInv'
<1> USE DEF ParseCommandLine, EnableFormatters, CreateNameRegexStrategies, MakeUniqueTestNames,
            ListScenarios, AllNamed, Goto, End, inputVars, processVars, loadVars, codeVars
<1>1. /\ stage \in Early /\ stage' \in Early \union {"over"} /\ mode' = mode
      /\ UNCHANGED << registered, parameters, definitionIds, stepRegistry, hookRegistry,
                      testCases, ids, selected, pickleSources, announced >>
      BY DEF Early, Before
<1>2. /\ ids \in Nat /\ selected = << >> /\ ToSet(selected) = {}
      /\ \A s \in ToSet(pickleSources) : << "pickle", s.id >> \in announced
      /\ \A m \in announced : m[1] \in LoadKinds \union {"parameterType"}
      BY <1>1, EarlyFacts
<1>3. selected' \in Seq(Scenarios) BY <1>1, <1>2
<1> QED BY <1>1, <1>2, <1>3, EarlyCode

LEMMA CollectPicklesCode ==
    ASSUME IInv, NamesInv, CodeInv, CollectPickles
    PROVE  CodeInv'
<1> USE DEF CollectPickles, inputVars, processVars, codeVars
<1>0. /\ files \in Inputs /\ nextFile \in DOMAIN files /\ stage = "parse" /\ mode' = mode
      /\ stage \in Early /\ stage' \in {"parse", "over"}
      /\ UNCHANGED << registered, parameters, definitionIds, stepRegistry, hookRegistry,
                      testCases, selected >>
      BY RunCucumberAssumption DEF IInv, FileInv, Early, End, IsSequence
<1>1. /\ ids \in Nat /\ selected = << >> /\ ToSet(selected) = {}
      /\ \A s \in ToSet(pickleSources) : << "pickle", s.id >> \in announced
      /\ \A m \in announced : m[1] \in LoadKinds \union {"parameterType"}
      BY <1>0, EarlyFacts
<1>2. /\ ids' \in Nat
      /\ \A s \in ToSet(pickleSources') : << "pickle", s.id >> \in announced'
      /\ \A m \in announced' : m[1] \in LoadKinds \union {"parameterType"}
  <2>1. CASE UNCHANGED << ids, pickleSources, announced >>
        BY <1>1, <2>1
  <2>2. CASE FailsToParse(nextFile)
    <3>1. files[nextFile].nodes \in Nat BY <1>0, InputTypes
    <3>2. UNCHANGED pickleSources
          /\ ids' = ids + files[nextFile].nodes
          /\ announced' = announced \union {<< "source", nextFile >>, << "parseError", nextFile >>}
          BY <2>2 DEF FailsToParse
    <3> QED BY <1>1, <3>1, <3>2 DEF LoadKinds
  <2>3. CASE ParsesTo(nextFile)
    <3> DEFINE q == Compile(nextFile, ids + files[nextFile].nodes)
               pickles == {<< "pickle", q[i].id >> : i \in DOMAIN q}
    <3>1. /\ files[nextFile].nodes \in Nat
          /\ IdsUpTo(nextFile, Len(files[nextFile].pickles)) \in Nat
      <4>1. Len(files[nextFile].pickles) \in Nat BY <1>0, InputTypes, LenProperties
      <4>2. Len(files[nextFile].pickles) \in 0 .. Len(files[nextFile].pickles) BY <4>1
      <4> QED BY <1>0, <4>2, InputTypes, IdsAreCounted
    <3>2. /\ pickleSources' = pickleSources \o q
          /\ ids' = ids + files[nextFile].nodes + IdsUpTo(nextFile, Len(files[nextFile].pickles))
          /\ announced' = announced \union {<< "source", nextFile >>, << "document", nextFile >>}
                                    \union pickles
          BY <2>3 DEF ParsesTo
    <3>3. q \in Seq(Scenarios) /\ pickleSources \in Seq(Scenarios)
          BY <1>0, <1>1, <3>1, CompiledPickles DEF NamesInv, PickleInv
    <3>4. \A m \in pickles : m[1] = "pickle" OBVIOUS
    <3>5. \A s \in ToSet(q) : << "pickle", s.id >> \in pickles BY DEF ToSet
    <3> HIDE DEF q, pickles
    <3>6. \A s \in ToSet(pickleSources \o q) : s \in ToSet(pickleSources) \/ s \in ToSet(q)
          BY <3>3, ConcatElements
    <3> QED BY <1>1, <3>1, <3>2, <3>4, <3>5, <3>6 DEF LoadKinds
  <2> QED BY <2>1, <2>2, <2>3
<1>3. selected' \in Seq(Scenarios) BY <1>0, <1>1
<1>4. ToSet(selected') = {} BY <1>0, <1>1
<1> QED BY <1>0, <1>1, <1>2, <1>3, <1>4, EarlyCode DEF Early

LEMMA LoadPicklesCode ==
    ASSUME IInv, NamesInv, CodeInv, LoadPickles
    PROVE  CodeInv'
<1> USE DEF LoadPickles, inputVars, processVars, codeVars
<1>0. /\ stage \in Early /\ stage' \in {"unique", "over"} /\ mode' = mode
      /\ UNCHANGED << registered, parameters, definitionIds, stepRegistry, hookRegistry,
                      testCases, selected, ids, announced >>
      BY DEF Early, Goto, End
<1>1. /\ ids \in Nat /\ selected = << >> /\ ToSet(selected) = {}
      /\ \A s \in ToSet(pickleSources) : << "pickle", s.id >> \in announced
      /\ \A m \in announced : m[1] \in LoadKinds \union {"parameterType"}
      BY <1>0, EarlyFacts
<1>2. \A s \in ToSet(pickleSources') : << "pickle", s.id >> \in announced'
  <2>1. pickleSources \in Seq(Scenarios) /\ Tagged \in SUBSET DOMAIN pickleSources
        BY DEF NamesInv, PickleInv, Tagged
  <2>2. ToSet(Select(pickleSources, Tagged)) = {pickleSources[i] : i \in Tagged}
        BY <2>1, SelectKeeps
  <2>3. ToSet(pickleSources') \subseteq ToSet(pickleSources)
        BY <2>1, <2>2 DEF ToSet
  <2> QED BY <1>0, <1>1, <2>3
<1>3. selected' \in Seq(Scenarios) /\ ToSet(selected') = {} BY <1>0, <1>1
<1> QED BY <1>0, <1>1, <1>2, <1>3, EarlyCode DEF Early

LEMMA OrderPicklesCode ==
    ASSUME IInv, NamesInv, CodeInv, OrderPickles
    PROVE  CodeInv'
<1> USE DEF OrderPickles, inputVars, processVars, codeVars
<1> DEFINE matching == {i \in DOMAIN pickleSources : FilterByNameRegex(pickleSources[i])}
           chosen   == Select(pickleSources, matching)
<1>0. /\ stage \in Early /\ stage' = "parameters" /\ mode' = mode /\ mode # "list"
      /\ UNCHANGED << registered, parameters, definitionIds, stepRegistry, hookRegistry,
                      testCases, ids, announced, pickleSources >>
      BY DEF Early, AllNamed, Goto
<1>1. /\ ids \in Nat
      /\ \A s \in ToSet(pickleSources) : << "pickle", s.id >> \in announced
      /\ \A m \in announced : m[1] \in LoadKinds \union {"parameterType"}
      BY <1>0, EarlyFacts
<1>2. selected' \in Seq(Scenarios) /\ ToSet(selected') \subseteq ToSet(pickleSources)
  <2>1. pickleSources \in Seq(Scenarios) /\ matching \in SUBSET DOMAIN pickleSources
        BY DEF NamesInv, PickleInv
  <2>2. selected' = IF options.reverse THEN Reverse(chosen) ELSE chosen OBVIOUS
  <2> HIDE DEF matching
  <2>3. chosen \in Seq(Scenarios) /\ ToSet(chosen) \subseteq ToSet(pickleSources)
    <3>1. chosen \in Seq(Scenarios) /\ ToSet(chosen) = {pickleSources[i] : i \in matching}
          BY <2>1, SelectKeeps
    <3> QED BY <2>1, <3>1 DEF ToSet
  <2> HIDE DEF chosen
  <2> QED BY <2>2, <2>3, ReverseKeeps
<1> QED BY <1>0, <1>1, <1>2, EarlyCode

-----------------------------------------------------------------------------
(* Registration and assembly                                               *)

(* The test cases are none, and a step that keeps it so keeps CasesInv.    *)
LEMMA NoCases ==
    ASSUME CodeInv, UNCHANGED << testCases, selected >>, stage \notin {"run", "over"}
    PROVE  testCases = << >> /\ CasesInv'
<1>1. testCases = << >> BY DEF CodeInv, CasesInv
<1>2. Len(selected) \in Nat BY LenProperties DEF CodeInv, AnnouncedInv
<1> QED BY <1>1, <1>2 DEF CasesInv

LEMMA LoadParametersCode ==
    ASSUME CodeInv, ListInv, LoadParameters
    PROVE  CodeInv'
<1> USE DEF LoadParameters, Goto, inputVars, processVars, loadVars
<1>1. testCases = << >> /\ CasesInv' BY NoCases
<1>2. mode # "list" BY DEF ListInv, Before
<1>3. RegisterInv' BY <1>1, <1>2 DEF CodeInv, RegisterInv, Ran
<1>4. AnnouncedInv' BY <1>1 DEF CodeInv, AnnouncedInv, Ran, Late
<1> QED BY <1>1, <1>3, <1>4 DEF CodeInv

LEMMA LoadIdsCode ==
    ASSUME CodeInv, ListInv, LoadIds
    PROVE  CodeInv'
<1> USE DEF LoadIds, Goto, inputVars, processVars, loadVars
<1>1. testCases = << >> /\ CasesInv' BY NoCases
<1>2. mode # "list" BY DEF ListInv, Before
<1>3. Cardinality(EmittedParameters) \in Nat
  <2>1. IsFiniteSet(parameters)
    <3>1. parameters = Host \union Custom BY DEF CodeInv, RegisterInv
    <3> QED BY <3>1, RunCucumberAssumption, FS_Union
  <2> DEFINE h == [p \in parameters |-> << "parameterType", p >>]
  <2>2. h \in Surjection(parameters, EmittedParameters) BY DEF Surjection, EmittedParameters
  <2> HIDE DEF h
  <2> QED BY <2>1, <2>2, FS_Surjection, FS_CardinalityType
<1>4. Len(registered) \in Nat /\ DOMAIN registered = 1 .. Len(registered)
      BY ProgramTypes DEF CodeInv, RegisterInv
<1>5. ids \in Nat BY DEF CodeInv, RegisterInv
<1>6. ids' \in Nat /\ definitionIds' \in [DOMAIN registered -> Nat]
  <2>1. \A first \in Nat : \A at \in DOMAIN registered : first + at - 1 \in Nat BY <1>4
  <2>2. ids + Cardinality(EmittedParameters) \in Nat BY <1>3, <1>5
  <2>3. ids' = ids + Cardinality(EmittedParameters) + Len(registered) OBVIOUS
  <2>4. definitionIds' = [at \in DOMAIN registered |-> ids + Cardinality(EmittedParameters) + at - 1]
        OBVIOUS
  <2> QED BY <1>4, <2>1, <2>2, <2>3, <2>4
<1>7. RegisterInv' BY <1>1, <1>2, <1>6 DEF CodeInv, RegisterInv, Ran
<1>8. AnnouncedInv'
  <2>1. \A m \in announced' : m[1] \in LoadKinds \union {"parameterType"}
    <3>1. \A m \in EmittedParameters : m[1] = "parameterType" BY DEF EmittedParameters
    <3> QED BY <3>1 DEF CodeInv, AnnouncedInv
  <2> QED BY <1>1, <2>1 DEF CodeInv, AnnouncedInv, Ran, Late
<1> QED BY <1>1, <1>7, <1>8 DEF CodeInv

(* Expressions that parse: every step that resolves is registered.         *)
LEMMA ParsedStepsCode ==
    ASSUME CodeInv, ListInv, LoadSteps, stage' = "hooks"
    PROVE  CodeInv'
<1> USE DEF LoadSteps, Goto, End, inputVars, processVars, loadVars
<1> DEFINE places == {at \in Steps : Resolves(registered[at])}
           found  == Ascending(places)
<1>1. testCases = << >> /\ CasesInv' BY NoCases
<1>2. mode # "list" BY DEF ListInv, Before
<1>3. places = {d \in Steps : Known(d)}
      BY DEF CodeInv, RegisterInv, Resolves, Known
<1>4. /\ found \in Seq(places) /\ ToSet(found) = places
      /\ \E n \in Nat : DOMAIN found = 1 .. n
  <2>1. Len(registered) \in Nat /\ places \in SUBSET (1 .. Len(registered))
        BY ProgramTypes DEF CodeInv, RegisterInv
  <2> HIDE DEF places
  <2> QED BY <2>1, AscendingLists
<1>5. stepRegistry' = [n \in DOMAIN found |-> Entry(found[n])]
      BY DEF RegisteredId, Entry
<1> HIDE DEF places, found
<1>6. \A n \in DOMAIN found : found[n] \in places BY <1>4 DEF ToSet
<1>7. \A at \in places : Entry(at) \in FoundSteps BY <1>3 DEF FoundSteps
<1>8. stepRegistry' \in Seq(FoundSteps)
      BY <1>4, <1>5, <1>6, <1>7, SequenceOn
<1>9. ToSet(stepRegistry') = FoundSteps
  <2>1. DOMAIN stepRegistry' = DOMAIN found /\ \A n \in DOMAIN found : stepRegistry'[n] = Entry(found[n])
        BY <1>5
  <2>2. \A at \in places : \E n \in DOMAIN found : found[n] = at BY <1>4 DEF ToSet
  <2>3. FoundSteps = {Entry(at) : at \in places} BY <1>3 DEF FoundSteps
  <2>4. ToSet(stepRegistry') = {Entry(found[n]) : n \in DOMAIN found} BY <2>1 DEF ToSet
  <2> QED BY <1>6, <2>2, <2>3, <2>4
<1>10. FoundSteps' = FoundSteps BY KeepsEntries
<1>11. RegisterInv' BY <1>1, <1>2, <1>8, <1>9, <1>10 DEF CodeInv, RegisterInv, Ran
<1>12. AnnouncedInv' BY <1>1 DEF CodeInv, AnnouncedInv, Ran, Late
<1> QED BY <1>1, <1>11, <1>12 DEF CodeInv

LEMMA LoadStepsCode ==
    ASSUME CodeInv, ListInv, LoadSteps
    PROVE  CodeInv'
<1> USE DEF LoadSteps, Goto, End, inputVars, processVars, loadVars
<1>1. CASE stage' = "hooks" BY <1>1, ParsedStepsCode
<1>2. CASE stage' = "over"
  <2>1. testCases = << >> /\ CasesInv' BY NoCases
  <2>2. mode # "list" BY DEF ListInv, Before
  <2>3. RegisterInv' BY <1>2, <2>1, <2>2, KeepsEntries DEF CodeInv, RegisterInv, Ran
  <2>4. AnnouncedInv' BY <1>2, <2>1 DEF CodeInv, AnnouncedInv, Ran, Late
  <2> QED BY <2>1, <2>3, <2>4 DEF CodeInv
<1> QED BY <1>1, <1>2

LEMMA LoadHooksCode ==
    ASSUME CodeInv, ListInv, LoadHooks
    PROVE  CodeInv'
<1> USE DEF LoadHooks, Goto, End, inputVars, processVars, loadVars
<1>1. testCases = << >> /\ CasesInv' BY NoCases
<1>2. mode # "list" BY DEF ListInv, Before
<1>3. /\ FoundSteps' = FoundSteps /\ Hooks' = Hooks
      /\ \A at : Entry(at)' = Entry(at)
      BY KeepsEntries
<1>4. stage' = "emit" => hookRegistry' = {Entry(at) : at \in Hooks}
      BY DEF Entry
<1>5. stage' \in {"emit", "over"} OBVIOUS
<1>6. RegisterInv' BY <1>1, <1>2, <1>3, <1>4, <1>5 DEF CodeInv, RegisterInv, Ran
<1>7. AnnouncedInv' BY <1>1, <1>5 DEF CodeInv, AnnouncedInv, Ran, Late
<1> QED BY <1>1, <1>6, <1>7 DEF CodeInv

LEMMA EmitCode ==
    ASSUME CodeInv, ListInv, EmitStepDefinitionsAndHooks
    PROVE  CodeInv'
<1> USE DEF EmitStepDefinitionsAndHooks, Goto, inputVars, processVars, loadVars, codeVars
<1>1. testCases = << >> /\ CasesInv' BY NoCases
<1>2. mode # "list" BY DEF ListInv, Before
<1>3. /\ FoundSteps' = FoundSteps /\ Hooks' = Hooks /\ Steps' = Steps
      /\ \A at : Entry(at)' = Entry(at) /\ Known(at)' = Known(at)
      BY KeepsEntries
<1>4. RegisterInv' BY <1>1, <1>2, <1>3 DEF CodeInv, RegisterInv, Ran
<1>5. announced' = announced \union EmittedUndefinedParameters
                     \union EmittedStepDefinitions \union EmittedHooks
      OBVIOUS
<1>6. ToSet(stepRegistry) = FoundSteps BY DEF CodeInv, RegisterInv
<1>7. EmittedUndefinedParameters = {<< "undefinedParameterType", at >> : at \in {d \in Steps : ~ Known(d)}}
  <2>1. {entry.at : entry \in FoundSteps} = {d \in Steps : Known(d)}
    <3>1. \A at : Entry(at).at = at BY DEF Entry
    <3> QED BY <3>1 DEF FoundSteps
  <2> QED BY <1>6, <2>1 DEF EmittedUndefinedParameters
<1>8. \A entry \in FoundSteps : << "stepDefinition", entry.id >> \in EmittedStepDefinitions
      BY <1>6 DEF EmittedStepDefinitions, FoundSteps, Entry
<1>9. \A entry \in hookRegistry : << "hook", entry.id >> \in EmittedHooks
      BY DEF EmittedHooks
<1>10. \A m \in announced : m[1] # "undefinedParameterType"
       BY DEF CodeInv, AnnouncedInv, LoadKinds
<1>11. \A m \in EmittedStepDefinitions \union EmittedHooks : m[1] # "undefinedParameterType"
       BY DEF EmittedStepDefinitions, EmittedHooks
<1>12. ASSUME NEW at \in Steps
       PROVE  Known(at) # (<< "undefinedParameterType", at >> \in announced')
  <2>1. << "undefinedParameterType", at >> \in announced'
           <=> << "undefinedParameterType", at >> \in EmittedUndefinedParameters
        BY <1>5, <1>10, <1>11
  <2>2. << "undefinedParameterType", at >> \in EmittedUndefinedParameters <=> ~ Known(at)
        BY <1>7
  <2>3. Known(at) \in BOOLEAN BY DEF Known
  <2> QED BY <2>1, <2>2, <2>3
<1>13. AnnouncedInv'
  <2>1. \A entry \in FoundSteps : << "stepDefinition", entry.id >> \in announced'
        BY <1>5, <1>8
  <2>2. \A entry \in hookRegistry : << "hook", entry.id >> \in announced'
        BY <1>5, <1>9
  <2>3. \A s \in ToSet(pickleSources) \union ToSet(selected) : << "pickle", s.id >> \in announced'
        BY <1>5 DEF CodeInv, AnnouncedInv
  <2> QED BY <1>2, <1>3, <1>12, <2>1, <2>2, <2>3 DEF CodeInv, AnnouncedInv, Late
<1> QED BY <1>1, <1>4, <1>13 DEF CodeInv

LEMMA KeepsTestCase ==
    ASSUME UNCHANGED << files, registered, hookRegistry, stepRegistry >>
    PROVE  \A s : TestCaseOf(s)' = TestCaseOf(s)
BY DEF TestCaseOf, FindIds, MatchStepDefinitions, Pickle, Evaluate

LEMMA KeepsSelectedCase ==
    ASSUME UNCHANGED << files, registered, hookRegistry, stepRegistry, selected >>
    PROVE  \A k : TestCaseOf(selected[k])' = TestCaseOf(selected[k])
BY DEF TestCaseOf, FindIds, MatchStepDefinitions, Pickle, Evaluate

(* The test case of the next scenario is appended.                         *)
LEMMA AssembleTestCaseCode ==
    ASSUME CodeInv, ListInv, AssembleTestCase
    PROVE  CodeInv'
<1> USE DEF AssembleTestCase, inputVars, processVars, loadVars, codeVars
<1> DEFINE n == Len(testCases) + 1
           cases == {TestCaseOf(s) : s \in ToSet(selected)}
<1>0. mode # "list" BY DEF ListInv, Before
<1>1. /\ testCases \in Seq(cases) /\ Len(testCases) \in Nat /\ DOMAIN testCases = 1 .. Len(testCases)
      /\ selected \in Seq(Scenarios) /\ Len(selected) \in Nat /\ DOMAIN selected = 1 .. Len(selected)
      BY LenProperties DEF CodeInv, CasesInv, AnnouncedInv
<1>2. Ran /\ Ran' BY DEF Ran
<1>3. /\ FoundSteps' = FoundSteps /\ Hooks' = Hooks /\ Steps' = Steps
      /\ \A at : Entry(at)' = Entry(at) /\ Known(at)' = Known(at)
      BY KeepsEntries
<1>4. RegisterInv' BY <1>0, <1>2, <1>3 DEF CodeInv, RegisterInv
<1>5. AnnouncedInv' BY <1>0, <1>2, <1>3 DEF CodeInv, AnnouncedInv
<1>6. TestCaseOf(selected[n]) \in cases BY <1>1 DEF ToSet
<1>7. /\ testCases' \in Seq(cases) /\ Len(testCases') = n /\ DOMAIN testCases' = 1 .. n
      /\ testCases'[n] = TestCaseOf(selected[n])
      /\ \A k \in DOMAIN testCases : testCases'[k] = testCases[k]
  <2>1. testCases' = Append(testCases, TestCaseOf(selected[n])) OBVIOUS
  <2> HIDE DEF cases
  <2> QED BY <1>1, <1>6, <2>1, Appended
<1>8. CasesInv'
  <2>1. \A s : TestCaseOf(s)' = TestCaseOf(s) BY KeepsTestCase
  <2>2. cases' = cases BY <2>1
  <2>3. \A k \in 1 .. n : testCases'[k] = TestCaseOf(selected[k])
    <3>1. \A k \in 1 .. n : k = n \/ k \in DOMAIN testCases BY <1>1
    <3> QED BY <1>7, <3>1 DEF CodeInv, CasesInv
  <2>4. \A k : TestCaseOf(selected[k])' = TestCaseOf(selected[k])
        BY KeepsSelectedCase
  <2>5. \A k \in DOMAIN testCases' : testCases'[k] = TestCaseOf(selected[k])'
        BY <1>7, <2>3, <2>4
  <2>6. Len(testCases') <= Len(selected') BY <1>1, <1>7
  <2>7. stage' = "run" /\ mode' # "list" BY <1>0
  <2>8. testCases' \in Seq({TestCaseOf(s) : s \in ToSet(selected)}') BY <1>7, <2>2
  <2> QED BY <2>5, <2>6, <2>7, <2>8 DEF CasesInv
<1> QED BY <1>4, <1>5, <1>8 DEF CodeInv

(* The end of a run keeps everything.                                      *)
LEMMA CodeUntouched ==
    ASSUME CodeInv,
           UNCHANGED << files, registered, mode, selected, ids, codeVars, pickleSources,
                        testCases, announced >>,
           stage' = stage \/ (mode # "list" /\ stage = "run" /\ stage' = "over")
    PROVE  CodeInv'
<1> USE DEF codeVars
<1>1. /\ FoundSteps' = FoundSteps /\ Hooks' = Hooks /\ Steps' = Steps
      /\ \A at : Entry(at)' = Entry(at) /\ Known(at)' = Known(at)
      BY KeepsEntries
<1>2. Ran' => Ran BY DEF Ran
<1>3. RegisterInv' BY <1>1, <1>2 DEF CodeInv, RegisterInv
<1>4. AnnouncedInv' BY <1>1, <1>2 DEF CodeInv, AnnouncedInv, Late
<1>5. CasesInv'
  <2>1. \A s : TestCaseOf(s)' = TestCaseOf(s) BY KeepsTestCase
  <2>2. \A k : TestCaseOf(selected[k])' = TestCaseOf(selected[k])
        BY KeepsSelectedCase
  <2>3. {TestCaseOf(s) : s \in ToSet(selected)}' = {TestCaseOf(s) : s \in ToSet(selected)}
        BY <2>1
  <2> QED BY <2>2, <2>3 DEF CodeInv, CasesInv
<1> QED BY <1>3, <1>4, <1>5 DEF CodeInv

LEMMA DiscoveredTestCode ==
    ASSUME CodeInv, DiscoveredTest
    PROVE  CodeInv'
<1> USE DEF DiscoveredTest, inputVars, codeVars
<1>1. testCases = << >> /\ selected = << >> /\ parameters = Host /\ testCases' = << >>
      BY DEF CodeInv, CasesInv, AnnouncedInv, RegisterInv
<1>2. RegisterInv' BY <1>1 DEF CodeInv, RegisterInv, Ran
<1>3. AnnouncedInv' BY <1>1 DEF CodeInv, AnnouncedInv, Ran, ToSet
<1>4. CasesInv' BY <1>1 DEF CasesInv
<1> QED BY <1>2, <1>3, <1>4 DEF CodeInv

LEMMA CodeInductive == IInv /\ NamesInv /\ CodeInv /\ [Next]_vars => CodeInv'
<1> SUFFICES ASSUME IInv, NamesInv, CodeInv, [Next]_vars PROVE CodeInv' OBVIOUS
<1>0. ListInv BY DEF IInv
<1>1. CASE ParseCommandLine \/ EnableFormatters \/ CreateNameRegexStrategies
             \/ MakeUniqueTestNames \/ ListScenarios
      BY <1>1, QuietCode
<1>2. CASE CollectPickles BY <1>2, CollectPicklesCode
<1>3. CASE LoadPickles BY <1>3, LoadPicklesCode
<1>4. CASE OrderPickles BY <1>4, OrderPicklesCode
<1>5. CASE LoadParameters BY <1>0, <1>5, LoadParametersCode
<1>6. CASE LoadIds BY <1>0, <1>6, LoadIdsCode
<1>7. CASE LoadSteps BY <1>0, <1>7, LoadStepsCode
<1>8. CASE LoadHooks BY <1>0, <1>8, LoadHooksCode
<1>9. CASE EmitStepDefinitionsAndHooks BY <1>0, <1>9, EmitCode
<1>10. CASE AssembleTestCase BY <1>0, <1>10, AssembleTestCaseCode
<1>11. CASE FailBeforeAll \/ RunTests
  <2>1. mode # "list" /\ stage = "run" BY <1>0, <1>11 DEF ListInv, Before, FailBeforeAll, RunTests
  <2> QED BY <1>11, <2>1, CodeUntouched DEF FailBeforeAll, RunTests, End, inputVars,
             processVars, loadVars
<1>12. CASE DiscoveredTest BY <1>12, DiscoveredTestCode
<1>13. CASE UNCHANGED vars
       BY <1>13, CodeUntouched DEF vars, inputVars, processVars, loadVars
<1> QED BY <1>1, <1>2, <1>3, <1>4, <1>5, <1>6, <1>7, <1>8, <1>9, <1>10, <1>11, <1>12, <1>13 DEF Next

-----------------------------------------------------------------------------
LEMMA RunInvariant == Spec => [](IInv /\ NamesInv /\ CodeInv)
<1>1. Init => IInv /\ NamesInv /\ CodeInv
      BY InitialProcess, InitialNames, InitialCode
<1>2. IInv /\ NamesInv /\ CodeInv /\ [Next]_vars => IInv' /\ NamesInv' /\ CodeInv'
  <2>1. CodeInv => ids \in Nat BY DEF CodeInv, RegisterInv
  <2> QED BY <2>1, ProcessInductive, NamesInductive, CodeInductive
<1> QED BY <1>1, <1>2, PTL DEF Spec

(* A parse error in any file stops the process after every file was read:  *)
(* LoadPickles ends it with a failure before anything is named, registered *)
(* or assembled, whatever the arguments and whether or not it lists.       *)
THEOREM ParseErrorsStopEveryRun == Spec => []ParseErrorStopsRun
<1>1. IInv => ParseErrorStopsRun
      BY DEF IInv
<1> QED BY <1>1, RunInvariant, PTL

(* Discovery gives the scenarios different names, whatever their names,    *)
(* and the process of a test makes the same names again from the same      *)
(* files, so that the scenario it runs is the one the test is named after. *)
THEOREM EveryTestRunsItsScenario == Spec => []DiscoveryIdentifies
<1>1. NamesInv => DiscoveryIdentifies
      BY ListedIdentifies DEF NamesInv
<1> QED BY <1>1, RunInvariant, PTL

(* What AssembleTestSuites puts into a test case has been announced, for   *)
(* any scenarios, hooks and steps.                                         *)
THEOREM EveryReferenceResolves == Spec => []ReferencesResolve
<1>1. CodeInv => ReferencesResolve
      BY CasesResolve
<1> QED BY <1>1, RunInvariant, PTL

(* A step is matched with every definition of its text whose parameter     *)
(* types exist, whoever has added them, and the others are announced.      *)
THEOREM EveryStepFindsItsDefinitions == Spec => []StepsFindTheirDefinitions
<1>1. CodeInv => StepsFindTheirDefinitions
      BY CasesMatch
<1> QED BY <1>1, RunInvariant, PTL
=============================================================================
