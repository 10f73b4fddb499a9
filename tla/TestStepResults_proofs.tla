----------------------- MODULE TestStepResults_proofs -----------------------
(***************************************************************************)
(* What GetWorstTestStepResult returns, for every list of results.         *)
(***************************************************************************)
EXTENDS TestStepResults, WellFoundedInduction, TLAPS

LEMMA StatusValues ==
    /\ UNKNOWN = 0 /\ PASSED = 1 /\ SKIPPED = 2 /\ PENDING = 3
    /\ UNDEFINED = 4 /\ AMBIGUOUS = 5 /\ FAILED = 6
    /\ Status = 0 .. 6
BY DEF UNKNOWN, PASSED, SKIPPED, PENDING, UNDEFINED, AMBIGUOUS, FAILED, Status

(* The elements of a list of results are results.                          *)
LEMMA ResultsInList ==
    ASSUME NEW results \in Seq(Result)
    PROVE  /\ DOMAIN results = 1 .. Len(results)
           /\ Len(results) \in Nat
           /\ \A j \in DOMAIN results :
                 /\ results[j] \in Result
                 /\ results[j].status \in 0 .. 6
                 /\ results[j].reported \in BOOLEAN
<1>1. DOMAIN results = 1 .. Len(results) /\ Len(results) \in Nat
  OBVIOUS
<1>2. ASSUME NEW j \in DOMAIN results
      PROVE  /\ results[j] \in Result
             /\ results[j].status \in 0 .. 6
             /\ results[j].reported \in BOOLEAN
  <2>1. results[j] \in Result
    BY <1>1
  <2> QED
    BY <2>1, StatusValues DEF Result
<1> QED
  BY <1>1, <1>2

(* A non-empty set of positions has a first one.                           *)
LEMMA FirstPosition ==
    ASSUME NEW T, T \subseteq Nat, T # {}
    PROVE  \E x \in T : \A y \in T : x <= y
<1>1. PICK x \in T : \A y \in T : ~(<<y, x>> \in OpToRel(<, Nat))
  BY NatLessThanWellFounded, WFMin
<1>2. ASSUME NEW y \in T PROVE x <= y
  <2>1. ~(y < x)
    BY <1>1 DEF OpToRel
  <2> QED
    BY <2>1
<1> QED
  BY <1>2

(* Some status occurs in the list and no larger one does.                  *)
LEMMA LargestStatus ==
    ASSUME NEW results \in Seq(Result), results # <<>>
    PROVE  \E m \in Status :
              /\ \E i \in DOMAIN results : results[i].status = m
              /\ \A j \in DOMAIN results : results[j].status <= m
<1> DEFINE Has(m) == \E i \in DOMAIN results : results[i].status = m
<1>1. \A j \in DOMAIN results : results[j].status \in 0 .. 6
  BY ResultsInList
<1>2. 1 \in DOMAIN results
  OBVIOUS
<1>3. PICK m \in 0 .. 6 : Has(m) /\ \A k \in m + 1 .. 6 : ~Has(k)
  <2>1. Has(0) \/ Has(1) \/ Has(2) \/ Has(3) \/ Has(4) \/ Has(5) \/ Has(6)
    BY <1>1, <1>2
  <2> HIDE DEF Has
  <2> QED
    BY <2>1
<1>4. \A j \in DOMAIN results : results[j].status <= m
  BY <1>1, <1>3
<1> QED
  BY <1>3, <1>4, StatusValues

(* The result is an element of the list and no element has a larger        *)
(* status.                                                                 *)
LEMMA WorstOfResults ==
    ASSUME NEW results \in Seq(Result), results # <<>>
    PROVE  \E i \in DOMAIN results :
              /\ GetWorstTestStepResult(results) = results[i]
              /\ \A j \in DOMAIN results : results[j].status <= results[i].status
<1> DEFINE First(i) == \A j \in DOMAIN results :
                          /\ results[j].status <= results[i].status
                          /\ j < i => results[j].status < results[i].status
<1>1. \A j \in DOMAIN results : results[j].status \in Nat
  BY ResultsInList
<1>2. PICK m \in Status :
         /\ \E i \in DOMAIN results : results[i].status = m
         /\ \A j \in DOMAIN results : results[j].status <= m
  BY LargestStatus
<1> DEFINE Worst == { k \in DOMAIN results : results[k].status = m }
<1>3. PICK i \in Worst : \A y \in Worst : i <= y
  <2>1. Worst \subseteq Nat /\ Worst # {}
    BY <1>2, ResultsInList
  <2> HIDE DEF Worst
  <2> QED
    BY <2>1, FirstPosition
<1>4. First(i)
  <2> SUFFICES ASSUME NEW j \in DOMAIN results
               PROVE  /\ results[j].status <= results[i].status
                      /\ j < i => results[j].status < results[i].status
    OBVIOUS
  <2>1. results[j].status <= m /\ results[i].status = m
    BY <1>2, <1>3
  <2>2. j < i => results[j].status # m
    BY <1>3
  <2> QED
    BY <2>1, <2>2, <1>1
<1>5. \E k \in DOMAIN results : First(k)
  BY <1>3, <1>4
<1> DEFINE worst == CHOOSE k \in DOMAIN results : First(k)
<1>6. worst \in DOMAIN results /\ First(worst)
  BY <1>5
<1>7. GetWorstTestStepResult(results) = results[worst]
  BY DEF GetWorstTestStepResult
<1> QED
  BY <1>6, <1>7
=============================================================================
