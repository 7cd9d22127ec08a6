-------------------------- MODULE IDManager_proofs --------------------------
(***************************************************************************)
(* The id manager accounts for every id and implements the pool of IDPool, *)
(* for every range of ids.                                                 *)
(***************************************************************************)
EXTENDS IDManager, TLAPS

(* The inductive invariant: the order of the deque (in TypeOK) makes its   *)
(* back the least unused id, and Trimmed makes the id below m_next_id used. *)
IDInv == TypeOK /\ Accounted /\ Trimmed

IsDescending(s) == \A i, j \in 1 .. Len(s) : i < j => s[i] > s[j]

Members(s) == {s[i] : i \in 1 .. Len(s)}

(* A function on 1..n with values in S is a sequence of length n.          *)
LEMMA FcnIsSeq ==
  ASSUME NEW S, NEW n \in Nat, NEW f \in [1 .. n -> S]
  PROVE  f \in Seq(S) /\ Len(f) = n
BY SMT

LEMMA SeqIsFcn ==
  ASSUME NEW S, NEW s \in Seq(S)
  PROVE  Len(s) \in Nat /\ s \in [1 .. Len(s) -> S]
BY SMT

LEMMA InitInv == Init => IDInv
BY IdRangeAssumption DEF Init, IDInv, TypeOK, Accounted, Trimmed, Descending, Unused

LEMMA ReuseInv ==
  ASSUME IDInv, NEW id \in Id, ReuseId(id), held' = held \cup {id}
  PROVE  IDInv'
<1> DEFINE n == Len(unused_id)
<1>1. n \in Nat /\ unused_id \in [1 .. n -> Id]
  BY SeqIsFcn DEF IDInv, TypeOK
<1>2. n > 0 /\ n - 1 \in Nat /\ id = unused_id[n]
  BY <1>1 DEF IDInv, TypeOK, ReuseId
<1>3. /\ unused_id' \in [1 .. (n - 1) -> Id]
      /\ \A i \in 1 .. (n - 1) : unused_id'[i] = unused_id[i]
  BY <1>1, <1>2 DEF ReuseId
<1>4. unused_id' \in Seq(Id) /\ Len(unused_id') = n - 1
  <2> HIDE DEF n
  <2>. QED BY <1>2, <1>3, FcnIsSeq
<1>5. TypeOK'
  BY <1>1, <1>2, <1>3, <1>4 DEF IDInv, TypeOK, ReuseId, Descending
<1>6. Trimmed'
  BY <1>1, <1>2, <1>3, <1>4, IdRangeAssumption DEF IDInv, TypeOK, Trimmed, ReuseId, Id
<1>7. Unused' = Unused \ {id}
  <2>1. \A x \in Unused' : x \in Unused /\ x # id
    <3> HIDE DEF n
    <3>1. \A i \in 1 .. (n - 1) : unused_id[i] > unused_id[n]
      BY <1>1, <1>2 DEF IDInv, TypeOK, Descending, n
    <3>2. \A i \in 1 .. n : unused_id[i] \in Int
      BY <1>1, IdRangeAssumption DEF Id
    <3>3. \A i \in 1 .. (n - 1) : i \in 1 .. n /\ unused_id'[i] = unused_id[i] /\ unused_id[i] # id
      BY <1>1, <1>2, <1>3, <3>1, <3>2
    <3>. QED BY <1>4, <3>3 DEF Unused, n
  <2>2. \A x \in Unused : x # id => x \in Unused'
    <3> SUFFICES ASSUME NEW i \in 1 .. n, unused_id[i] # id PROVE unused_id[i] \in Unused'
      BY DEF Unused
    <3>1. i \in 1 .. (n - 1)
      BY <1>1, <1>2
    <3>. QED BY <1>3, <1>4, <3>1 DEF Unused
  <2>. QED BY <2>1, <2>2
<1>8. id \in MinId .. (next_id - 1)
  BY <1>1, <1>2, IdRangeAssumption DEF IDInv, TypeOK, Trimmed, Id
<1>9. Accounted'
  BY <1>7, <1>8 DEF IDInv, Accounted, ReuseId
<1>. QED
  BY <1>5, <1>6, <1>9 DEF IDInv

LEMMA FreshInv ==
  ASSUME IDInv, NEW id \in Id, FreshId(id), held' = held \cup {id}
  PROVE  IDInv'
<1>1. unused_id' = << >> /\ unused_id = << >> /\ next_id' = next_id + 1 /\ id = next_id
  BY DEF FreshId
<1>2. Unused = {} /\ Unused' = {}
  BY <1>1 DEF Unused
<1>3. TypeOK' /\ Trimmed'
  BY <1>1, IdRangeAssumption DEF IDInv, TypeOK, Trimmed, FreshId, CanAcquire, Descending, Id
<1>4. Accounted'
  BY <1>1, <1>2, IdRangeAssumption DEF IDInv, TypeOK, Accounted, Id
<1>. QED
  BY <1>3, <1>4 DEF IDInv

(* The sorted push adds the id, in its place, to a descending deque that   *)
(* does not hold it.                                                       *)
LEMMA PushedOK ==
  ASSUME TypeOK, NEW id \in Id, ~ InDeque(id),
         NEW k \in 0 .. Len(unused_id), GreaterAre(k, id)
  PROVE  /\ Pushed(k, id) \in Seq(Id)
         /\ Len(Pushed(k, id)) = Len(unused_id) + 1
         /\ IsDescending(Pushed(k, id))
         /\ Members(Pushed(k, id)) = Unused \cup {id}
<1> DEFINE n == Len(unused_id)
           s == Pushed(k, id)
<1>1. n \in Nat /\ unused_id \in [1 .. n -> Id] /\ n + 1 \in Nat
  BY SeqIsFcn DEF TypeOK
<1>2. \A i \in 1 .. n : unused_id[i] \in Int /\ unused_id[i] # id
  BY <1>1, IdRangeAssumption DEF InDeque, Id
<1>3. s \in [1 .. (n + 1) -> Id]
  BY <1>1 DEF Pushed
<1>4. s \in Seq(Id) /\ Len(s) = n + 1
  <2> HIDE DEF s, n
  <2>. QED BY <1>1, <1>3, FcnIsSeq
<1>5. \A i \in 1 .. (n + 1) :
         s[i] = IF i <= k THEN unused_id[i] ELSE IF i = k + 1 THEN id ELSE unused_id[i - 1]
  BY <1>1 DEF Pushed
<1>6. k \in 0 .. n /\ id \in Int
  BY IdRangeAssumption DEF Id
<1>7. IsDescending(s)
  <2>1. /\ \A i \in 1 .. k : unused_id[i] > id
        /\ \A i \in (k + 1) .. n : unused_id[i] < id
    BY <1>1, <1>2, <1>6 DEF GreaterAre
  <2>2. \A i, j \in 1 .. n : i < j => unused_id[i] > unused_id[j]
    BY DEF TypeOK, Descending
  <2> HIDE DEF s, n
  <2>3. SUFFICES ASSUME NEW i \in 1 .. (n + 1), NEW j \in 1 .. (n + 1), i < j
                 PROVE  s[i] > s[j]
    BY <1>4 DEF IsDescending
  <2>4. CASE j <= k
    BY <1>1, <1>2, <1>5, <1>6, <2>2, <2>3, <2>4
  <2>5. CASE j = k + 1
    BY <1>1, <1>2, <1>5, <1>6, <2>1, <2>3, <2>5
  <2>6. CASE j > k + 1 /\ i <= k
    <3>1. i \in 1 .. n /\ j - 1 \in 1 .. n /\ i < j - 1
      BY <1>1, <1>6, <2>6
    <3>2. s[i] = unused_id[i] /\ s[j] = unused_id[j - 1]
      BY <1>1, <1>5, <1>6, <2>6
    <3>. QED BY <2>2, <3>1, <3>2
  <2>7. CASE j > k + 1 /\ i = k + 1
    <3>1. j - 1 \in (k + 1) .. n /\ j - 1 \in 1 .. n
      BY <1>1, <1>6, <2>7
    <3>2. s[i] = id /\ s[j] = unused_id[j - 1]
      BY <1>1, <1>5, <1>6, <2>7
    <3>. QED BY <1>2, <1>6, <2>1, <3>1, <3>2
  <2>8. CASE j > k + 1 /\ i > k + 1
    <3>1. i - 1 \in 1 .. n /\ j - 1 \in 1 .. n /\ i - 1 < j - 1
      BY <1>1, <1>6, <2>3, <2>8
    <3>2. s[i] = unused_id[i - 1] /\ s[j] = unused_id[j - 1]
      BY <1>1, <1>5, <1>6, <2>8
    <3>. QED BY <2>2, <3>1, <3>2
  <2>. QED BY <1>1, <1>6, <2>4, <2>5, <2>6, <2>7, <2>8
<1>8. Members(s) = Unused \cup {id}
  <2> HIDE DEF s
  <2>1. \A i \in 1 .. (n + 1) : s[i] \in Unused \cup {id}
    <3> HIDE DEF n
    <3>1. TAKE i \in 1 .. (n + 1)
    <3>2. CASE i <= k
      BY <1>1, <1>5, <1>6, <3>2 DEF Unused, n
    <3>3. CASE i = k + 1
      BY <1>1, <1>5, <1>6, <3>3
    <3>4. CASE i > k + 1
      <4>1. i - 1 \in 1 .. n /\ s[i] = unused_id[i - 1]
        BY <1>1, <1>5, <1>6, <3>4
      <4>. QED BY <4>1 DEF Unused, n
    <3>. QED BY <1>1, <1>6, <3>2, <3>3, <3>4
  <2>2. id \in Members(s)
    <3>1. k + 1 \in 1 .. (n + 1) /\ s[k + 1] = id
      BY <1>1, <1>5, <1>6
    <3>. QED BY <1>4, <3>1 DEF Members
  <2>3. \A i \in 1 .. n : unused_id[i] \in Members(s)
    <3>1. TAKE i \in 1 .. n
    <3>2. CASE i <= k
      <4>1. i \in 1 .. (n + 1) /\ s[i] = unused_id[i]
        BY <1>1, <1>5, <1>6, <3>2
      <4>. QED BY <1>4, <4>1 DEF Members
    <3>3. CASE i > k
      <4>1. i + 1 \in 1 .. (n + 1) /\ s[i + 1] = unused_id[i]
        BY <1>1, <1>5, <1>6, <3>3
      <4>. QED BY <1>4, <4>1 DEF Members
    <3>. QED BY <1>1, <1>6, <3>2, <3>3
  <2>. QED BY <1>4, <2>1, <2>2, <2>3 DEF Members, Unused
<1>. QED
  BY <1>4, <1>7, <1>8

(* The loop of release() only moves ids from the deque to the range above  *)
(* m_next_id, and stops below the last id in use.                          *)
LEMMA DropTopOK ==
  ASSUME NEW top \in MinId .. MaxId, NEW deque \in Seq(Id),
         IsDescending(deque), \A i \in 1 .. Len(deque) : deque[i] < top,
         DropTop(top, deque)
  PROVE  /\ next_id' \in MinId .. MaxId
         /\ unused_id' \in Seq(Id)
         /\ Descending'
         /\ Trimmed'
         /\ (MinId .. (next_id' - 1)) \ Unused' = (MinId .. (top - 1)) \ Members(deque)
<1> DEFINE n == Len(deque)
<1>1. n \in Nat /\ deque \in [1 .. n -> Id] /\ top \in Int
  BY SeqIsFcn, IdRangeAssumption
<1>2. PICK k \in 0 .. n :
        /\ \A i \in 1 .. k : deque[i] = top - i
        /\ k < n => deque[k + 1] # top - (k + 1)
        /\ next_id' = top - k
        /\ unused_id' = [i \in 1 .. (n - k) |-> deque[i + k]]
  BY DEF DropTop
<1>3. n - k \in Nat /\ k \in Nat
  BY <1>1, <1>2
<1>4. \A i \in 1 .. n : deque[i] \in Id /\ deque[i] \in Int /\ deque[i] >= MinId /\ deque[i] < top
  BY <1>1, IdRangeAssumption DEF Id
<1>5. \A i, j \in 1 .. n : i < j => deque[i] > deque[j]
  BY DEF IsDescending
<1> HIDE DEF n
<1>6. /\ unused_id' \in [1 .. (n - k) -> Id]
      /\ \A i \in 1 .. (n - k) : i + k \in 1 .. n /\ unused_id'[i] = deque[i + k]
  BY <1>1, <1>2, <1>3
<1>7. unused_id' \in Seq(Id) /\ Len(unused_id') = n - k
  BY <1>3, <1>6, FcnIsSeq
<1>8. next_id' \in MinId .. MaxId
  <2>1. CASE k = 0
    BY <1>1, <1>2, <2>1
  <2>2. CASE k > 0
    <3>1. k \in 1 .. n /\ k \in 1 .. k
      BY <1>1, <1>2, <2>2
    <3>2. deque[k] = top - k /\ deque[k] >= MinId
      BY <1>2, <1>4, <3>1
    <3>. QED BY <1>1, <1>2, <1>3, <3>2, IdRangeAssumption
  <2>. QED BY <1>2, <1>3, <2>1, <2>2
<1>9. Descending'
  <2>1. SUFFICES ASSUME NEW i \in 1 .. (n - k), NEW j \in 1 .. (n - k), i < j
                 PROVE  unused_id'[i] > unused_id'[j]
    BY <1>7 DEF Descending
  <2>2. i + k < j + k
    BY <1>1, <1>3, <2>1
  <2>. QED BY <1>5, <1>6, <2>2
<1>10. \A i \in (k + 1) .. n : deque[i] < top - (k + 1)
  <2>1. SUFFICES ASSUME NEW i \in (k + 1) .. n PROVE deque[i] < top - (k + 1)
    OBVIOUS
  <2>2. k + 1 \in 1 .. n /\ k < n
    BY <1>1, <1>3
  <2>3. deque[k + 1] < top - k
    <3>1. CASE k = 0
      BY <1>1, <1>4, <2>2, <3>1
    <3>2. CASE k > 0
      <4>1. k \in 1 .. n /\ k \in 1 .. k
        BY <1>1, <1>2, <3>2
      <4>. QED BY <1>2, <1>3, <1>5, <2>2, <4>1
    <3>. QED BY <1>3, <3>1, <3>2
  <2>4. deque[k + 1] < top - (k + 1)
    <3>1. deque[k + 1] \in Int /\ top \in Int
      BY <1>1, <1>4, <2>2, IdRangeAssumption
    <3>2. deque[k + 1] # top - (k + 1)
      BY <1>2, <2>2
    <3> DEFINE d == deque[k + 1]
    <3>3. d \in Int /\ d # top - (k + 1) /\ d < top - k
      BY <2>3, <3>1, <3>2
    <3> HIDE DEF d
    <3>4. d < top - (k + 1)
      BY <1>3, <3>1, <3>3
    <3>. QED BY <3>4 DEF d
  <2>5. CASE i = k + 1
    BY <2>4, <2>5
  <2>6. CASE i > k + 1
    <3>1. i \in 1 .. n
      BY <1>1, <1>3
    <3>2. deque[k + 1] > deque[i]
      BY <1>5, <2>2, <2>6, <3>1
    <3>. QED BY <1>1, <1>3, <1>4, <2>2, <2>4, <3>1, <3>2
  <2>. QED BY <1>1, <1>3, <2>5, <2>6
<1>11. Trimmed'
  <2>1. SUFFICES ASSUME NEW i \in 1 .. (n - k) PROVE unused_id'[i] < next_id' - 1
    BY <1>7 DEF Trimmed
  <2>2. i + k \in (k + 1) .. n /\ unused_id'[i] = deque[i + k]
    BY <1>1, <1>3, <1>6
  <2>. QED BY <1>1, <1>2, <1>3, <1>10, <2>2
<1>12. (MinId .. (next_id' - 1)) \ Unused' = (MinId .. (top - 1)) \ Members(deque)
  <2>1. ASSUME NEW x \in (MinId .. (next_id' - 1)) \ Unused'
        PROVE  x \in (MinId .. (top - 1)) \ Members(deque)
    <3>1. x \in Int /\ x < top - k /\ x >= MinId
      BY <1>1, <1>2, <1>3, <2>1, IdRangeAssumption
    <3>2. ASSUME NEW i \in 1 .. n, deque[i] = x PROVE FALSE
      <4>1. CASE i <= k
        <5>1. deque[i] = top - i
          BY <1>1, <1>2, <4>1
        <5>. QED BY <1>1, <1>3, <3>1, <3>2, <4>1, <5>1
      <4>2. CASE i > k
        <5>1. i - k \in 1 .. (n - k) /\ (i - k) + k = i
          BY <1>1, <1>3, <4>2
        <5>2. unused_id'[i - k] = x
          BY <1>6, <3>2, <5>1
        <5>. QED BY <1>7, <2>1, <5>1, <5>2 DEF Unused
      <4>. QED BY <1>1, <1>3, <4>1, <4>2
    <3>. QED BY <1>1, <1>3, <3>1, <3>2, IdRangeAssumption DEF Members, n
  <2>2. ASSUME NEW x \in (MinId .. (top - 1)) \ Members(deque)
        PROVE  x \in (MinId .. (next_id' - 1)) \ Unused'
    <3>1. x \in Int /\ x < top /\ x >= MinId /\ \A i \in 1 .. n : deque[i] # x
      BY <1>1, <2>2, IdRangeAssumption DEF Members, n
    <3>2. x < top - k
      <4>1. SUFFICES ASSUME x >= top - k PROVE FALSE
        BY <1>1, <1>3, <3>1
      <4>2. top - x \in 1 .. k /\ top - x \in 1 .. n
        BY <1>1, <1>2, <1>3, <3>1, <4>1
      <4>3. deque[top - x] = x
        BY <1>1, <1>2, <3>1, <4>2
      <4>. QED BY <3>1, <4>2, <4>3
    <3>3. x \notin Unused'
      BY <1>6, <1>7, <3>1 DEF Unused
    <3>. QED BY <1>1, <1>2, <1>3, <3>1, <3>2, <3>3, IdRangeAssumption
  <2>. QED BY <2>1, <2>2
<1>. QED
  BY <1>7, <1>8, <1>9, <1>11, <1>12

LEMMA ReleaseInv ==
  ASSUME IDInv, NEW id \in Candidate, ReleaseId(id), held' = held \ {id}
  PROVE  IDInv'
<1>1. /\ id \in Id /\ id \in Int /\ id >= MinId /\ id < next_id /\ ~ InDeque(id)
      /\ next_id \in MinId .. MaxId /\ next_id \in Int /\ unused_id \in Seq(Id)
      /\ \A i \in 1 .. Len(unused_id) : unused_id[i] \in Int
  BY IdRangeAssumption, SeqIsFcn DEF IDInv, TypeOK, ReleaseId, Releasable, Candidate, Id
<1>2. id \notin Unused
  BY <1>1 DEF InDeque, Unused
<1>3. IsDescending(unused_id) /\ Members(unused_id) = Unused
  BY DEF IDInv, TypeOK, Descending, IsDescending, Members, Unused
<1>4. \A i \in 1 .. Len(unused_id) : unused_id[i] < next_id - 1
  BY DEF IDInv, Trimmed
<1>5. held' = ((MinId .. (next_id - 1)) \ Unused) \ {id}
  BY DEF IDInv, Accounted
<1>6. CASE id + 1 = next_id
  <2>1. DropTop(id, unused_id)
    BY <1>6, Zenon DEF ReleaseId
  <2>0. id \in MinId .. MaxId
    BY <1>1, IdRangeAssumption
  <2>2. \A i \in 1 .. Len(unused_id) : unused_id[i] < id
    BY <1>1, <1>4, <1>6
  <2>3. /\ next_id' \in MinId .. MaxId /\ unused_id' \in Seq(Id)
        /\ Descending' /\ Trimmed'
        /\ (MinId .. (next_id' - 1)) \ Unused' = (MinId .. (id - 1)) \ Members(unused_id)
    BY <1>1, <1>3, <2>0, <2>1, <2>2, DropTopOK
  <2>4. (MinId .. (id - 1)) \ Unused = ((MinId .. (next_id - 1)) \ Unused) \ {id}
    BY <1>1, <1>6, IdRangeAssumption
  <2>5. Accounted'
    BY <1>3, <1>5, <2>3, <2>4 DEF Accounted
  <2>. QED BY <2>3, <2>5 DEF IDInv, TypeOK
<1>7. CASE id + 1 # next_id
  <2>1. PICK k \in 0 .. Len(unused_id) : GreaterAre(k, id) /\ DropTop(next_id, Pushed(k, id))
    BY <1>7 DEF ReleaseId
  <2> DEFINE deque == Pushed(k, id)
  <2>2. /\ deque \in Seq(Id) /\ IsDescending(deque) /\ Members(deque) = Unused \cup {id}
    BY <1>1, <2>1, PushedOK DEF IDInv
  <2> HIDE DEF deque
  <2>3. \A x \in Members(deque) : x < next_id
    BY <1>1, <1>4, <2>2 DEF Unused
  <2>4. \A i \in 1 .. Len(deque) : deque[i] < next_id
    BY <2>3 DEF Members
  <2>5. DropTop(next_id, deque)
    BY <2>1 DEF deque
  <2>6. /\ next_id' \in MinId .. MaxId /\ unused_id' \in Seq(Id)
        /\ Descending' /\ Trimmed'
        /\ (MinId .. (next_id' - 1)) \ Unused' = (MinId .. (next_id - 1)) \ Members(deque)
    BY <1>1, <2>2, <2>4, <2>5, DropTopOK
  <2>7. Accounted'
    BY <1>5, <2>2, <2>6 DEF Accounted
  <2>. QED BY <2>6, <2>7 DEF IDInv, TypeOK
<1>. QED BY <1>6, <1>7

LEMMA NextInv == IDInv /\ [Next]_vars => IDInv'
<1> SUFFICES ASSUME IDInv, [Next]_vars PROVE IDInv'
  OBVIOUS
<1>1. CASE \E id \in Id : Acquire(id)
  BY <1>1, ReuseInv, FreshInv DEF Acquire, AcquireId
<1>2. CASE \E id \in Candidate : Release(id)
  BY <1>2, ReleaseInv DEF Release
<1>3. CASE RefuseAcquire \/ \E id \in Candidate : RefuseRelease(id)
  BY <1>3 DEF RefuseAcquire, RefuseRelease, vars, IDInv, TypeOK, Descending, Accounted, Trimmed, Unused
<1>4. CASE Reset
  BY <1>4, IdRangeAssumption DEF Reset, IDInv, TypeOK, Accounted, Trimmed, Descending, Unused
<1>5. CASE UNCHANGED vars
  BY <1>5 DEF vars, IDInv, TypeOK, Descending, Accounted, Trimmed, Unused
<1>. QED
  BY <1>1, <1>2, <1>3, <1>4, <1>5 DEF Next

LEMMA SpecInv == Spec => []IDInv
BY InitInv, NextInv, PTL DEF Spec

(* The deque is always in descending order and every id in it is in range: *)
(* what acquire() takes from the back is the least id that came back.      *)
THEOREM TypeCorrect == Spec => []TypeOK
BY SpecInv, PTL DEF IDInv

(* No id is lent to two callers at once and none is lost: the ids lent are *)
(* exactly those below m_next_id that are not in the deque.                *)
THEOREM IdsAccounted == Spec => []Accounted
BY SpecInv, PTL DEF IDInv

(* release() never leaves an unused id directly below m_next_id.           *)
THEOREM IdsTrimmed == Spec => []Trimmed
BY SpecInv, PTL DEF IDInv

(* acquire() fails exactly when every id of the range is lent.             *)
THEOREM RefusalsJustified == Spec => []RefusesOnlyWhenFull
<1>1. IDInv => RefusesOnlyWhenFull
  <2> SUFFICES ASSUME IDInv PROVE CanAcquire <=> held # Id
    BY DEF RefusesOnlyWhenFull
  <2> DEFINE n == Len(unused_id)
  <2>1. /\ n \in Nat /\ unused_id \in [1 .. n -> Id]
        /\ next_id \in MinId .. MaxId
        /\ held = (MinId .. (next_id - 1)) \ Unused
    BY SeqIsFcn DEF IDInv, TypeOK, Accounted
  <2>2. CASE n = 0
    <3>1. Unused = {} /\ unused_id = << >>
      BY <2>1, <2>2 DEF Unused, IDInv, TypeOK
    <3>2. CASE next_id = MaxId
      BY <2>1, <3>1, <3>2, IdRangeAssumption DEF CanAcquire, Id
    <3>3. CASE next_id # MaxId
      <4>1. MaxId - 1 \in Id \ held
        BY <2>1, <3>3, IdRangeAssumption DEF Id
      <4>. QED BY <2>1, <3>3, <4>1, IdRangeAssumption DEF CanAcquire
    <3>. QED BY <3>2, <3>3
  <2>3. CASE n # 0
    <3>1. unused_id[1] \in Unused /\ unused_id[1] \in Id /\ unused_id # << >>
      BY <2>1, <2>3 DEF Unused
    <3>. QED BY <2>1, <3>1 DEF CanAcquire
  <2>. QED BY <2>2, <2>3
<1>. QED
  BY <1>1, SpecInv, PTL

-----------------------------------------------------------------------------
(* What acquire() hands out is free, and no free id is less.               *)
LEMMA AcquireLeast ==
  ASSUME IDInv, NEW id \in Id, AcquireId(id)
  PROVE  id \in Id \ held /\ \A j \in Id \ held : id <= j
<1> DEFINE n == Len(unused_id)
<1>1. /\ n \in Nat /\ unused_id \in [1 .. n -> Id] /\ next_id \in Int
      /\ held = (MinId .. (next_id - 1)) \ Unused
      /\ \A i \in 1 .. n : unused_id[i] \in Int /\ unused_id[i] < next_id - 1
      /\ \A i, j \in 1 .. n : i < j => unused_id[i] > unused_id[j]
  BY SeqIsFcn, IdRangeAssumption DEF IDInv, TypeOK, Accounted, Trimmed, Descending, Id
<1>2. CASE ReuseId(id)
  <2>1. n > 0 /\ n \in 1 .. n /\ id = unused_id[n]
    BY <1>1, <1>2 DEF ReuseId
  <2>2. id \in Unused
    BY <2>1 DEF Unused
  <2>3. \A i \in 1 .. n : id <= unused_id[i]
    BY <1>1, <2>1
  <2>4. ASSUME NEW j \in Id \ held PROVE id <= j
    <3>1. CASE j \in Unused
      BY <2>3, <3>1 DEF Unused
    <3>2. CASE j \notin Unused
      BY <1>1, <2>1, <3>2, IdRangeAssumption DEF Id
    <3>. QED BY <3>1, <3>2
  <2>. QED BY <1>1, <2>2, <2>4
<1>3. CASE FreshId(id)
  <2>1. n = 0 /\ id = next_id
    BY <1>3 DEF FreshId
  <2>2. Unused = {}
    BY <2>1 DEF Unused
  <2>. QED BY <1>1, <2>1, <2>2, IdRangeAssumption DEF Id
<1>. QED
  BY <1>2, <1>3 DEF AcquireId

(* Every step of the manager is a step of the pool or leaves the loans     *)
(* alone.                                                                  *)
LEMMA StepOfPool == IDInv /\ [Next]_vars => [Pool!Next]_held
<1> SUFFICES ASSUME IDInv, [Next]_vars PROVE Pool!Next \/ UNCHANGED held
  OBVIOUS
<1>1. ASSUME NEW id \in Id, Acquire(id)
      PROVE  Pool!Next
  <2>1. Pool!Acquire(id)
    BY <1>1, AcquireLeast DEF Acquire, Pool!Acquire, Pool!Id, Id
  <2>. QED BY <1>1, <2>1 DEF Pool!Next, Pool!Id, Id
<1>2. ASSUME NEW id \in Candidate, Release(id)
      PROVE  Pool!Next
  <2>1. id \in Id /\ id \in MinId .. (next_id - 1) /\ ~ InDeque(id)
    BY <1>2, IdRangeAssumption
    DEF Release, ReleaseId, Releasable, IDInv, TypeOK, Candidate, Id
  <2>2. id \in held
    BY <2>1 DEF IDInv, Accounted, Unused, InDeque
  <2>3. Pool!Release(id)
    BY <1>2, <2>2 DEF Release, Pool!Release
  <2>. QED BY <2>1, <2>3 DEF Pool!Next, Pool!Id, Id
<1>3. CASE RefuseAcquire \/ \E id \in Candidate : RefuseRelease(id)
  BY <1>3 DEF RefuseAcquire, RefuseRelease, vars
<1>4. CASE Reset
  BY <1>4 DEF Reset, Pool!Next, Pool!Reset
<1>5. CASE UNCHANGED vars
  BY <1>5 DEF vars
<1>. QED
  BY <1>1, <1>2, <1>3, <1>4, <1>5 DEF Next

(* The counter and the deque implement the pool that lends the least free  *)
(* id: acquire() never invents an id, never repeats one in use, and reuses *)
(* what came back before it counts up.                                     *)
THEOREM ManagerImplementsPool == Spec => ImplementsPool
<1>1. Init => Pool!Init
  BY DEF Init, Pool!Init
<1>2. QED
  BY <1>1, SpecInv, StepOfPool, PTL DEF Spec, ImplementsPool, Pool!Spec
=============================================================================
