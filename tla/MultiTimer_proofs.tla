------------------------- MODULE MultiTimer_proofs -------------------------
(***************************************************************************)
(* Theorems about module MultiTimer, for any number of callers, timers,    *)
(* calls, lives and milliseconds and any periods: types (TypeOK), a timer  *)
(* in one place (OnePlace), the order of the running list (Ordered), no    *)
(* return of a destroyed timer (DestroyedForGood), and running timers that *)
(* are due within their period (DueWithinPeriod).                          *)
(***************************************************************************)
EXTENDS MultiTimer, FiniteSetTheorems, SequenceTheorems, WellFoundedInduction, TLAPS

InList(t) == Has(pending, t) \/ Has(running, t) \/ Has(fired, t)
Held(t) == \E c \in Caller : InHand(c, t)

Once(s, t) == \A i, j \in DOMAIN s : s[i] = t /\ s[j] = t => i = j

(* OnePlace for one timer, place by place. *)
Alone(t) ==
  /\ Once(pending, t) /\ Once(running, t) /\ Once(fired, t)
  /\ \A c, d \in Caller : InHand(c, t) /\ InHand(d, t) => c = d
  /\ Has(pending, t) => ~ Has(running, t) /\ ~ Has(fired, t) /\ ~ Held(t)
  /\ Has(running, t) => ~ Has(fired, t) /\ ~ Held(t)
  /\ Has(fired, t) => ~ Held(t)

AloneOK == \A t \in Timer : Alone(t)

(* A call has a timer in hand whose id was given out, and so has a list;   *)
(* of ids still to be given out nothing is known.                          *)
KnownOK ==
  /\ \A c \in Caller : pc[c].at # "idle" => pc[c].id \in Timer /\ pc[c].id < next
  /\ \A t \in Timer : InList(t) \/ t \in gone => t < next

(* The timer thread has timers in its list under its lock only, exit()     *)
(* goes on without calls, an MultiTimer that is off has no thread, and the *)
(* time a thread has set is not later than its clock.                      *)
QuietOK ==
  /\ ~ RunningLocked => fired = << >>
  /\ owner = "join" => \A c \in Caller : pc[c] = Idle
  /\ owner = "off" => thread = "off"
  /\ looked => thread \notin {"off", "begin"} /\ now <= clock

(* A timer whose id was given out is somewhere, or destroyed. *)
AccountedOK ==
  \A t \in Timer : t < next =>
    InList(t) \/ Held(t) \/ t \in gone \/ \E c \in Caller : Destroying(c, t)

(* DestroyedForGood, place by place. *)
GoneOK == \A t \in gone \ crossed : ~ InList(t) /\ ~ Held(t)

(* Between the two halves of destroy_timer a timer nobody else moves can   *)
(* only be where the second half looks.                                    *)
DestroyOK ==
  \A c \in Caller : pc[c].at = "destroy" /\ pc[c].id \notin crossed =>
    ~ Has(running, pc[c].id) /\ ~ Has(fired, pc[c].id) /\ ~ Held(pc[c].id)

(* Timers whose time is set, and what is true of it: it was set before the *)
(* thread first looked at the clock, or within a period of the clock.      *)
Timed(t) ==
  Has(running, t) \/ Has(fired, t) \/ \E c \in Caller : pc[c].at = "insert" /\ pc[c].id = t

TimedOK ==
  \A t \in Timer : Timed(t) =>
    t \in early \/ (looked /\ info[t].start <= clock + info[t].period)

(* The running list s in the order of the times in f. *)
SortedBy(s, f) == \A i, j \in DOMAIN s : i < j => f[s[i]].start <= f[s[j]].start

(* The inductive invariant. *)
TimerInv ==
  /\ TypeOK /\ AloneOK /\ KnownOK /\ QuietOK /\ AccountedOK /\ GoneOK /\ DestroyOK
  /\ TimedOK /\ SortedBy(running, info)

-----------------------------------------------------------------------------
(* What the operations of a list do to it, to who is in it and to its      *)
(* order.  Added at the end: *)
LEMMA Adding ==
  ASSUME NEW S, NEW s \in Seq(S), NEW t \in S
  PROVE  /\ Append(s, t) \in Seq(S)
         /\ \A u : Has(Append(s, t), u) <=> Has(s, u) \/ u = t
         /\ ~ Has(s, t) => \A u : Once(s, u) => Once(Append(s, t), u)
<1>1. /\ Append(s, t) \in Seq(S) /\ DOMAIN Append(s, t) = 1 .. Len(s) + 1
      /\ \A i \in 1 .. Len(s) : Append(s, t)[i] = s[i]
      /\ Append(s, t)[Len(s) + 1] = t
      /\ DOMAIN s = 1 .. Len(s) /\ Len(s) \in Nat
  BY AppendProperties
<1>2. \A i \in 1 .. Len(s) + 1 : i \in 1 .. Len(s) \/ i = Len(s) + 1
  BY <1>1
<1>3. \A u : Has(Append(s, t), u) <=> Has(s, u) \/ u = t
  BY <1>1, <1>2 DEF Has
<1>4. ASSUME ~ Has(s, t), NEW u, Once(s, u)
      PROVE  Once(Append(s, t), u)
  BY <1>1, <1>2, <1>4 DEF Has, Once
<1>. QED
  BY <1>1, <1>3, <1>4

(* A list from its place p on. *)
LEMMA RestOf ==
  ASSUME NEW S, NEW s \in Seq(S), NEW p \in 1 .. Len(s) + 1
  PROVE  LET b == SubSeq(s, p, Len(s))
         IN  /\ b \in Seq(S) /\ Len(b) = Len(s) + 1 - p
             /\ \A i \in 1 .. Len(s) + 1 - p : b[i] = s[p + i - 1]
<1>. DEFINE b == SubSeq(s, p, Len(s))
<1>1. Len(s) \in Nat /\ DOMAIN s = 1 .. Len(s) /\ p \in Nat /\ 1 <= p /\ p <= Len(s) + 1
  OBVIOUS
<1>2. p \in Int /\ Len(s) \in Int /\ \A i \in p .. Len(s) : s[i] \in S
  BY <1>1
<1>3. /\ b \in Seq(S) /\ Len(b) = IF p <= Len(s) THEN Len(s) - p + 1 ELSE 0
      /\ \A i \in 1 .. Len(s) - p + 1 : b[i] = s[p + i - 1]
  BY <1>2, SubSeqProperties
<1>. HIDE DEF b
<1>4. Len(b) = Len(s) + 1 - p
  <2>1. \A m, n \in Nat : m <= n + 1 =>
          /\ (IF m <= n THEN n - m + 1 ELSE 0) = n + 1 - m
          /\ n - m + 1 = n + 1 - m
    OBVIOUS
  <2>. QED
    BY <1>1, <1>3, <2>1
<1>5. ASSUME NEW i \in 1 .. Len(s) + 1 - p
      PROVE  b[i] = s[p + i - 1]
  <2>1. i \in 1 .. Len(s) - p + 1
    BY <1>1
  <2>. QED
    BY <1>3, <2>1
<1>. QED
  BY <1>3, <1>4, <1>5 DEF b

(* The place k of a list is left out. *)
LEMMA LeavingOut ==
  ASSUME NEW S, NEW s \in Seq(S), NEW k \in 1 .. Len(s)
  PROVE  /\ RemoveAt(s, k) \in Seq(S) /\ Len(RemoveAt(s, k)) = Len(s) - 1
         /\ \A i \in 1 .. Len(s) - 1 :
              RemoveAt(s, k)[i] = IF i < k THEN s[i] ELSE s[i + 1]
<1>. DEFINE a == SubSeq(s, 1, k - 1)
            b == SubSeq(s, k + 1, Len(s))
<1>1. Len(s) \in Nat /\ DOMAIN s = 1 .. Len(s) /\ k \in Nat /\ 1 <= k /\ k <= Len(s)
  OBVIOUS
<1>2. a \in Seq(S) /\ Len(a) = k - 1 /\ \A i \in 1 .. k - 1 : a[i] = s[i]
  BY <1>1, SubSeqProperties
<1>3. b \in Seq(S) /\ Len(b) = Len(s) - k /\ \A i \in 1 .. Len(s) - k : b[i] = s[k + i]
  <2>1. k + 1 \in 1 .. Len(s) + 1
    BY <1>1
  <2>2. /\ b \in Seq(S) /\ Len(b) = Len(s) + 1 - (k + 1)
        /\ \A i \in 1 .. Len(s) + 1 - (k + 1) : b[i] = s[(k + 1) + i - 1]
    BY <2>1, RestOf
  <2>. HIDE DEF b
  <2>3. Len(s) + 1 - (k + 1) = Len(s) - k
    <3>1. \A m, n \in Nat : n + 1 - (m + 1) = n - m
      OBVIOUS
    <3>. QED
      BY <1>1, <3>1
  <2>4. \A i \in 1 .. Len(s) - k : (k + 1) + i - 1 = k + i
    BY <1>1
  <2>. QED
    BY <2>2, <2>3, <2>4
<1>. HIDE DEF a, b
<1>4. /\ a \o b \in Seq(S) /\ Len(a \o b) = Len(s) - 1
      /\ \A i \in 1 .. Len(s) - 1 : (a \o b)[i] = IF i <= k - 1 THEN a[i] ELSE b[i - (k - 1)]
  <2>1. /\ a \o b \in Seq(S) /\ Len(a \o b) = Len(a) + Len(b)
        /\ \A i \in 1 .. Len(a) + Len(b) :
             (a \o b)[i] = IF i <= Len(a) THEN a[i] ELSE b[i - Len(a)]
    BY <1>2, <1>3, ConcatProperties
  <2>2. Len(a) + Len(b) = Len(s) - 1
    BY <1>1, <1>2, <1>3
  <2>. QED
    BY <1>2, <2>1, <2>2
<1>5. RemoveAt(s, k) = a \o b
  BY DEF RemoveAt, a, b
<1>6. ASSUME NEW i \in 1 .. Len(s) - 1
      PROVE  (a \o b)[i] = IF i < k THEN s[i] ELSE s[i + 1]
  <2>1. CASE i < k
    BY <1>1, <1>2, <1>4, <2>1
  <2>2. CASE ~ (i < k)
    <3>1. i - (k - 1) \in 1 .. Len(s) - k /\ k + (i - (k - 1)) = i + 1
      BY <1>1, <2>2
    <3>. QED
      BY <1>1, <1>3, <1>4, <2>2, <3>1
  <2>. QED
    BY <2>1, <2>2
<1>. QED
  BY <1>4, <1>5, <1>6

(* A set of naturals with an element has a least one. *)
LEMMA LeastNatural ==
  ASSUME NEW T \in SUBSET Nat, T # {}
  PROVE  \E x \in T : \A y \in T : x <= y
<1>. DEFINE R == OpToRel(<, Nat)
<1>1. PICK x \in T : \A y \in T : ~ (<<y, x>> \in R)
  <2>. HIDE DEF R
  <2>1. IsWellFoundedOn(R, Nat)
    BY NatLessThanWellFounded DEF R
  <2>. QED
    BY <2>1, WFMin
<1>2. \A y \in T : y \in Nat /\ x \in Nat /\ ~ (y < x)
  BY <1>1 DEF OpToRel, R
<1>. HIDE DEF R
<1>. QED
  BY <1>2

(* The first t of a list is left out. *)
LEMMA FirstFound ==
  ASSUME NEW S, NEW s \in Seq(S), NEW t, Has(s, t)
  PROVE  \E k \in 1 .. Len(s) : s[k] = t /\ Without(s, t) = RemoveAt(s, k)
<1>. DEFINE I == {i \in 1 .. Len(s) : s[i] = t}
<1>1. I \in SUBSET Nat /\ I # {}
  BY DEF Has
<1>2. PICK x \in I : \A y \in I : x <= y
  BY <1>1, LeastNatural
<1>3. Min(I) \in I
  BY <1>2 DEF Min
<1>4. Without(s, t) = RemoveAt(s, Min(I))
  BY <1>1 DEF Without, RemoveFirst, SelectInSeq
<1>. QED
  BY <1>3, <1>4

(* Taken out of a list it is in once at most. *)
LEMMA TakingOut ==
  ASSUME NEW S, NEW s \in Seq(S), NEW t, Once(s, t)
  PROVE  /\ Without(s, t) \in Seq(S)
         /\ \A u : Has(Without(s, t), u) <=> Has(s, u) /\ u # t
         /\ \A u : Once(s, u) => Once(Without(s, t), u)
         /\ \A f : SortedBy(s, f) => SortedBy(Without(s, t), f)
<1>1. CASE ~ Has(s, t)
  <2>1. Without(s, t) = s
    BY <1>1 DEF Has, Without, RemoveFirst
  <2>. QED
    BY <1>1, <2>1
<1>2. CASE Has(s, t)
  <2>1. PICK k \in 1 .. Len(s) : s[k] = t /\ Without(s, t) = RemoveAt(s, k)
    BY <1>2, FirstFound
  <2>. DEFINE r == Without(s, t)
              From(i) == IF i < k THEN i ELSE i + 1
  <2>2. /\ r \in Seq(S) /\ Len(r) = Len(s) - 1 /\ Len(s) \in Nat
        /\ DOMAIN r = 1 .. Len(s) - 1 /\ DOMAIN s = 1 .. Len(s)
        /\ \A i \in 1 .. Len(s) - 1 : r[i] = IF i < k THEN s[i] ELSE s[i + 1]
    <3>1. /\ r \in Seq(S) /\ Len(r) = Len(s) - 1
          /\ \A i \in 1 .. Len(s) - 1 : r[i] = IF i < k THEN s[i] ELSE s[i + 1]
      BY <2>1, LeavingOut
    <3>. HIDE DEF r
    <3>. QED
      BY <3>1, LenProperties
  <2>. HIDE DEF r
  <2>3. \A i \in DOMAIN r : From(i) \in DOMAIN s /\ From(i) # k /\ r[i] = s[From(i)]
    BY <2>1, <2>2
  <2>4. \A i, j \in DOMAIN r : /\ From(i) = From(j) => i = j
                               /\ i < j => From(i) < From(j)
    BY <2>1, <2>2
  <2>5. ASSUME NEW u, NEW j \in DOMAIN s, s[j] = u, u # t
        PROVE  Has(r, u)
    <3>1. CASE j < k
      BY <2>1, <2>2, <2>5, <3>1 DEF Has
    <3>2. CASE j > k
      <4>1. j - 1 \in DOMAIN r /\ ~ (j - 1 < k) /\ j - 1 + 1 = j
        BY <2>1, <2>2, <3>2
      <4>. QED
        BY <2>2, <2>5, <4>1 DEF Has
    <3>. QED
      BY <2>1, <2>2, <2>5, <3>1, <3>2
  <2>. HIDE DEF From
  <2>6. ASSUME NEW u, Has(r, u)
        PROVE  Has(s, u) /\ u # t
    <3>1. PICK i \in DOMAIN r : r[i] = u
      BY <2>6 DEF Has
    <3>. QED
      BY <2>1, <2>2, <2>3, <3>1 DEF Has, Once
  <2>7. ASSUME NEW u, Once(s, u)
        PROVE  Once(r, u)
    BY <2>3, <2>4, <2>7 DEF Once
  <2>8. ASSUME NEW f, SortedBy(s, f)
        PROVE  SortedBy(r, f)
    BY <2>3, <2>4, <2>8 DEF SortedBy
  <2>. QED
    BY <2>2, <2>5, <2>6, <2>7, <2>8 DEF Has, r
<1>. QED
  BY <1>1, <1>2

(* The front of a list that has it once is taken. *)
LEMMA TakingFront ==
  ASSUME NEW S, NEW s \in Seq(S), s # << >>, Once(s, Head(s))
  PROVE  /\ Head(s) \in S /\ Has(s, Head(s)) /\ Tail(s) \in Seq(S)
         /\ \A u : Has(Tail(s), u) <=> Has(s, u) /\ u # Head(s)
         /\ \A u : Once(s, u) => Once(Tail(s), u)
         /\ \A f : SortedBy(s, f) => SortedBy(Tail(s), f)
         /\ \A f, u : SortedBy(s, f) /\ Has(s, u) => f[Head(s)].start <= f[u].start \/ u = Head(s)
<1>. DEFINE r == Tail(s)
<1>1. /\ Head(s) \in S /\ Head(s) = s[1] /\ r \in Seq(S) /\ Len(r) = Len(s) - 1
      /\ \A i \in 1 .. Len(s) - 1 : r[i] = s[i + 1]
      /\ DOMAIN s = 1 .. Len(s) /\ DOMAIN r = 1 .. Len(s) - 1
      /\ Len(s) \in Nat /\ Len(s) > 0
  BY HeadTailProperties
<1>. HIDE DEF r
<1>2. \A i \in DOMAIN r : i + 1 \in DOMAIN s /\ r[i] = s[i + 1] /\ i + 1 # 1 /\ i \in Int
  BY <1>1
<1>3. \A j \in DOMAIN s : j = 1 \/ (j - 1 \in DOMAIN r /\ r[j - 1] = s[j])
  <2>. SUFFICES ASSUME NEW j \in DOMAIN s, j # 1
                PROVE  j - 1 \in DOMAIN r /\ r[j - 1] = s[j]
    OBVIOUS
  <2>1. j - 1 \in 1 .. Len(s) - 1 /\ j - 1 + 1 = j
    BY <1>1
  <2>. QED
    BY <1>1, <2>1
<1>4. 1 \in DOMAIN s
  BY <1>1
<1>5. ASSUME NEW u
      PROVE  Has(r, u) <=> Has(s, u) /\ u # Head(s)
  <2>1. ASSUME Has(r, u)
        PROVE  Has(s, u) /\ u # Head(s)
    BY <1>1, <1>2, <1>4, <2>1 DEF Has, Once
  <2>2. ASSUME Has(s, u), u # Head(s)
        PROVE  Has(r, u)
    BY <1>1, <1>3, <2>2 DEF Has
  <2>. QED
    BY <2>1, <2>2
<1>6. ASSUME NEW u, Once(s, u)
      PROVE  Once(r, u)
  <2>1. ASSUME NEW i \in DOMAIN r, NEW j \in DOMAIN r, r[i] = u, r[j] = u
        PROVE  i = j
    <3>1. i + 1 = j + 1
      BY <1>2, <1>6, <2>1 DEF Once
    <3>. QED
      BY <1>2, <3>1
  <2>. QED
    BY <2>1 DEF Once
<1>7. ASSUME NEW f, SortedBy(s, f)
      PROVE  SortedBy(r, f)
  <2>1. \A i, j \in DOMAIN r : i < j => i + 1 < j + 1
    BY <1>2
  <2>. QED
    BY <1>2, <1>7, <2>1 DEF SortedBy
<1>8. Has(s, Head(s))
  BY <1>1, <1>4 DEF Has
<1>9. ASSUME NEW f, NEW u, SortedBy(s, f), Has(s, u), u # Head(s)
      PROVE  f[Head(s)].start <= f[u].start
  <2>1. PICK j \in DOMAIN s : s[j] = u
    BY <1>9 DEF Has
  <2>2. 1 < j
    BY <1>1, <1>9, <2>1
  <2>. QED
    BY <1>1, <1>4, <1>9, <2>1, <2>2 DEF SortedBy
<1>. QED
  BY <1>1, <1>5, <1>6, <1>7, <1>8, <1>9 DEF r

(* A timer is put at place p of a list. *)
LEMMA PuttingIn ==
  ASSUME NEW S, NEW s \in Seq(S), NEW t \in S, NEW p \in 1 .. Len(s) + 1
  PROVE  /\ InsertAt(s, p, t) \in Seq(S) /\ Len(InsertAt(s, p, t)) = Len(s) + 1
         /\ \A i \in 1 .. Len(s) + 1 :
              InsertAt(s, p, t)[i] = IF i < p THEN s[i] ELSE IF i = p THEN t ELSE s[i - 1]
<1>. DEFINE a == SubSeq(s, 1, p - 1)
            b == SubSeq(s, p, Len(s))
            c == a \o <<t>>
            r == InsertAt(s, p, t)
<1>1. Len(s) \in Nat /\ DOMAIN s = 1 .. Len(s) /\ p \in Nat /\ 1 <= p /\ p <= Len(s) + 1
  OBVIOUS
<1>2. a \in Seq(S) /\ Len(a) = p - 1 /\ \A i \in 1 .. p - 1 : a[i] = s[i]
  BY <1>1, SubSeqProperties
<1>3. /\ b \in Seq(S) /\ Len(b) = Len(s) + 1 - p
      /\ \A i \in 1 .. Len(s) + 1 - p : b[i] = s[p + i - 1]
  BY RestOf
<1>4. r = c \o b
  BY DEF InsertAt
<1>. HIDE DEF a, b, r
<1>5. c \in Seq(S) /\ Len(c) = p /\ \A i \in 1 .. p : c[i] = IF i < p THEN s[i] ELSE t
  <2>1. c = Append(a, t)
    BY <1>2, AppendIsConcat
  <2>2. c \in Seq(S) /\ Len(c) = p - 1 + 1 /\ c[p - 1 + 1] = t /\ \A i \in 1 .. p - 1 : c[i] = a[i]
    <3>1. /\ Append(a, t) \in Seq(S) /\ Len(Append(a, t)) = Len(a) + 1
          /\ Append(a, t)[Len(a) + 1] = t
          /\ \A i \in 1 .. Len(a) : Append(a, t)[i] = a[i]
      BY <1>2, AppendProperties
    <3>. QED
      BY <1>2, <2>1, <3>1, Zenon
  <2>3. p - 1 + 1 = p /\ \A i \in 1 .. p : i = p \/ (i < p /\ i \in 1 .. p - 1)
    BY <1>1
  <2>. HIDE DEF c
  <2>. QED
    BY <1>2, <2>2, <2>3
<1>. HIDE DEF c
<1>6. /\ r \in Seq(S) /\ Len(r) = Len(s) + 1
      /\ \A i \in 1 .. Len(s) + 1 : r[i] = IF i <= p THEN c[i] ELSE b[i - p]
  <2>1. /\ c \o b \in Seq(S) /\ Len(c \o b) = Len(c) + Len(b)
        /\ \A i \in 1 .. Len(c) + Len(b) :
             (c \o b)[i] = IF i <= Len(c) THEN c[i] ELSE b[i - Len(c)]
    BY <1>3, <1>5, ConcatProperties
  <2>2. Len(c) + Len(b) = Len(s) + 1
    BY <1>1, <1>3, <1>5
  <2>. QED
    BY <1>4, <1>5, <2>1, <2>2
<1>7. ASSUME NEW i \in 1 .. Len(s) + 1
      PROVE  r[i] = IF i < p THEN s[i] ELSE IF i = p THEN t ELSE s[i - 1]
  <2>1. CASE i <= p
    <3>1. i \in 1 .. p
      BY <1>1, <2>1
    <3>. QED
      BY <1>5, <1>6, <2>1, <3>1
  <2>2. CASE i > p
    <3>1. i - p \in 1 .. Len(s) + 1 - p /\ p + (i - p) - 1 = i - 1 /\ ~ (i <= p) /\ i # p
      BY <1>1, <2>2
    <3>2. b[i - p] = s[i - 1]
      BY <1>3, <3>1
    <3>. QED
      BY <1>6, <2>2, <3>1, <3>2
  <2>. QED
    BY <1>1, <2>1, <2>2
<1>. QED
  BY <1>6, <1>7 DEF r

(* The types of the info of the timers. *)
Infos == [Timer -> [once : BOOLEAN, period : Nat, start : Nat]]

(* Where Behind finds the place for a time: all before it are due no later *)
(* and, in an ordered list, all after it are due later.                    *)
LEMMA PlaceFound ==
  ASSUME NEW s \in Seq(Timer), info \in Infos, NEW start \in Nat
  PROVE  /\ Behind(s, start) \in 0 .. Len(s)
         /\ \A i \in 1 .. Behind(s, start) : info[s[i]].start <= start
         /\ SortedBy(s, info) =>
              \A i \in Behind(s, start) + 1 .. Len(s) : start <= info[s[i]].start
<1>. DEFINE later == {i \in DOMAIN s : info[s[i]].start > start}
<1>1. Len(s) \in Nat /\ DOMAIN s = 1 .. Len(s)
  OBVIOUS
<1>2. \A i \in DOMAIN s : s[i] \in Timer /\ info[s[i]].start \in Nat /\ i \in Nat
  BY DEF Infos
<1>3. CASE later = {}
  <2>1. Behind(s, start) = Len(s)
    BY <1>3 DEF Behind
  <2>2. \A i \in DOMAIN s : info[s[i]].start <= start
    BY <1>2, <1>3
  <2>. QED
    BY <1>1, <2>1, <2>2
<1>4. CASE later # {}
  <2>. DEFINE k == CHOOSE i \in later : \A j \in later : i <= j
  <2>1. \E i \in later : \A j \in later : i <= j
    <3>1. later \in SUBSET Nat
      BY <1>2
    <3>. QED
      BY <1>4, <3>1, LeastNatural
  <2>2. k \in later /\ \A j \in later : k <= j
    BY <2>1
  <2>3. Behind(s, start) = k - 1
    BY <1>4 DEF Behind
  <2>. HIDE DEF k
  <2>4. k \in 1 .. Len(s) /\ info[s[k]].start > start
    BY <1>1, <2>2
  <2>5. ASSUME NEW i \in 1 .. k - 1
        PROVE  info[s[i]].start <= start
    <3>1. i \in DOMAIN s /\ ~ (k <= i)
      BY <1>1, <2>4
    <3>. QED
      BY <1>2, <2>2, <3>1
  <2>6. ASSUME SortedBy(s, info), NEW i \in k .. Len(s)
        PROVE  start <= info[s[i]].start
    <3>1. i \in DOMAIN s /\ k \in DOMAIN s /\ (i = k \/ k < i)
      BY <1>1, <2>4
    <3>2. info[s[k]].start <= info[s[i]].start
      BY <1>2, <2>6, <3>1 DEF SortedBy
    <3>. QED
      BY <1>2, <2>4, <3>1, <3>2
  <2>7. k - 1 \in 0 .. Len(s) /\ k - 1 + 1 = k
    BY <1>1, <2>4
  <2>. QED
    BY <2>3, <2>5, <2>6, <2>7
<1>. QED
  BY <1>3, <1>4

(* Put into the running list at its place. *)
LEMMA Placing ==
  ASSUME NEW s \in Seq(Timer), info \in Infos, NEW t \in Timer, ~ Has(s, t)
  PROVE  /\ Placed(s, t, info[t].start) \in Seq(Timer)
         /\ \A u : Has(Placed(s, t, info[t].start), u) <=> Has(s, u) \/ u = t
         /\ \A u : Once(s, u) => Once(Placed(s, t, info[t].start), u)
         /\ SortedBy(s, info) => SortedBy(Placed(s, t, info[t].start), info)
<1>. DEFINE start == info[t].start
            p == Behind(s, start) + 1
            r == Placed(s, t, start)
            From(i) == IF i < p THEN i ELSE i - 1
<1>1. start \in Nat /\ \A i \in DOMAIN s : s[i] \in Timer /\ info[s[i]].start \in Nat
  BY DEF Infos
<1>2. /\ p \in 1 .. Len(s) + 1 /\ \A i \in 1 .. p - 1 : info[s[i]].start <= start
      /\ SortedBy(s, info) => \A i \in p .. Len(s) : start <= info[s[i]].start
  <2>1. /\ Behind(s, start) \in 0 .. Len(s)
        /\ \A i \in 1 .. Behind(s, start) : info[s[i]].start <= start
        /\ SortedBy(s, info) =>
             \A i \in Behind(s, start) + 1 .. Len(s) : start <= info[s[i]].start
    BY <1>1, PlaceFound
  <2>2. p \in 1 .. Len(s) + 1 /\ p - 1 = Behind(s, start)
    BY <2>1
  <2>. QED
    BY <2>1, <2>2
<1>3. r = InsertAt(s, p, t)
  BY DEF Placed
<1>. HIDE DEF start, p, r
<1>4. /\ r \in Seq(Timer) /\ DOMAIN r = 1 .. Len(s) + 1
      /\ \A i \in 1 .. Len(s) + 1 :
           r[i] = IF i < p THEN s[i] ELSE IF i = p THEN t ELSE s[i - 1]
  <2>1. /\ r \in Seq(Timer) /\ Len(r) = Len(s) + 1
        /\ \A i \in 1 .. Len(s) + 1 :
             r[i] = IF i < p THEN s[i] ELSE IF i = p THEN t ELSE s[i - 1]
    <3>1. /\ InsertAt(s, p, t) \in Seq(Timer) /\ Len(InsertAt(s, p, t)) = Len(s) + 1
          /\ \A i \in 1 .. Len(s) + 1 :
               InsertAt(s, p, t)[i] = IF i < p THEN s[i] ELSE IF i = p THEN t ELSE s[i - 1]
      BY <1>2, PuttingIn
    <3>. QED
      BY <1>3, <3>1, Zenon
  <2>. QED
    BY <2>1, LenProperties
<1>5. /\ Len(s) \in Nat /\ DOMAIN s = 1 .. Len(s) /\ p \in Nat /\ 1 <= p /\ p <= Len(s) + 1
      /\ p \in DOMAIN r /\ r[p] = t
  BY <1>2, <1>4
<1>6. \A i \in DOMAIN r : i # p => From(i) \in DOMAIN s /\ r[i] = s[From(i)]
  BY <1>4, <1>5
<1>7. \A i, j \in DOMAIN r : i # p /\ j # p =>
        (From(i) = From(j) => i = j) /\ (i < j => From(i) < From(j))
  BY <1>4, <1>5
<1>8. \A i \in DOMAIN r : /\ i < p => From(i) \in 1 .. p - 1
                          /\ i > p => From(i) \in p .. Len(s)
                          /\ i \in Int
  BY <1>4, <1>5
<1>9. ASSUME NEW j \in DOMAIN s
      PROVE  \E i \in DOMAIN r : r[i] = s[j]
  <2>1. CASE j < p
    BY <1>4, <1>5, <2>1
  <2>2. CASE j >= p
    <3>1. j + 1 \in DOMAIN r /\ ~ (j + 1 < p) /\ j + 1 # p /\ j + 1 - 1 = j
      BY <1>4, <1>5, <2>2
    <3>. QED
      BY <1>4, <3>1
  <2>. QED
    BY <1>5, <2>1, <2>2
<1>. HIDE DEF From
<1>10. ASSUME NEW u
       PROVE  Has(r, u) <=> Has(s, u) \/ u = t
  BY <1>5, <1>6, <1>9 DEF Has
<1>11. ASSUME NEW u, Once(s, u)
       PROVE  Once(r, u)
  BY <1>5, <1>6, <1>7, <1>11 DEF Has, Once
<1>12. ASSUME SortedBy(s, info)
       PROVE  SortedBy(r, info)
  <2>1. ASSUME NEW i \in DOMAIN r, NEW j \in DOMAIN r, i < j
        PROVE  info[r[i]].start <= info[r[j]].start
    <3>1. CASE i # p /\ j # p
      BY <1>6, <1>7, <1>12, <2>1, <3>1 DEF SortedBy
    <3>2. CASE i = p
      <4>1. j > p
        BY <1>5, <1>8, <2>1, <3>2
      <4>. QED
        BY <1>2, <1>5, <1>6, <1>8, <1>12, <3>2, <4>1 DEF start
    <3>3. CASE j = p
      <4>1. i < p
        BY <2>1, <3>3
      <4>2. i # p
        BY <1>5, <1>8, <4>1
      <4>. QED
        BY <1>2, <1>5, <1>6, <1>8, <3>3, <4>1, <4>2 DEF start
    <3>. QED
      BY <3>1, <3>2, <3>3
  <2>. QED
    BY <2>1 DEF SortedBy
<1>. QED
  BY <1>4, <1>10, <1>11, <1>12 DEF r, start

(* What a caller may have in hand. *)
Hands == [at : {"idle", "create", "start", "insert", "stop", "destroy"},
          id : Timer \cup {NoTimer}, once : BOOLEAN, period : Nat]

-----------------------------------------------------------------------------
LEMMA InitTimer == Init => TimerInv
<1>. SUFFICES ASSUME Init
              PROVE  TimerInv
  OBVIOUS
<1>. USE MultiTimerAssumption DEF Init
<1>1. TypeOK
  <2>1. FirstId \in Timer \cup {MaxTimers + 1}
    BY DEF FirstId, NoTimer, Timer
  <2>2. << >> \in Seq(Timer)
    OBVIOUS
  <2>3. \A n \in Nat : 0 \in 0 .. n
    OBVIOUS
  <2>4. info \in Infos
    BY DEF Infos
  <2>. QED
    BY <2>1, <2>2, <2>3, <2>4 DEF TypeOK, Idle, Infos
<1>2. /\ \A t : ~ Has(<< >>, t) /\ Once(<< >>, t)
      /\ \A c \in Caller : pc[c].at = "idle"
      /\ \A t \in Timer : ~ (t < next)
  <2>1. DOMAIN << >> = {}
    OBVIOUS
  <2>2. \A t : ~ Has(<< >>, t) /\ Once(<< >>, t)
    BY <2>1 DEF Has, Once
  <2>3. \A c \in Caller : pc[c].at = "idle"
    BY DEF Idle
  <2>4. \A t \in Timer : ~ (t < next)
    BY DEF Timer, FirstId, NoTimer
  <2>. QED
    BY <2>2, <2>3, <2>4
<1>3. AloneOK /\ KnownOK /\ QuietOK /\ AccountedOK /\ GoneOK /\ DestroyOK /\ TimedOK
  BY <1>2 DEF AloneOK, Alone, InHand, KnownOK, InList, QuietOK, RunningLocked, AccountedOK,
     GoneOK, DestroyOK, TimedOK, Timed
<1>4. SortedBy(running, info)
  BY DEF SortedBy
<1>. QED
  BY <1>1, <1>3, <1>4 DEF TimerInv

(* A step that moves no timer and no caller, and leaves the times and who  *)
(* may have what as it is, keeps the invariant.                            *)
LEMMA Unmoved ==
  ASSUME TimerInv, UNCHANGED <<lists, info, pc, next, owner, past>>,
         alive' \in BOOLEAN, inits' \in 0 .. MaxInits, calls' \in 0 .. MaxCalls,
         now' \in Nat, clock' \in Nat,
         thread' \in {"off", "begin", "loop", "fire", "requeue", "sleep", "end"},
         ~ RunningLocked' => fired = << >>,
         owner = "off" => thread' = "off",
         looked => thread' \notin {"off", "begin"} /\ now' <= clock' /\ clock <= clock'
  PROVE  TimerInv'
<1>. USE DEF TimerInv, lists, past
<1>1. TypeOK'
  BY DEF TypeOK
<1>2. AloneOK' /\ KnownOK' /\ AccountedOK' /\ GoneOK' /\ DestroyOK' /\ SortedBy(running, info)'
  BY DEF AloneOK, Alone, InHand, Held, KnownOK, InList, AccountedOK, Destroying, GoneOK,
     DestroyOK
<1>3. QuietOK'
  BY DEF QuietOK, RunningLocked
<1>4. TimedOK'
  <2>1. ASSUME NEW t \in Timer
        PROVE  info[t].start \in Nat /\ info[t].period \in Nat /\ clock \in Nat
    BY DEF TypeOK
  <2>. QED
    BY <2>1 DEF TimedOK, Timed
<1>. QED
  BY <1>1, <1>2, <1>3, <1>4

(* A call more. *)
LEMMA OneCall ==
  ASSUME TypeOK, calls < MaxCalls, calls' = calls + 1
  PROVE  calls' \in 0 .. MaxCalls
<1>1. calls \in 0 .. MaxCalls
  BY DEF TypeOK
<1>. QED
  BY <1>1, MultiTimerAssumption

(* A call that finds nothing is only counted. *)
LEMMA Counted ==
  ASSUME TimerInv, UNCHANGED <<lists, info, pc, next, owner, past, alive, inits, now, clock, thread>>,
         calls < MaxCalls, calls' = calls + 1
  PROVE  TimerInv'
<1>1. UNCHANGED <<lists, info, pc, next, owner, past>>
  OBVIOUS
<1>2. /\ alive' \in BOOLEAN /\ inits' \in 0 .. MaxInits /\ now' \in Nat /\ clock' \in Nat
      /\ thread' \in {"off", "begin", "loop", "fire", "requeue", "sleep", "end"}
      /\ calls \in 0 .. MaxCalls
  BY DEF TimerInv, TypeOK
<1>3. calls' \in 0 .. MaxCalls
  BY <1>2, MultiTimerAssumption
<1>4. /\ ~ RunningLocked' => fired = << >>
      /\ owner = "off" => thread' = "off"
      /\ looked => thread' \notin {"off", "begin"} /\ now' <= clock' /\ clock <= clock'
  BY <1>2 DEF TimerInv, QuietOK, RunningLocked
<1>. QED
  BY <1>1, <1>2, <1>3, <1>4, Unmoved

LEMMA CreateIdStep ==
  ASSUME TimerInv, NEW c \in Caller, CreateId(c)
  PROVE  TimerInv'
<1>. USE MultiTimerAssumption DEF TimerInv, CreateId, life, time, lists, past
<1>1. /\ next \in Timer /\ next' \in Timer \cup {MaxTimers + 1}
      /\ \A t \in Timer : t < next' <=> t < next \/ t = next
  <2>1. next \in Timer \cup {MaxTimers + 1} /\ next <= MaxTimers
    BY DEF TypeOK
  <2>. QED
    BY <2>1 DEF Timer
<1>2. TypeOK'
  <2>1. calls' \in 0 .. MaxCalls
    BY OneCall
  <2>2. pc' \in [Caller -> Hands]
    BY <1>1 DEF TypeOK, Idle, Hands
  <2>. QED
    BY <1>1, <2>1, <2>2 DEF TypeOK, Hands
<1>3. /\ pc[c].at = "idle" /\ pc'[c].at = "create" /\ pc'[c].id = next
      /\ \A d \in Caller \ {c} : pc'[d] = pc[d]
  BY DEF TypeOK, Idle
<1>4. ~ InList(next) /\ ~ Held(next) /\ next \notin gone
      /\ \A d \in Caller : pc[d].at # "idle" => pc[d].id # next
  <2>1. ~ (next < next)
    BY <1>1 DEF Timer
  <2>. QED
    BY <1>1, <2>1 DEF KnownOK, Held, InHand
<1>5. AloneOK'
  BY <1>3, <1>4 DEF AloneOK, Alone, InHand, Held, InList
<1>6. KnownOK'
  BY <1>1, <1>3 DEF KnownOK, InList
<1>7. QuietOK'
  BY <1>3 DEF QuietOK, RunningLocked
<1>8. AccountedOK'
  BY <1>1, <1>3 DEF AccountedOK, InList, Held, InHand, Destroying
<1>9. GoneOK'
  BY <1>3, <1>4 DEF GoneOK, InList, Held, InHand
<1>10. DestroyOK'
  BY <1>3, <1>4 DEF DestroyOK, Held, InHand
<1>11. TimedOK'
  BY <1>3 DEF TimedOK, Timed
<1>. QED
  BY <1>2, <1>5, <1>6, <1>7, <1>8, <1>9, <1>10, <1>11

(* The timer a call has in hand goes to the end of the pending list. *)
LEMMA HandedToPending ==
  ASSUME TimerInv, NEW c \in Caller, NEW t \in Timer, InHand(c, t), pc[c].at # "insert",
         pc'[c] = Idle, \A d \in Caller \ {c} : pc'[d] = pc[d], pc' = [pc EXCEPT ![c] = Idle],
         pending' = Append(pending, t),
         UNCHANGED <<alive, owner, inits, next, now, clock, running, fired, info, thread, calls,
                     gone, crossed, looked, early>>
  PROVE  TimerInv'
<1>. USE DEF TimerInv
<1>1. pc'[c].at = "idle" /\ Held(t) /\ pc[c].at \notin {"idle", "destroy"} /\ pc[c].id = t
  BY DEF Idle, InHand, Held
<1>2. t < next
  BY <1>1 DEF KnownOK
<1>3. ~ InList(t) /\ Once(pending, t) /\ \A d \in Caller : InHand(d, t) => d = c
  BY <1>1 DEF AloneOK, Alone, InList
<1>4. /\ pending' \in Seq(Timer)
      /\ \A u : Has(pending', u) <=> Has(pending, u) \/ u = t
      /\ \A u : Once(pending, u) => Once(pending', u)
  BY <1>3, Adding DEF InList, TypeOK
<1>5. TypeOK'
  BY <1>4 DEF TypeOK, Idle
<1>6. AloneOK'
  BY <1>1, <1>3, <1>4 DEF AloneOK, Alone, InHand, Held, InList
<1>7. KnownOK'
  BY <1>1, <1>2, <1>4 DEF KnownOK, InList
<1>8. QuietOK'
  BY <1>1 DEF QuietOK, RunningLocked
<1>9. AccountedOK'
  BY <1>1, <1>4 DEF AccountedOK, InList, Held, InHand, Destroying
<1>10. GoneOK'
  BY <1>1, <1>2, <1>4 DEF GoneOK, InList, Held, InHand
<1>11. DestroyOK'
  BY <1>1, <1>2 DEF DestroyOK, Held, InHand
<1>12. TimedOK'
  BY <1>1 DEF TimedOK, Timed
<1>. QED
  BY <1>5, <1>6, <1>7, <1>8, <1>9, <1>10, <1>11, <1>12

LEMMA CreateAddStep ==
  ASSUME TimerInv, NEW c \in Caller, CreateAdd(c)
  PROVE  TimerInv'
<1>. USE DEF CreateAdd, life, time, past
<1>1. pc[c].at = "create" /\ pc'[c] = Idle /\ \A d \in Caller \ {c} : pc'[d] = pc[d]
  BY DEF TimerInv, TypeOK, Idle
<1>2. pc[c].id \in Timer /\ InHand(c, pc[c].id)
  BY <1>1 DEF TimerInv, KnownOK, InHand
<1>. QED
  BY <1>1, <1>2, HandedToPending

LEMMA StartTakeStep ==
  ASSUME TimerInv, NEW c \in Caller, NEW t \in Timer, NEW once \in BOOLEAN, NEW p \in Period,
         StartTake(c, t, once, p)
  PROVE  TimerInv'
<1>. USE MultiTimerAssumption DEF TimerInv, StartTake, life, time
<1>1. CASE ~ Has(pending, t)
  <2>1. UNCHANGED <<lists, info, pc, next, owner, past, alive, inits, now, clock, thread>>
    BY <1>1 DEF lists, past
  <2>. QED
    BY <2>1, Counted
<1>2. CASE Has(pending, t)
  <2>1. /\ pending' = Without(pending, t) /\ running' = running /\ fired' = fired
        /\ pc[c].at = "idle" /\ pc'[c].at = "start" /\ pc'[c].id = t
        /\ \A d \in Caller \ {c} : pc'[d] = pc[d]
        /\ crossed \subseteq crossed' /\ crossed' \subseteq crossed \cup {t}
    BY <1>2 DEF TypeOK, Taken, Cross
  <2>2. /\ pending' \in Seq(Timer)
        /\ \A u : Has(pending', u) <=> Has(pending, u) /\ u # t
        /\ \A u : Once(pending, u) => Once(pending', u)
    <3>1. pending \in Seq(Timer) /\ Once(pending, t)
      BY DEF AloneOK, Alone, TypeOK
    <3>. QED
      BY <2>1, <3>1, TakingOut
  <2>3. t < next /\ t \notin gone \ crossed /\ ~ Has(running, t) /\ ~ Has(fired, t) /\ ~ Held(t)
    BY <1>2 DEF AloneOK, Alone, KnownOK, GoneOK, InList
  <2>4. TypeOK'
    <3>1. calls' \in 0 .. MaxCalls
      BY OneCall
    <3>2. [at |-> "start", id |-> t, once |-> once, period |-> p] \in Hands
      BY DEF Hands
    <3>3. pc' \in [Caller -> Hands]
      BY <1>2, <3>2 DEF TypeOK, Hands
    <3>4. crossed' \subseteq Timer
      BY <2>1 DEF TypeOK
    <3>. QED
      BY <2>2, <3>1, <3>3, <3>4 DEF TypeOK, Hands
  <2>5. AloneOK'
    BY <2>1, <2>2, <2>3 DEF AloneOK, Alone, InHand, Held
  <2>6. KnownOK'
    BY <2>1, <2>2, <2>3 DEF KnownOK, InList
  <2>7. QuietOK'
    BY <2>1 DEF QuietOK, RunningLocked
  <2>8. AccountedOK'
    BY <2>1, <2>2 DEF AccountedOK, InList, Held, InHand, Destroying
  <2>9. GoneOK'
    BY <2>1, <2>2, <2>3 DEF GoneOK, InList, Held, InHand
  <2>10. DestroyOK'
    <3>1. ASSUME NEW d \in Caller, pc[d].at = "destroy", pc[d].id = t
          PROVE  t \in crossed'
      BY <1>2, <2>1, <3>1 DEF Cross, Disputed
    <3>. QED
      BY <2>1, <3>1 DEF DestroyOK, Held, InHand
  <2>11. TimedOK'
    BY <2>1 DEF TimedOK, Timed
  <2>. QED
    BY <2>1, <2>4, <2>5, <2>6, <2>7, <2>8, <2>9, <2>10, <2>11
<1>. QED
  BY <1>1, <1>2

LEMMA StartTimeStep ==
  ASSUME TimerInv, NEW c \in Caller, StartTime(c)
  PROVE  TimerInv'
<1>. USE MultiTimerAssumption DEF TimerInv, StartTime, life, time, lists
<1>. DEFINE t == pc[c].id
            i == [once |-> pc[c].once, period |-> pc[c].period, start |-> now + pc[c].period]
<1>1. /\ pc[c].at = "start" /\ pc'[c].at = "insert" /\ pc'[c].id = t
      /\ \A d \in Caller \ {c} : pc'[d] = pc[d]
      /\ pending' = pending /\ running' = running /\ fired' = fired /\ next' = next
      /\ gone' = gone /\ crossed' = crossed /\ looked' = looked /\ clock' = clock /\ now' = now
      /\ early' = IF looked THEN early \ {t} ELSE early \cup {t}
  BY DEF TypeOK, Stamped
<1>2. t \in Timer /\ InHand(c, t) /\ Held(t)
  BY <1>1 DEF KnownOK, InHand, Held
<1>3. ~ InList(t) /\ \A d \in Caller : InHand(d, t) => d = c
  BY <1>2 DEF AloneOK, Alone, InList
<1>4. /\ info' = [info EXCEPT ![t] = i] /\ info'[t] = i /\ i \in [once : BOOLEAN, period : Nat, start : Nat]
      /\ \A u \in Timer \ {t} : info'[u] = info[u]
      /\ info' \in Infos
  <2>1. pc[c].period \in Nat /\ pc[c].once \in BOOLEAN /\ now \in Nat
    BY DEF TypeOK
  <2>2. i \in [once : BOOLEAN, period : Nat, start : Nat]
    BY <2>1
  <2>. HIDE DEF i
  <2>3. info' = [info EXCEPT ![t] = i]
    BY DEF i
  <2>4. info \in Infos
    BY DEF TypeOK, Infos
  <2>. QED
    BY <1>2, <2>2, <2>3, <2>4 DEF Infos
<1>5. TypeOK'
  <2>1. pc' \in [Caller -> Hands]
    BY DEF TypeOK, Hands
  <2>2. early' \subseteq Timer
    BY <1>1, <1>2 DEF TypeOK
  <2>. QED
    BY <1>4, <2>1, <2>2 DEF TypeOK, Hands, Infos
<1>6. AloneOK' /\ KnownOK' /\ QuietOK'
  <2>1. ASSUME NEW u
        PROVE  /\ \A d \in Caller : InHand(d, u)' <=> InHand(d, u)
               /\ Held(u)' <=> Held(u)
    BY <1>1, <1>2 DEF InHand, Held
  <2>2. AloneOK'
    BY <1>1, <2>1 DEF AloneOK, Alone
  <2>3. KnownOK'
    BY <1>1, <1>2 DEF KnownOK, InList
  <2>4. owner # "join"
    BY <1>1 DEF QuietOK, Idle
  <2>. QED
    BY <1>1, <2>2, <2>3, <2>4 DEF QuietOK, RunningLocked
<1>7. AccountedOK' /\ GoneOK' /\ DestroyOK'
  BY <1>1, <1>2 DEF AccountedOK, InList, Held, InHand, Destroying, GoneOK, DestroyOK
<1>8. TimedOK'
  <2>1. looked => now <= clock
    BY DEF QuietOK
  <2>2. /\ info'[t].start = now + info'[t].period /\ info'[t].period \in Nat
        /\ now \in Nat /\ clock \in Nat
    BY <1>4 DEF TypeOK
  <2>3. t \in early' \/ (looked' /\ info'[t].start <= clock' + info'[t].period)
    BY <1>1, <2>1, <2>2
  <2>4. ASSUME NEW u \in Timer, u # t, Timed(u)'
        PROVE  Timed(u) /\ (u \in early => u \in early') /\ info'[u] = info[u]
    BY <1>1, <1>4, <2>4 DEF Timed
  <2>. QED
    BY <1>1, <2>3, <2>4 DEF TimedOK
<1>9. SortedBy(running', info')
  <2>1. \A j \in DOMAIN running : running[j] \in Timer /\ running[j] # t
    BY <1>3 DEF InList, Has, TypeOK
  <2>. QED
    BY <1>1, <1>4, <2>1 DEF SortedBy
<1>. QED
  BY <1>5, <1>6, <1>7, <1>8, <1>9

LEMMA StartInsertStep ==
  ASSUME TimerInv, NEW c \in Caller, StartInsert(c)
  PROVE  TimerInv'
<1>. USE MultiTimerAssumption DEF TimerInv, StartInsert, life, time, past
<1>. DEFINE t == pc[c].id
<1>1. /\ pc[c].at = "insert" /\ pc'[c].at = "idle" /\ pc'[c] = Idle
      /\ \A d \in Caller \ {c} : pc'[d] = pc[d]
  BY DEF TypeOK, Idle
<1>2. t \in Timer /\ InHand(c, t) /\ Held(t) /\ t < next
  BY <1>1 DEF KnownOK, InHand, Held
<1>3. ~ InList(t) /\ \A d \in Caller : InHand(d, t) => d = c
  BY <1>2 DEF AloneOK, Alone, InList
<1>4. /\ running' \in Seq(Timer)
      /\ \A u : Has(running', u) <=> Has(running, u) \/ u = t
      /\ \A u : Once(running, u) => Once(running', u)
      /\ SortedBy(running', info)
  <2>1. running \in Seq(Timer) /\ info \in Infos /\ ~ Has(running, t)
    BY <1>3 DEF InList, TypeOK, Infos
  <2>. QED
    BY <1>2, <2>1, Placing
<1>5. TypeOK'
  BY <1>4 DEF TypeOK, Idle
<1>6. AloneOK'
  BY <1>1, <1>3, <1>4 DEF AloneOK, Alone, InHand, Held, InList
<1>7. KnownOK'
  BY <1>1, <1>2, <1>4 DEF KnownOK, InList
<1>8. QuietOK'
  BY <1>1 DEF QuietOK, RunningLocked
<1>9. AccountedOK'
  BY <1>1, <1>4 DEF AccountedOK, InList, Held, InHand, Destroying
<1>10. GoneOK'
  BY <1>1, <1>2, <1>4 DEF GoneOK, InList, Held, InHand
<1>11. DestroyOK'
  BY <1>1, <1>2, <1>4 DEF DestroyOK, Held, InHand
<1>12. TimedOK'
  BY <1>1, <1>4 DEF TimedOK, Timed
<1>. QED
  BY <1>4, <1>5, <1>6, <1>7, <1>8, <1>9, <1>10, <1>11, <1>12

LEMMA StopTakeStep ==
  ASSUME TimerInv, NEW c \in Caller, NEW t \in Timer, StopTake(c, t)
  PROVE  TimerInv'
<1>. USE MultiTimerAssumption DEF TimerInv, StopTake, life, time
<1>1. CASE ~ Has(running, t)
  <2>1. UNCHANGED <<lists, info, pc, next, owner, past, alive, inits, now, clock, thread>>
    BY <1>1 DEF lists, past
  <2>. QED
    BY <2>1, Counted
<1>2. CASE Has(running, t)
  <2>1. /\ running' = Without(running, t) /\ pending' = pending /\ fired' = fired
        /\ pc[c].at = "idle" /\ pc'[c].at = "stop" /\ pc'[c].id = t
        /\ \A d \in Caller \ {c} : pc'[d] = pc[d]
        /\ crossed \subseteq crossed' /\ crossed' \subseteq crossed \cup {t}
    <3>1. /\ running' = Without(running, t) /\ pending' = pending /\ fired' = fired
          /\ crossed \subseteq crossed' /\ crossed' \subseteq crossed \cup {t}
      BY <1>2 DEF Taken, Cross
    <3>2. pc[c].at = "idle" /\ pc' = [pc EXCEPT ![c] = [Idle EXCEPT !.at = "stop", !.id = t]]
      BY <1>2
    <3>3. pc'[c].at = "stop" /\ pc'[c].id = t /\ \A d \in Caller \ {c} : pc'[d] = pc[d]
      BY <3>2 DEF TypeOK, Idle
    <3>. QED
      BY <3>1, <3>2, <3>3
  <2>2. /\ running' \in Seq(Timer)
        /\ \A u : Has(running', u) <=> Has(running, u) /\ u # t
        /\ \A u : Once(running, u) => Once(running', u)
        /\ SortedBy(running', info)
    <3>1. running \in Seq(Timer) /\ Once(running, t)
      BY DEF AloneOK, Alone, TypeOK
    <3>. QED
      BY <2>1, <3>1, TakingOut
  <2>3. t < next /\ t \notin gone \ crossed /\ ~ Has(pending, t) /\ ~ Has(fired, t) /\ ~ Held(t)
    BY <1>2 DEF AloneOK, Alone, KnownOK, GoneOK, InList
  <2>4. TypeOK'
    <3>1. calls' \in 0 .. MaxCalls
      BY OneCall
    <3>2. [Idle EXCEPT !.at = "stop", !.id = t] \in Hands
      BY DEF Hands, Idle
    <3>3. pc' \in [Caller -> Hands]
      BY <1>2, <3>2 DEF TypeOK, Hands
    <3>4. crossed' \subseteq Timer
      BY <2>1 DEF TypeOK
    <3>. QED
      BY <2>2, <3>1, <3>3, <3>4 DEF TypeOK, Hands
  <2>5. AloneOK'
    BY <2>1, <2>2, <2>3 DEF AloneOK, Alone, InHand, Held
  <2>6. KnownOK'
    BY <2>1, <2>2, <2>3 DEF KnownOK, InList
  <2>7. QuietOK'
    BY <2>1 DEF QuietOK, RunningLocked
  <2>8. AccountedOK'
    BY <2>1, <2>2 DEF AccountedOK, InList, Held, InHand, Destroying
  <2>9. GoneOK'
    BY <2>1, <2>2, <2>3 DEF GoneOK, InList, Held, InHand
  <2>10. DestroyOK'
    <3>1. ASSUME NEW d \in Caller, pc[d].at = "destroy", pc[d].id = t
          PROVE  t \in crossed'
      BY <1>2, <2>1, <3>1 DEF Cross, Disputed
    <3>. QED
      BY <2>1, <2>2, <3>1 DEF DestroyOK, Held, InHand
  <2>11. TimedOK'
    BY <2>1, <2>2 DEF TimedOK, Timed
  <2>. QED
    BY <2>1, <2>2, <2>4, <2>5, <2>6, <2>7, <2>8, <2>9, <2>10, <2>11
<1>. QED
  BY <1>1, <1>2

LEMMA StopAddStep ==
  ASSUME TimerInv, NEW c \in Caller, StopAdd(c)
  PROVE  TimerInv'
<1>. USE DEF StopAdd, life, time, past
<1>1. pc[c].at = "stop" /\ pc'[c] = Idle /\ \A d \in Caller \ {c} : pc'[d] = pc[d]
  BY DEF TimerInv, TypeOK, Idle
<1>2. pc[c].id \in Timer /\ InHand(c, pc[c].id)
  BY <1>1 DEF TimerInv, KnownOK, InHand
<1>. QED
  BY <1>1, <1>2, HandedToPending

LEMMA DestroyFirstStep ==
  ASSUME TimerInv, NEW c \in Caller, NEW t \in Timer, DestroyFirst(c, t)
  PROVE  TimerInv'
<1>. USE MultiTimerAssumption DEF TimerInv, DestroyFirst, life, time
<1>1. /\ running' = Without(running, t) /\ pending' = pending /\ fired' = fired /\ fired = << >>
      /\ pc[c].at = "idle" /\ pc'[c].at = "destroy" /\ pc'[c].id = t
      /\ \A d \in Caller \ {c} : pc'[d] = pc[d]
      /\ crossed \subseteq crossed' /\ crossed' \subseteq crossed \cup {t}
      /\ \A d \in Caller : d # c /\ pc[d].id = t /\ pc[d].at \in {"start", "insert", "stop", "destroy"}
                             => t \in crossed'
  BY DEF TypeOK, Cross, Idle, Delete, RunningFirst, QuietOK, Disputed
<1>2. /\ running' \in Seq(Timer)
      /\ \A u : Has(running', u) <=> Has(running, u) /\ u # t
      /\ \A u : Once(running, u) => Once(running', u)
      /\ SortedBy(running', info)
  <2>1. running \in Seq(Timer) /\ Once(running, t)
    BY DEF AloneOK, Alone, TypeOK
  <2>. QED
    BY <1>1, <2>1, TakingOut
<1>3. t < next /\ \A d \in Caller : pc[d].at = "create" => pc[d].id # t
  BY DEF Known
<1>4. TypeOK'
  <2>1. calls' \in 0 .. MaxCalls
    BY OneCall
  <2>2. [Idle EXCEPT !.at = "destroy", !.id = t] \in Hands
    BY DEF Hands, Idle
  <2>3. pc' \in [Caller -> Hands]
    BY <2>2 DEF TypeOK, Hands
  <2>4. crossed' \subseteq Timer
    BY <1>1 DEF TypeOK
  <2>. QED
    BY <1>1, <1>2, <2>1, <2>3, <2>4 DEF TypeOK, Hands
<1>5. AloneOK'
  BY <1>1, <1>2 DEF AloneOK, Alone, InHand, Held
<1>6. KnownOK'
  BY <1>1, <1>2, <1>3 DEF KnownOK, InList
<1>7. QuietOK'
  BY <1>1 DEF QuietOK, RunningLocked
<1>8. AccountedOK'
  BY <1>1, <1>2 DEF AccountedOK, InList, Held, InHand, Destroying
<1>9. GoneOK'
  BY <1>1, <1>2 DEF GoneOK, InList, Held, InHand
<1>10. DestroyOK'
  <2>1. ~ Has(fired, t)
    BY <1>1 DEF Has
  <2>2. t \notin crossed' => ~ Held(t)'
    BY <1>1, <1>3 DEF Held, InHand
  <2>. QED
    BY <1>1, <1>2, <2>1, <2>2 DEF DestroyOK, Held, InHand
<1>11. TimedOK'
  BY <1>1, <1>2 DEF TimedOK, Timed
<1>. QED
  BY <1>1, <1>2, <1>4, <1>5, <1>6, <1>7, <1>8, <1>9, <1>10, <1>11

LEMMA DestroySecondStep ==
  ASSUME TimerInv, NEW c \in Caller, DestroySecond(c)
  PROVE  TimerInv'
<1>. USE MultiTimerAssumption DEF TimerInv, DestroySecond, life, time
<1>. DEFINE t == pc[c].id
<1>1. /\ pending' = Without(pending, t) /\ running' = running /\ fired' = fired
      /\ pc[c].at = "destroy" /\ pc'[c] = Idle /\ pc'[c].at = "idle"
      /\ \A d \in Caller \ {c} : pc'[d] = pc[d]
      /\ gone' = gone \cup {t}
  BY DEF TypeOK, Idle, Delete, RunningFirst
<1>2. t \in Timer /\ t < next
  BY <1>1 DEF KnownOK
<1>3. /\ pending' \in Seq(Timer)
      /\ \A u : Has(pending', u) <=> Has(pending, u) /\ u # t
      /\ \A u : Once(pending, u) => Once(pending', u)
  <2>1. pending \in Seq(Timer) /\ Once(pending, t)
    BY <1>2 DEF AloneOK, Alone, TypeOK
  <2>. QED
    BY <1>1, <2>1, TakingOut
<1>4. t \notin crossed => ~ Has(running, t) /\ ~ Has(fired, t) /\ ~ Held(t)
  BY <1>1 DEF DestroyOK
<1>5. TypeOK'
  BY <1>1, <1>2, <1>3 DEF TypeOK, Idle
<1>6. AloneOK'
  BY <1>1, <1>3 DEF AloneOK, Alone, InHand, Held
<1>7. KnownOK'
  BY <1>1, <1>2, <1>3 DEF KnownOK, InList
<1>8. QuietOK'
  BY <1>1 DEF QuietOK, RunningLocked
<1>9. AccountedOK'
  BY <1>1, <1>3 DEF AccountedOK, InList, Held, InHand, Destroying
<1>10. GoneOK'
  BY <1>1, <1>3, <1>4 DEF GoneOK, InList, Held, InHand
<1>11. DestroyOK'
  BY <1>1, <1>3 DEF DestroyOK, Held, InHand
<1>12. TimedOK'
  BY <1>1 DEF TimedOK, Timed
<1>. QED
  BY <1>1, <1>5, <1>6, <1>7, <1>8, <1>9, <1>10, <1>11, <1>12

-----------------------------------------------------------------------------
(* The steps of the timer thread, and time, that move no timer. *)
LEMMA ThreadStep ==
  ASSUME TimerInv, Begin \/ Lock \/ FireEnd \/ Unlock \/ Tick
  PROVE  TimerInv'
<1>. USE DEF life, time, callers
<1>1. UNCHANGED <<lists, info, pc, next, owner, past>>
  BY DEF Begin, Lock, FireEnd, Unlock, Tick
<1>2. alive' \in BOOLEAN /\ inits' \in 0 .. MaxInits /\ calls' \in 0 .. MaxCalls
  BY DEF Begin, Lock, FireEnd, Unlock, Tick, TimerInv, TypeOK
<1>3. now' \in Nat /\ clock' \in Nat /\ clock \in Nat /\ (clock' = 0 \/ clock <= clock')
  <2>1. now' = now /\ (clock' = clock \/ clock' = 0 \/ clock' = clock + 1)
    BY DEF Begin, Lock, FireEnd, Unlock, Tick
  <2>2. now \in Nat /\ clock \in Nat
    BY DEF TimerInv, TypeOK
  <2>. QED
    BY <2>1, <2>2
<1>4. thread' \in {"off", "begin", "loop", "fire", "requeue", "sleep", "end"}
  BY DEF Begin, Lock, FireEnd, Unlock, Tick, TimerInv, TypeOK
<1>5. ~ RunningLocked' => fired = << >>
  BY DEF Begin, Lock, FireEnd, Unlock, Tick, TimerInv, QuietOK, RunningLocked
<1>6. owner = "off" => thread' = "off"
  BY DEF Begin, Lock, FireEnd, Unlock, Tick, TimerInv, QuietOK
<1>7. looked => thread' \notin {"off", "begin"} /\ now' <= clock' /\ clock <= clock'
  <2>1. looked => thread \notin {"off", "begin"} /\ now <= clock
    BY DEF TimerInv, QuietOK
  <2>2. looked => thread' \notin {"off", "begin"} /\ now' = now
                  /\ (clock' = clock \/ clock' = clock + 1)
    BY <2>1 DEF Begin, Lock, FireEnd, Unlock, Tick
  <2>3. now \in Nat /\ clock \in Nat
    BY DEF TimerInv, TypeOK
  <2>. QED
    BY <2>1, <2>2, <2>3
<1>. QED
  BY <1>1, <1>2, <1>3, <1>4, <1>5, <1>6, <1>7, Unmoved

(* A timer that is fired moves between two lists of the thread. *)
LEMMA FireStep ==
  ASSUME TimerInv, Fire
  PROVE  TimerInv'
<1>. USE DEF TimerInv, Fire, life, time, callers
<1>. DEFINE t == Head(running)
<1>1. /\ thread = "fire" /\ running # << >> /\ running' = Tail(running)
      /\ fired' = Append(fired, t)
      /\ pending' = pending /\ pc' = pc /\ next' = next /\ gone' = gone /\ crossed' = crossed
      /\ looked' = looked /\ clock' = clock /\ now' = now
      /\ early' = IF looked THEN early \ {t} ELSE early \cup {t}
  BY DEF Stamped
<1>2. running \in Seq(Timer) /\ t \in Timer /\ Once(running, t)
  BY <1>1 DEF TypeOK, AloneOK, Alone
<1>3. /\ Has(running, t) /\ running' \in Seq(Timer)
      /\ \A u : Has(running', u) <=> Has(running, u) /\ u # t
      /\ \A u : Once(running, u) => Once(running', u)
      /\ SortedBy(running', info)
  BY <1>1, <1>2, TakingFront
<1>4. ~ Has(pending, t) /\ ~ Has(fired, t) /\ ~ Held(t)
  BY <1>2, <1>3 DEF AloneOK, Alone
<1>5. /\ fired' \in Seq(Timer)
      /\ \A u : Has(fired', u) <=> Has(fired, u) \/ u = t
      /\ \A u : Once(fired, u) => Once(fired', u)
  <2>1. fired \in Seq(Timer)
    BY DEF TypeOK
  <2>2. /\ Append(fired, t) \in Seq(Timer)
        /\ \A u : Has(Append(fired, t), u) <=> Has(fired, u) \/ u = t
        /\ \A u : Once(fired, u) => Once(Append(fired, t), u)
    <3>. HIDE DEF TimerInv, Fire, t
    <3>. QED
      BY <1>2, <1>4, <2>1, Adding
  <2>. QED
    BY <1>1, <2>2, Zenon
<1>6. /\ info' \in Infos /\ \A u \in Timer \ {t} : info'[u] = info[u]
      /\ info'[t].start = now + info'[t].period /\ info'[t].period \in Nat
      /\ now \in Nat /\ clock \in Nat
  <2>1. info \in Infos /\ now \in Nat /\ info[t].period \in Nat
    BY <1>2 DEF TypeOK, Infos
  <2>2. info' = [info EXCEPT ![t] = [info[t] EXCEPT !.start = now + info[t].period]]
    OBVIOUS
  <2>. DEFINE i == [info[t] EXCEPT !.start = now + info[t].period]
  <2>3. /\ i \in [once : BOOLEAN, period : Nat, start : Nat]
        /\ i.start = now + info[t].period /\ i.period = info[t].period
    <3>. DEFINE r == info[t]
                s == now + info[t].period
    <3>1. r \in [once : BOOLEAN, period : Nat, start : Nat] /\ s \in Nat
      BY <1>2, <2>1 DEF Infos
    <3>2. i = [r EXCEPT !.start = s]
      OBVIOUS
    <3>. HIDE DEF r, s, i
    <3>3. /\ i \in [once : BOOLEAN, period : Nat, start : Nat]
          /\ i.start = s /\ i.period = r.period
      BY <3>1, <3>2
    <3>. QED
      BY <3>3 DEF r, s
  <2>4. clock \in Nat /\ info' = [info EXCEPT ![t] = i]
    BY <2>2 DEF TypeOK
  <2>. HIDE DEF i
  <2>5. info' \in Infos /\ info'[t] = i /\ \A u \in Timer \ {t} : info'[u] = info[u]
    BY <1>2, <2>1, <2>3, <2>4 DEF Infos
  <2>. QED
    BY <2>1, <2>3, <2>4, <2>5
<1>7. TypeOK'
  <2>1. early' \subseteq Timer
    BY <1>1, <1>2 DEF TypeOK
  <2>. QED
    BY <1>3, <1>5, <1>6, <2>1 DEF TypeOK, Infos
<1>8. AloneOK'
  BY <1>1, <1>3, <1>4, <1>5 DEF AloneOK, Alone, InHand, Held
<1>9. KnownOK' /\ QuietOK'
  BY <1>1, <1>3, <1>5 DEF KnownOK, InList, QuietOK, RunningLocked
<1>10. AccountedOK' /\ GoneOK' /\ DestroyOK'
  BY <1>1, <1>3, <1>5 DEF AccountedOK, InList, Held, InHand, Destroying, GoneOK, DestroyOK
<1>11. TimedOK'
  <2>1. looked => now <= clock
    BY DEF QuietOK
  <2>2. t \in early' \/ (looked' /\ info'[t].start <= clock' + info'[t].period)
    BY <1>1, <1>6, <2>1
  <2>3. ASSUME NEW u \in Timer, u # t, Timed(u)'
        PROVE  Timed(u) /\ (u \in early => u \in early') /\ info'[u] = info[u]
    BY <1>1, <1>3, <1>5, <1>6, <2>3 DEF Timed
  <2>. QED
    BY <1>1, <2>2, <2>3 DEF TimedOK
<1>12. SortedBy(running', info')
  <2>1. \A j \in DOMAIN running' : running'[j] \in Timer
    BY <1>3
  <2>2. \A j \in DOMAIN running' : running'[j] # t
    BY <1>3 DEF Has
  <2>. QED
    BY <1>3, <1>6, <2>1, <2>2 DEF SortedBy
<1>. QED
  BY <1>7, <1>8, <1>9, <1>10, <1>11, <1>12

(* A timer that was fired goes back to the pending or to the running list. *)
LEMMA RequeueStep ==
  ASSUME TimerInv, Requeue
  PROVE  TimerInv'
<1>. USE DEF TimerInv, Requeue, life, time, callers, past
<1>. DEFINE t == Head(fired)
<1>1. thread = "requeue" /\ fired # << >> /\ fired' = Tail(fired) /\ pc' = pc
  OBVIOUS
<1>2. fired \in Seq(Timer) /\ t \in Timer /\ Once(fired, t)
  BY <1>1 DEF TypeOK, AloneOK, Alone
<1>3. /\ Has(fired, t) /\ fired' \in Seq(Timer)
      /\ \A u : Has(fired', u) <=> Has(fired, u) /\ u # t
      /\ \A u : Once(fired, u) => Once(fired', u)
  BY <1>1, <1>2, TakingFront
<1>4. ~ Has(pending, t) /\ ~ Has(running, t) /\ ~ Held(t)
  BY <1>2, <1>3 DEF AloneOK, Alone
<1>5. /\ pending' \in Seq(Timer) /\ running' \in Seq(Timer)
      /\ \A u : Has(pending', u) <=> Has(pending, u) \/ (info[t].once /\ u = t)
      /\ \A u : Has(running', u) <=> Has(running, u) \/ (~ info[t].once /\ u = t)
      /\ \A u : Once(pending, u) => Once(pending', u)
      /\ \A u : Once(running, u) => Once(running', u)
      /\ SortedBy(running', info)
  <2>1. pending \in Seq(Timer) /\ running \in Seq(Timer) /\ info \in Infos
    BY DEF TypeOK, Infos
  <2>2. CASE info[t].once
    <3>1. pending' = Append(pending, t) /\ running' = running
      BY <2>2
    <3>. QED
      BY <1>2, <1>4, <2>1, <2>2, <3>1, Adding
  <2>3. CASE ~ info[t].once
    <3>1. pending' = pending /\ running' = Placed(running, t, info[t].start)
      BY <2>3
    <3>. QED
      BY <1>2, <1>4, <2>1, <2>3, <3>1, Placing
  <2>. QED
    BY <2>2, <2>3
<1>6. TypeOK'
  BY <1>3, <1>5 DEF TypeOK
<1>7. AloneOK'
  BY <1>1, <1>3, <1>4, <1>5 DEF AloneOK, Alone, InHand, Held
<1>8. KnownOK' /\ QuietOK'
  BY <1>1, <1>3, <1>5 DEF KnownOK, InList, QuietOK, RunningLocked
<1>9. \A u : InList(u)' <=> InList(u)
  BY <1>3, <1>5 DEF InList
<1>10. AccountedOK'
  BY <1>1, <1>9 DEF AccountedOK, Held, InHand, Destroying
<1>11. GoneOK' /\ DestroyOK'
  BY <1>1, <1>3, <1>5, <1>9 DEF Held, InHand, GoneOK, DestroyOK
<1>12. TimedOK'
  BY <1>1, <1>3, <1>5 DEF TimedOK, Timed
<1>. QED
  BY <1>5, <1>6, <1>7, <1>8, <1>10, <1>11, <1>12

(* Before the first look at the clock all times that are set are early. *)
LEMMA WakeStep ==
  ASSUME TimerInv, Wake
  PROVE  TimerInv'
<1>. USE DEF TimerInv, Wake, Look, life, lists, callers
<1>1. TypeOK'
  BY DEF TypeOK
<1>2. AloneOK' /\ KnownOK'
  BY DEF AloneOK, Alone, InHand, Held, KnownOK, InList
<1>3. AccountedOK' /\ GoneOK' /\ DestroyOK'
  BY DEF AccountedOK, InList, Held, InHand, Destroying, GoneOK, DestroyOK
<1>4. QuietOK'
  BY DEF QuietOK, RunningLocked, TypeOK
<1>5. TimedOK'
  BY DEF TimedOK, Timed
<1>6. SortedBy(running, info)'
  OBVIOUS
<1>. QED
  BY <1>1, <1>2, <1>3, <1>4, <1>5, <1>6

-----------------------------------------------------------------------------
(* init() and the first part of exit() move no timer. *)
LEMMA OwnerStep ==
  ASSUME TimerInv, Start \/ Exit
  PROVE  TimerInv'
<1>. USE MultiTimerAssumption DEF TimerInv, life, time, lists, callers, past
<1>1. UNCHANGED <<next, now, clock, pending, running, fired, info, pc, calls, gone, crossed,
                  looked, early>>
  BY DEF Start, Exit
<1>2. TypeOK'
  <2>1. alive' \in BOOLEAN /\ owner' \in {"off", "on", "join"}
    BY DEF Start, Exit
  <2>2. inits' \in 0 .. MaxInits
    <3>1. inits \in Nat /\ inits <= MaxInits /\ MaxInits \in Nat
      BY DEF TypeOK, MultiTimerAssumption
    <3>2. inits' = inits \/ (inits < MaxInits /\ inits' = inits + 1)
      BY DEF Start, Exit
    <3>. QED
      BY <3>1, <3>2
  <2>3. thread' \in {"off", "begin", "loop", "fire", "requeue", "sleep", "end"}
    BY DEF TypeOK, Start, Exit
  <2>. QED
    BY <1>1, <2>1, <2>2, <2>3 DEF TypeOK
<1>3. AloneOK' /\ KnownOK'
  BY <1>1 DEF AloneOK, Alone, InHand, Held, KnownOK, InList
<1>4. AccountedOK' /\ GoneOK' /\ DestroyOK' /\ TimedOK' /\ SortedBy(running', info')
  BY <1>1 DEF AccountedOK, InList, Held, InHand, Destroying, GoneOK, DestroyOK, TimedOK, Timed
<1>5. QuietOK'
  BY <1>1 DEF QuietOK, RunningLocked, Start, Exit
<1>. QED
  BY <1>2, <1>3, <1>4, <1>5

(* The end of exit() leaves no timer anywhere. *)
LEMMA ClearStep ==
  ASSUME TimerInv, Clear
  PROVE  TimerInv'
<1>. USE MultiTimerAssumption DEF TimerInv, Clear, life, time, callers
<1>1. fired = << >> /\ \A c \in Caller : pc[c].at = "idle"
  BY DEF QuietOK, RunningLocked, Idle
<1>2. /\ \A t : ~ Has(<< >>, t) /\ Once(<< >>, t)
      /\ \A t \in Timer : ~ (t < next')
  <2>1. DOMAIN << >> = {}
    OBVIOUS
  <2>2. \A t \in Timer : ~ (t < next')
    BY DEF Timer, FirstId, NoTimer
  <2>. QED
    BY <2>1, <2>2 DEF Has, Once
<1>3. TypeOK'
  <2>1. FirstId \in Timer \cup {MaxTimers + 1} /\ << >> \in Seq(Timer)
    BY DEF FirstId, NoTimer, Timer
  <2>. QED
    BY <2>1 DEF TypeOK
<1>4. AloneOK' /\ KnownOK' /\ QuietOK'
  BY <1>1, <1>2 DEF AloneOK, Alone, InHand, Held, KnownOK, InList, QuietOK, RunningLocked
<1>5. AccountedOK' /\ GoneOK' /\ DestroyOK' /\ TimedOK'
  BY <1>1, <1>2 DEF AccountedOK, GoneOK, DestroyOK, TimedOK, Timed
<1>6. SortedBy(running', info')
  BY DEF SortedBy
<1>. QED
  BY <1>3, <1>4, <1>5, <1>6

-----------------------------------------------------------------------------
LEMMA TimerInvStep == TimerInv /\ [Next]_vars => TimerInv'
<1>. SUFFICES ASSUME TimerInv, [Next]_vars
              PROVE  TimerInv'
  OBVIOUS
<1>1. ASSUME NEW c \in Caller, CreateId(c) \/ Calling(c)
      PROVE  TimerInv'
  BY <1>1, CreateIdStep, CreateAddStep, StartTimeStep, StartInsertStep, StopAddStep,
     DestroySecondStep DEF Calling
<1>2. ASSUME NEW c \in Caller, NEW t \in Timer, NEW once \in BOOLEAN, NEW p \in Period,
             StartTake(c, t, once, p)
      PROVE  TimerInv'
  BY <1>2, StartTakeStep
<1>3. ASSUME NEW c \in Caller, NEW t \in Timer, StopTake(c, t) \/ DestroyFirst(c, t)
      PROVE  TimerInv'
  BY <1>3, StopTakeStep, DestroyFirstStep
<1>4. CASE TimerThread \/ Tick
  BY <1>4, ThreadStep, FireStep, RequeueStep, WakeStep DEF TimerThread
<1>5. CASE Start \/ Exit \/ Clear
  BY <1>5, OwnerStep, ClearStep
<1>6. CASE UNCHANGED vars
  <2>1. UNCHANGED <<lists, info, pc, next, owner, past>> /\ thread' = thread
    BY <1>6 DEF vars, life, callers
  <2>2. /\ alive' \in BOOLEAN /\ inits' \in 0 .. MaxInits /\ calls' \in 0 .. MaxCalls
        /\ now' \in Nat /\ clock' \in Nat /\ clock' = clock /\ now' = now
        /\ thread' \in {"off", "begin", "loop", "fire", "requeue", "sleep", "end"}
    BY <1>6 DEF vars, life, time, callers, TimerInv, TypeOK
  <2>3. /\ ~ RunningLocked' => fired = << >>
        /\ owner = "off" => thread' = "off"
        /\ looked => thread' \notin {"off", "begin"} /\ now' <= clock' /\ clock <= clock'
    BY <2>1, <2>2 DEF TimerInv, QuietOK, RunningLocked
  <2>. QED
    BY <2>1, <2>2, <2>3, Unmoved
<1>. QED
  BY <1>1, <1>2, <1>3, <1>4, <1>5, <1>6 DEF Next

LEMMA Inductive == Spec => []TimerInv
  BY InitTimer, TimerInvStep, PTL DEF Spec

(* The places of a timer, and where they say it is. *)
LEMMA PlacesOf ==
  ASSUME NEW t
  PROVE  Places(t) = {} <=> ~ InList(t) /\ ~ Held(t)
<1>. DEFINE C == {c \in Caller : InHand(c, t)}
<1>1. \A s : Indices(s, t) = {} <=> ~ Has(s, t)
  BY DEF Indices, Has
<1>2. C = {} <=> ~ Held(t)
  BY DEF Held
<1>3. \A x, S : {x} \X S = {} <=> S = {}
  <2>1. ASSUME NEW x, NEW S, NEW y \in S
        PROVE  <<x, y>> \in {x} \X S
    OBVIOUS
  <2>. QED
    BY <2>1
<1>4. /\ Places(t) = {}
         <=> /\ {"pending"} \X Indices(pending, t) = {} /\ {"running"} \X Indices(running, t) = {}
             /\ {"fired"} \X Indices(fired, t) = {} /\ {"call"} \X C = {}
  BY DEF Places
<1>. QED
  BY <1>1, <1>2, <1>3, <1>4 DEF InList

-----------------------------------------------------------------------------
(* Every variable has its type, for all values of the constants. *)
THEOREM TypeCorrect == Spec => []TypeOK
  BY Inductive, PTL DEF TimerInv

(* A timer is never in two places, and never lost: it is in a list or in   *)
(* the hands of one call until a destroy_timer deletes it (start_timer,    *)
(* stop_timer, destroy_timer and thread_run together).                     *)
THEOREM TimersInOnePlace == Spec => []OnePlace
<1>1. ASSUME TimerInv, NEW t \in Timer, NEW x \in Places(t), NEW y \in Places(t)
      PROVE  x = y
  <2>1. Alone(t)
    BY <1>1 DEF TimerInv, AloneOK
  <2>2. \A u, v \in Indices(pending, t) : Has(pending, t) /\ u = v
    BY <2>1 DEF Alone, Once, Indices, Has
  <2>3. \A u, v \in Indices(running, t) : Has(running, t) /\ u = v
    BY <2>1 DEF Alone, Once, Indices, Has
  <2>4. \A u, v \in Indices(fired, t) : Has(fired, t) /\ u = v
    BY <2>1 DEF Alone, Once, Indices, Has
  <2>5. \A u, v \in {c \in Caller : InHand(c, t)} : Held(t) /\ u = v
    BY <2>1 DEF Alone, Held
  <2>. QED
    BY <2>1, <2>2, <2>3, <2>4, <2>5 DEF Alone, Places
<1>2. TimerInv => OnePlace
  BY <1>1, PlacesOf DEF OnePlace, TimerInv, AccountedOK
<1>. QED
  BY <1>2, Inductive, PTL

(* The running list is always in the order of the times, so that the timer *)
(* thread may stop at the first timer that is not due.                     *)
THEOREM RunningInOrder == Spec => []Ordered
<1>1. TimerInv => Ordered
  BY DEF TimerInv, SortedBy, Ordered
<1>. QED
  BY <1>1, Inductive, PTL

(* A timer that destroy_timer was called for never comes back, if nobody   *)
(* else called start_timer, stop_timer or destroy_timer for it meanwhile.  *)
THEOREM DestroyedStaysAway == Spec => []DestroyedForGood
<1>1. TimerInv => DestroyedForGood
  BY PlacesOf DEF TimerInv, GoneOK, DestroyedForGood
<1>. QED
  BY <1>1, Inductive, PTL

(* A running timer is due within its period of the clock, unless its time  *)
(* was set before the thread of this life had looked at the clock.         *)
THEOREM DueInTime == Spec => []DueWithinPeriod
<1>1. TimerInv => DueWithinPeriod
  BY DEF TimerInv, TypeOK, TimedOK, Timed, Has, DueWithinPeriod
<1>. QED
  BY <1>1, Inductive, PTL

=============================================================================
