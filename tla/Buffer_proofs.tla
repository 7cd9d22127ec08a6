--------------------------- MODULE Buffer_proofs ---------------------------
(***************************************************************************)
(* Theorems about module Buffer, for any buffers, blocks and sizes: a      *)
(* block has one owner and m_length is right (TypeOK), and each buffer is  *)
(* a queue of bytes (ImplementsQueue).                                     *)
(***************************************************************************)
EXTENDS Buffer, FiniteSetTheorems, SequenceTheorems, WellFoundedInduction, TLAPS

Byte == (Buf \X Nat) \cup {Junk}

Mem ==
  {m \in [offset : Nat, size : Nat, capacity : Nat, bytes : [0 .. (BlockSize - 1) -> Byte]] :
     m.offset + m.size + m.capacity = BlockSize}

Memory == [Block -> Mem]

-----------------------------------------------------------------------------
(* A set of naturals with an element has a least one. *)
LEMMA LeastNatural ==
  ASSUME NEW T \in SUBSET Nat, T # {}
  PROVE  \E x \in T : \A y \in T : x <= y
<1>. DEFINE R == OpToRel(<, Nat)
<1>1. PICK x \in T : \A y \in T : ~ (<<y, x>> \in R)
  <2>. HIDE DEF R
  <2>1. IsWellFoundedOn(R, Nat)
    BY NatLessThanWellFounded DEF R
  <2>. QED
    BY <2>1, WFMin
<1>2. \A y \in T : y \in Nat /\ x \in Nat /\ ~ (y < x)
  BY <1>1 DEF OpToRel, R
<1>. HIDE DEF R
<1>. QED
  BY <1>2

(* A set with zero and with the next of each of its numbers has them all. *)
LEMMA AllNaturals ==
  ASSUME NEW T, 0 \in T, \A n \in Nat : n \in T => n + 1 \in T
  PROVE  Nat \subseteq T
<1>. DEFINE Missing == Nat \ T
<1>. SUFFICES ASSUME Missing # {} PROVE FALSE
  OBVIOUS
<1>1. PICK x \in Missing : \A y \in Missing : x <= y
  BY LeastNatural
<1>2. x \in Nat /\ x # 0 /\ x \notin T
  OBVIOUS
<1>3. x - 1 \in Nat /\ (x - 1) + 1 = x /\ ~ (x <= x - 1)
  BY <1>2
<1>4. x - 1 \in T
  BY <1>1, <1>3
<1>. QED
  BY <1>2, <1>3, <1>4

(* A set with zero and, up to n, with the next of each of its numbers. *)
LEMMA NaturalsUpTo ==
  ASSUME NEW n \in Nat, NEW T, 0 \in T, \A i \in 1 .. n : i - 1 \in T => i \in T
  PROVE  0 .. n \subseteq T
<1>. DEFINE U == {m \in Nat : m <= n => m \in T}
<1>1. 0 \in U
  OBVIOUS
<1>2. ASSUME NEW m \in Nat, m \in U PROVE m + 1 \in U
  <2>1. m + 1 <= n => m + 1 \in 1 .. n /\ (m + 1) - 1 = m /\ m \in T
    BY <1>2
  <2>. QED
    BY <2>1
<1>. HIDE DEF U
<1>3. Nat \subseteq U
  BY <1>1, <1>2, AllNaturals
<1>. QED
  BY <1>3 DEF U

(* A recursion along the numbers up to n, whose steps are those of a       *)
(* function: it has a result.                                              *)
Steps(G, V, n) == G \in [V \X (1 .. n) -> V]

LEMMA Recursion ==
  ASSUME NEW V, NEW F \in V, NEW n \in Nat, NEW G, Steps(G, V, n)
  PROVE  \E g \in [0 .. n -> V] : g[0] = F /\ \A i \in 1 .. n : g[i] = G[<<g[i - 1], i>>]
<1>. USE DEF Steps
<1>. DEFINE Is(m, g) == /\ g \in [0 .. m -> V] /\ g[0] = F
                        /\ \A i \in 1 .. m : g[i] = G[<<g[i - 1], i>>]
            T == {m \in Nat : m <= n => \E g : Is(m, g)}
<1>1. 0 \in T
  <2>. DEFINE g == [i \in 0 .. 0 |-> F]
  <2>1. Is(0, g)
    OBVIOUS
  <2>. HIDE DEF g, Is
  <2>. QED
    BY <2>1
<1>2. ASSUME NEW m \in Nat, m \in T PROVE m + 1 \in T
  <2>. SUFFICES ASSUME m + 1 <= n PROVE \E g : Is(m + 1, g)
    OBVIOUS
  <2>1. PICK g : Is(m, g)
    BY <1>2
  <2>2. m \in 0 .. m /\ m + 1 \in 1 .. n /\ g[m] \in V
    BY <2>1
  <2>. DEFINE v == G[<<g[m], m + 1>>]
              h == [i \in 0 .. (m + 1) |-> IF i = m + 1 THEN v ELSE g[i]]
  <2>3. v \in V
    BY <2>2
  <2>. HIDE DEF v
  <2>4. h \in [0 .. (m + 1) -> V]
    <3>1. ASSUME NEW i \in 0 .. (m + 1), i # m + 1 PROVE g[i] \in V
      BY <2>1, <3>1
    <3>. QED
      BY <2>3, <3>1
  <2>5. h[0] = F
    BY <2>1
  <2>6. ASSUME NEW i \in 1 .. (m + 1) PROVE h[i] = G[<<h[i - 1], i>>]
    <3>1. CASE i = m + 1
      <4>1. i - 1 = m /\ m \in 0 .. (m + 1) /\ m # m + 1
        BY <3>1
      <4>2. h[m] = g[m] /\ h[i] = v
        BY <3>1, <4>1
      <4>. HIDE DEF h
      <4>. QED
        BY <3>1, <4>1, <4>2 DEF v
    <3>2. CASE i # m + 1
      <4>1. i \in 1 .. m /\ i - 1 \in 0 .. (m + 1) /\ i - 1 # m + 1 /\ i \in 0 .. (m + 1)
        BY <3>2
      <4>2. h[i] = g[i] /\ h[i - 1] = g[i - 1]
        BY <3>2, <4>1
      <4>3. g[i] = G[<<g[i - 1], i>>]
        BY <2>1, <4>1
      <4>. HIDE DEF h
      <4>. QED
        BY <4>2, <4>3
    <3>. QED
      BY <3>1, <3>2
  <2>7. Is(m + 1, h)
    <3>. HIDE DEF h
    <3>. QED
      BY <2>4, <2>5, <2>6
  <2>. HIDE DEF h, Is
  <2>. QED
    BY <2>7
<1>. HIDE DEF T
<1>3. n \in T
  BY <1>1, <1>2, AllNaturals
<1>. QED
  BY <1>3 DEF T

-----------------------------------------------------------------------------
(* Bytes end to end. *)
LEMMA Regroup == \A x, y, z \in Seq(Byte) : x \o (y \o z) = (x \o y) \o z
<1>. SUFFICES ASSUME NEW x \in Seq(Byte), NEW y \in Seq(Byte), NEW z \in Seq(Byte)
              PROVE  (x \o y) \o z = x \o (y \o z)
  BY Zenon
<1>. QED
  BY ConcatAssociative

(* What is in use of a block. *)
LEMMA InUseOK ==
  ASSUME NEW m \in Mem
  PROVE  InUse(m) \in Seq(Byte) /\ Len(InUse(m)) = m.size
<1>1. /\ m.offset \in Nat /\ m.size \in Nat /\ m.capacity \in Nat
      /\ m.bytes \in [0 .. (BlockSize - 1) -> Byte]
      /\ m.offset + m.size + m.capacity = BlockSize
  BY DEF Mem
<1>2. \A i \in 1 .. m.size : m.offset + i - 1 \in 0 .. (BlockSize - 1)
  BY <1>1
<1>3. \A i \in 1 .. m.size : m.bytes[m.offset + i - 1] \in Byte
  BY <1>1, <1>2
<1>4. InUse(m) \in [1 .. m.size -> Byte]
  BY <1>3 DEF InUse
<1>. HIDE DEF InUse
<1>. QED
  BY <1>1, <1>4

(* The bytes of a chain are those of its blocks, one after the other. *)
LEMMA BytesUnfold ==
  ASSUME NEW c \in Seq(Block), NEW mem \in Memory
  PROVE  /\ BytesIn(c, mem, 0) = << >>
         /\ \A n \in 1 .. Len(c) :
              BytesIn(c, mem, n) = BytesIn(c, mem, n - 1) \o InUse(mem[c[n]])
         /\ \A n \in 0 .. Len(c) : BytesIn(c, mem, n) \in Seq(Byte)
<1>. DEFINE l == Len(c)
            P(g) == g = [i \in 0 .. l |->
                           IF i = 0 THEN << >> ELSE g[i - 1] \o InUse(mem[c[i]])]
            u == CHOOSE g : P(g)
            G == [p \in Seq(Byte) \X (1 .. l) |-> p[1] \o InUse(mem[c[p[2]]])]
<1>0. l \in Nat
  OBVIOUS
<1>1. \A n : BytesIn(c, mem, n) = u[n]
  BY Zenon DEF BytesIn
<1>2. ASSUME NEW i \in 1 .. l PROVE InUse(mem[c[i]]) \in Seq(Byte)
  <2>1. mem[c[i]] \in Mem
    BY DEF Memory
  <2>. QED
    BY <2>1, InUseOK
<1>. HIDE DEF l
<1>3. \E g : P(g)
  <2>. DEFINE V == Seq(Byte)
  <2>1. Steps(G, V, l)
    <3>1. ASSUME NEW p \in Seq(Byte) \X (1 .. l)
          PROVE  p[1] \o InUse(mem[c[p[2]]]) \in Seq(Byte)
      <4>1. p[1] \in Seq(Byte) /\ InUse(mem[c[p[2]]]) \in Seq(Byte)
        BY <1>2
      <4>. QED
        BY <4>1, ConcatProperties
    <3>. QED
      BY <3>1 DEF Steps
  <2>2. << >> \in V
    OBVIOUS
  <2>. HIDE DEF G, V
  <2>3. PICK g \in [0 .. l -> V] :
          g[0] = << >> /\ \A i \in 1 .. l : g[i] = G[<<g[i - 1], i>>]
    BY <1>0, <2>1, <2>2, Recursion
  <2>. USE DEF V
  <2>4. ASSUME NEW i \in 1 .. l PROVE g[i] = g[i - 1] \o InUse(mem[c[i]])
    <3>1. i - 1 \in 0 .. l /\ g[i - 1] \in Seq(Byte)
      BY <1>0
    <3>2. <<g[i - 1], i>> \in Seq(Byte) \X (1 .. l)
      BY <3>1
    <3>3. G[<<g[i - 1], i>>] = g[i - 1] \o InUse(mem[c[i]])
      BY <3>2 DEF G
    <3>. QED
      BY <2>3, <3>3
  <2>5. ASSUME NEW i \in 0 .. l
        PROVE  g[i] = IF i = 0 THEN << >> ELSE g[i - 1] \o InUse(mem[c[i]])
    <3>1. i # 0 => i \in 1 .. l
      BY <1>0
    <3>. QED
      BY <2>3, <2>4, <3>1
  <2>6. P(g)
    BY <2>5
  <2>. HIDE DEF P
  <2>. QED
    BY <2>6
<1>4. P(u)
  <2>. HIDE DEF P
  <2>. QED
    BY <1>3
<1>. HIDE DEF u
<1>5. u[0] = << >>
  BY <1>0, <1>4
<1>6. \A i \in 1 .. l : u[i] = u[i - 1] \o InUse(mem[c[i]])
  <2>1. \A i \in 1 .. l : i \in 0 .. l /\ i # 0
    BY <1>0
  <2>. QED
    BY <1>4, <2>1, Zenon
<1>. HIDE DEF P
<1>. DEFINE T == {n \in Nat : u[n] \in Seq(Byte)}
<1>7. 0 \in T
  <2>1. << >> \in Seq(Byte)
    OBVIOUS
  <2>. QED
    BY <1>5, <2>1
<1>8. ASSUME NEW i \in 1 .. l, i - 1 \in T PROVE i \in T
  <2>1. i \in Nat /\ u[i - 1] \in Seq(Byte)
    BY <1>0, <1>8
  <2>2. u[i] \in Seq(Byte)
    BY <1>2, <1>6, <2>1, ConcatProperties
  <2>. QED
    BY <2>1, <2>2
<1>. HIDE DEF T
<1>9. 0 .. l \subseteq T
  BY <1>0, <1>7, <1>8, NaturalsUpTo
<1>10. \A n \in 0 .. l : u[n] \in Seq(Byte)
  BY <1>9 DEF T
<1>. QED
  BY <1>1, <1>5, <1>6, <1>10 DEF l

(* So is the number of bytes, which is that of the bytes. *)
LEMMA SizeUnfold ==
  ASSUME NEW c \in Seq(Block), NEW mem \in Memory
  PROVE  \A n \in 0 .. Len(c) : SizeIn(c, mem, n) = Len(BytesIn(c, mem, n))
<1>. DEFINE l == Len(c)
            P(g) == g = [i \in 0 .. l |-> IF i = 0 THEN 0 ELSE g[i - 1] + mem[c[i]].size]
            u == CHOOSE g : P(g)
            G == [p \in Nat \X (1 .. l) |-> p[1] + mem[c[p[2]]].size]
<1>0. l \in Nat
  OBVIOUS
<1>1. \A n : SizeIn(c, mem, n) = u[n]
  BY Zenon DEF SizeIn
<1>2. ASSUME NEW i \in 1 .. l
      PROVE  /\ mem[c[i]].size \in Nat /\ InUse(mem[c[i]]) \in Seq(Byte)
             /\ Len(InUse(mem[c[i]])) = mem[c[i]].size
  <2>1. mem[c[i]] \in Mem
    BY DEF Memory
  <2>2. mem[c[i]].size \in Nat
    BY <2>1 DEF Mem
  <2>. QED
    BY <2>1, <2>2, InUseOK
<1>. HIDE DEF l
<1>3. \E g : P(g)
  <2>. DEFINE V == Nat
  <2>1. Steps(G, V, l)
    <3>1. ASSUME NEW p \in Nat \X (1 .. l)
          PROVE  p[1] + mem[c[p[2]]].size \in Nat
      <4>1. p[1] \in Nat /\ mem[c[p[2]]].size \in Nat
        BY <1>2
      <4>. QED
        BY <4>1
    <3>. QED
      BY <3>1 DEF Steps
  <2>2. 0 \in V
    OBVIOUS
  <2>. HIDE DEF G, V
  <2>3. PICK g \in [0 .. l -> V] :
          g[0] = 0 /\ \A i \in 1 .. l : g[i] = G[<<g[i - 1], i>>]
    BY <1>0, <2>1, <2>2, Recursion
  <2>. USE DEF V
  <2>4. ASSUME NEW i \in 1 .. l PROVE g[i] = g[i - 1] + mem[c[i]].size
    <3>1. i - 1 \in 0 .. l /\ g[i - 1] \in Nat
      BY <1>0
    <3>2. <<g[i - 1], i>> \in Nat \X (1 .. l)
      BY <3>1
    <3>3. G[<<g[i - 1], i>>] = g[i - 1] + mem[c[i]].size
      BY <3>2 DEF G
    <3>. QED
      BY <2>3, <3>3
  <2>5. ASSUME NEW i \in 0 .. l
        PROVE  g[i] = IF i = 0 THEN 0 ELSE g[i - 1] + mem[c[i]].size
    <3>1. i # 0 => i \in 1 .. l
      BY <1>0
    <3>. QED
      BY <2>3, <2>4, <3>1
  <2>6. P(g)
    BY <2>5
  <2>. HIDE DEF P
  <2>. QED
    BY <2>6
<1>4. P(u)
  <2>. HIDE DEF P
  <2>. QED
    BY <1>3
<1>. HIDE DEF u
<1>5. u[0] = 0
  BY <1>0, <1>4
<1>6. \A i \in 1 .. l : u[i] = u[i - 1] + mem[c[i]].size
  <2>1. \A i \in 1 .. l : i \in 0 .. l /\ i # 0
    BY <1>0
  <2>. QED
    BY <1>4, <2>1, Zenon
<1>. HIDE DEF P
<1>. DEFINE Same(n) == u[n] = Len(BytesIn(c, mem, n))
            T == {n \in Nat : Same(n)}
<1>7. 0 \in T
  <2>1. Same(0)
    BY <1>5, BytesUnfold
  <2>. HIDE DEF Same
  <2>. QED
    BY <2>1
<1>8. ASSUME NEW i \in 1 .. l, i - 1 \in T PROVE i \in T
  <2>1. i \in Nat /\ Same(i - 1)
    BY <1>0, <1>8
  <2>2. i - 1 \in 0 .. l
    BY <1>0
  <2>3. /\ BytesIn(c, mem, i) = BytesIn(c, mem, i - 1) \o InUse(mem[c[i]])
        /\ BytesIn(c, mem, i - 1) \in Seq(Byte)
    BY <2>2, BytesUnfold DEF l
  <2>4. Len(BytesIn(c, mem, i)) = Len(BytesIn(c, mem, i - 1)) + Len(InUse(mem[c[i]]))
    BY <1>2, <2>3, ConcatProperties
  <2>5. Same(i)
    BY <1>2, <1>6, <2>1, <2>4
  <2>. HIDE DEF Same
  <2>. QED
    BY <2>1, <2>5
<1>. HIDE DEF T
<1>9. 0 .. l \subseteq T
  BY <1>0, <1>7, <1>8, NaturalsUpTo
<1>. QED
  BY <1>1, <1>9 DEF T, l

-----------------------------------------------------------------------------
(* Lists that hold each block once. *)
Once(s) == IsInjective(s)

LEMMA Places ==
  ASSUME NEW S, NEW s \in Seq(S)
  PROVE  /\ \A x : x \in Range(s) <=> \E i \in 1 .. Len(s) : x = s[i]
         /\ Once(s) <=> \A i, j \in 1 .. Len(s) : s[i] = s[j] => i = j
         /\ Range(s) \subseteq S
<1>1. DOMAIN s = 1 .. Len(s)
  OBVIOUS
<1>2. Once(s) <=> \A i, j \in 1 .. Len(s) : s[i] = s[j] => i = j
  BY <1>1, Zenon DEF Once, IsInjective
<1>3. \A x : x \in Range(s) <=> \E i \in 1 .. Len(s) : x = s[i]
  BY <1>1, Zenon DEF Range
<1>. QED
  BY <1>2, <1>3

LEMMA OnceEmpty == Range(<< >>) = {} /\ Once(<< >>)
<1>. DEFINE e == << >>
<1>1. e \in Seq({}) /\ Len(e) = 0
  OBVIOUS
<1>. HIDE DEF e
<1>2. 1 .. Len(e) = {}
  BY <1>1
<1>. QED
  BY <1>1, <1>2, Places DEF e

(* Another block at the end of a list. *)
LEMMA OnceAppend ==
  ASSUME NEW S, NEW s \in Seq(S), NEW x \in S
  PROVE  /\ Append(s, x) \in Seq(S)
         /\ Range(Append(s, x)) = Range(s) \cup {x}
         /\ Once(s) /\ x \notin Range(s) => Once(Append(s, x))
<1>. DEFINE t == Append(s, x)
<1>1. /\ t \in Seq(S) /\ Len(t) = Len(s) + 1 /\ t[Len(s) + 1] = x
      /\ \A i \in 1 .. Len(s) : t[i] = s[i]
      /\ Len(s) \in Nat
  OBVIOUS
<1>. HIDE DEF t
<1>2. \A i \in 1 .. Len(t) : i \in 1 .. Len(s) \/ i = Len(s) + 1
  BY <1>1
<1>3. (1 .. Len(s)) \subseteq 1 .. Len(t) /\ Len(s) + 1 \in 1 .. Len(t)
  BY <1>1
<1>4. Range(t) = Range(s) \cup {x}
  BY <1>1, <1>2, <1>3, Places
<1>5. ASSUME Once(s), x \notin Range(s) PROVE Once(t)
  <2>. SUFFICES ASSUME NEW i \in 1 .. Len(t), NEW j \in 1 .. Len(t), t[i] = t[j]
                PROVE  i = j
    BY <1>1, Places
  <2>. QED
    BY <1>1, <1>2, <1>5, Places
<1>. QED
  BY <1>1, <1>4, <1>5 DEF t

(* The rest of a list, without its first block. *)
LEMMA OnceTail ==
  ASSUME NEW S, NEW s \in Seq(S), s # << >>
  PROVE  /\ Tail(s) \in Seq(S) /\ Head(s) \in Range(s) /\ Head(s) \in S
         /\ Range(Tail(s)) \subseteq Range(s)
         /\ Once(s) => Once(Tail(s)) /\ Head(s) \notin Range(Tail(s))
<1>. DEFINE t == Tail(s)
<1>1. /\ t \in Seq(S) /\ Len(t) = Len(s) - 1 /\ Head(s) = s[1]
      /\ \A i \in 1 .. Len(t) : t[i] = s[i + 1]
      /\ Len(s) \in Nat /\ Len(s) # 0
  OBVIOUS
<1>. HIDE DEF t
<1>2. /\ \A i \in 1 .. Len(t) : i + 1 \in 1 .. Len(s) /\ i + 1 # 1
      /\ \A i, j \in 1 .. Len(t) : i + 1 = j + 1 => i = j
      /\ 1 \in 1 .. Len(s)
  BY <1>1
<1>3. Head(s) \in Range(s) /\ Head(s) \in S
  BY <1>1, <1>2, Places
<1>4. Range(t) \subseteq Range(s)
  BY <1>1, <1>2, Places
<1>5. ASSUME Once(s) PROVE Once(t) /\ Head(s) \notin Range(t)
  <2>1. ASSUME NEW i \in 1 .. Len(t), NEW j \in 1 .. Len(t), t[i] = t[j]
        PROVE  i = j
    <3>1. s[i + 1] = s[j + 1] /\ i + 1 \in 1 .. Len(s) /\ j + 1 \in 1 .. Len(s)
      BY <1>1, <1>2, <2>1
    <3>2. i + 1 = j + 1
      BY <1>5, <3>1, Places
    <3>. QED
      BY <1>2, <3>2
  <2>2. ASSUME NEW i \in 1 .. Len(t), t[i] = Head(s) PROVE FALSE
    <3>1. s[i + 1] = s[1] /\ i + 1 \in 1 .. Len(s) /\ 1 \in 1 .. Len(s) /\ i + 1 # 1
      BY <1>1, <1>2, <2>2
    <3>. QED
      BY <1>5, <3>1, Places
  <2>3. t \in Seq(S)
    BY <1>1
  <2>4. Once(t)
    BY <2>1, <2>3, Places
  <2>5. Head(s) \notin Range(t)
    BY <2>2, <2>3, Places
  <2>. QED
    BY <2>4, <2>5
<1>. QED
  BY <1>1, <1>3, <1>4, <1>5 DEF t

(* Two lists without a block in common, one after the other. *)
LEMMA OnceConcat ==
  ASSUME NEW S, NEW s \in Seq(S), NEW t \in Seq(S)
  PROVE  /\ s \o t \in Seq(S)
         /\ Range(s \o t) = Range(s) \cup Range(t)
         /\ Once(s) /\ Once(t) /\ Apart(s, t) => Once(s \o t)
<1>. DEFINE u == s \o t
<1>1. /\ u \in Seq(S) /\ Len(u) = Len(s) + Len(t)
      /\ \A i \in 1 .. Len(s) : u[i] = s[i]
      /\ \A i \in 1 .. Len(t) : u[Len(s) + i] = t[i]
      /\ Len(s) \in Nat /\ Len(t) \in Nat
  <2>1. u \in Seq(S) /\ Len(u) = Len(s) + Len(t) /\ Len(s) \in Nat /\ Len(t) \in Nat
    OBVIOUS
  <2>2. \A i \in 1 .. Len(s) : u[i] = s[i]
    OBVIOUS
  <2>3. \A i \in 1 .. Len(t) : u[Len(s) + i] = t[i]
    OBVIOUS
  <2>. QED
    BY <2>1, <2>2, <2>3
<1>. HIDE DEF u
<1>2. \A i \in 1 .. Len(u) :
        i \in 1 .. Len(s) \/ \E k \in 1 .. Len(t) : i = Len(s) + k
  <2>1. ASSUME NEW i \in 1 .. Len(u), i \notin 1 .. Len(s)
        PROVE  i - Len(s) \in 1 .. Len(t) /\ i = Len(s) + (i - Len(s))
    BY <1>1, <2>1
  <2>. QED
    BY <2>1
<1>3. /\ (1 .. Len(s)) \subseteq 1 .. Len(u)
      /\ \A k \in 1 .. Len(t) : Len(s) + k \in 1 .. Len(u)
  BY <1>1
<1>4. Range(u) = Range(s) \cup Range(t)
  <2>1. ASSUME NEW x \in Range(u) PROVE x \in Range(s) \cup Range(t)
    <3>1. PICK i \in 1 .. Len(u) : x = u[i]
      BY <1>1, Places
    <3>2. CASE i \in 1 .. Len(s)
      BY <1>1, <3>1, <3>2, Places
    <3>3. CASE \E k \in 1 .. Len(t) : i = Len(s) + k
      BY <1>1, <3>1, <3>3, Places
    <3>. QED
      BY <1>2, <3>2, <3>3
  <2>2. ASSUME NEW x \in Range(s) PROVE x \in Range(u)
    <3>1. PICK i \in 1 .. Len(s) : x = s[i]
      BY Places
    <3>2. i \in 1 .. Len(u) /\ x = u[i]
      BY <1>1, <1>3, <3>1
    <3>. QED
      BY <1>1, <3>2, Places
  <2>3. ASSUME NEW x \in Range(t) PROVE x \in Range(u)
    <3>1. PICK k \in 1 .. Len(t) : x = t[k]
      BY Places
    <3>2. Len(s) + k \in 1 .. Len(u) /\ x = u[Len(s) + k]
      BY <1>1, <1>3, <3>1
    <3>. QED
      BY <1>1, <3>2, Places
  <2>. QED
    BY <2>1, <2>2, <2>3
<1>5. ASSUME Once(s), Once(t), Apart(s, t) PROVE Once(u)
  <2>. SUFFICES ASSUME NEW i \in 1 .. Len(u), NEW j \in 1 .. Len(u), u[i] = u[j]
                PROVE  i = j
    BY <1>1, Places
  <2>1. \A m \in 1 .. Len(s), n \in 1 .. Len(t) : s[m] # t[n]
    BY <1>5, Places DEF Apart
  <2>2. CASE i \in 1 .. Len(s) /\ j \in 1 .. Len(s)
    BY <1>1, <1>5, <2>2, Places
  <2>3. CASE i \in 1 .. Len(s) /\ j \notin 1 .. Len(s)
    BY <1>1, <1>2, <2>1, <2>3
  <2>4. CASE i \notin 1 .. Len(s) /\ j \in 1 .. Len(s)
    BY <1>1, <1>2, <2>1, <2>4
  <2>5. CASE i \notin 1 .. Len(s) /\ j \notin 1 .. Len(s)
    <3>1. PICK m \in 1 .. Len(t) : i = Len(s) + m
      BY <1>2, <2>5
    <3>2. PICK n \in 1 .. Len(t) : j = Len(s) + n
      BY <1>2, <2>5
    <3>3. t[m] = t[n]
      BY <1>1, <3>1, <3>2
    <3>. QED
      BY <1>5, <3>1, <3>2, <3>3, Places
  <2>. QED
    BY <2>2, <2>3, <2>4, <2>5
<1>. QED
  BY <1>1, <1>4, <1>5 DEF u

(* A list cut in two. *)
LEMMA OnceSplit ==
  ASSUME NEW S, NEW s \in Seq(S), NEW n \in 0 .. Len(s)
  PROVE  LET front == SubSeq(s, 1, n)
             back == SubSeq(s, n + 1, Len(s))
         IN  /\ front \in Seq(S) /\ back \in Seq(S)
             /\ Range(front) \subseteq Range(s) /\ Range(back) \subseteq Range(s)
             /\ Once(s) => Once(front) /\ Once(back) /\ Apart(front, back)
             /\ Len(back) = Len(s) - n
             /\ \A i \in 1 .. Len(back) : back[i] = s[n + i]
<1>. DEFINE f == SubSeq(s, 1, n)
            k == SubSeq(s, n + 1, Len(s))
<1>0. Len(s) \in Nat /\ n \in Nat /\ n <= Len(s)
  OBVIOUS
<1>1. /\ f \in Seq(S) /\ Len(f) = n
      /\ \A i \in 1 .. n : f[i] = s[i]
  OBVIOUS
<1>2. /\ k \in Seq(S) /\ Len(k) = Len(s) - n
      /\ \A i \in 1 .. (Len(s) - n) : k[i] = s[n + i]
  <2>1. \A i \in (n + 1) .. Len(s) : s[i] \in S
    BY <1>0
  <2>2. k = [i \in 1 .. (Len(s) - n) |-> s[i + (n + 1) - 1]]
    OBVIOUS
  <2>3. \A i \in 1 .. (Len(s) - n) : i + (n + 1) - 1 = n + i /\ n + i \in (n + 1) .. Len(s)
    BY <1>0
  <2>. HIDE DEF k
  <2>4. \A i \in 1 .. (Len(s) - n) : k[i] = s[n + i]
    BY <2>2, <2>3
  <2>5. k \in [1 .. (Len(s) - n) -> S]
    BY <2>1, <2>2, <2>3
  <2>6. Len(s) - n \in Nat
    BY <1>0
  <2>. QED
    BY <2>4, <2>5, <2>6
<1>. HIDE DEF f, k
<1>3. /\ (1 .. n) \subseteq 1 .. Len(s)
      /\ \A i \in 1 .. (Len(s) - n) : n + i \in 1 .. Len(s) /\ n + i \notin 1 .. n
      /\ \A i, j \in 1 .. (Len(s) - n) : n + i = n + j => i = j
  BY <1>0
<1>4. Range(f) \subseteq Range(s)
  BY <1>1, <1>3, Places
<1>5. ASSUME NEW x \in Range(k) PROVE x \in Range(s)
  <2>1. PICK i \in 1 .. (Len(s) - n) : x = k[i]
    BY <1>2, Places
  <2>2. x = s[n + i] /\ n + i \in 1 .. Len(s)
    BY <1>2, <1>3, <2>1
  <2>. QED
    BY <2>2, Places
<1>6. ASSUME Once(s) PROVE Once(f) /\ Once(k) /\ Apart(f, k)
  <2>0. \A i, j \in 1 .. Len(s) : s[i] = s[j] => i = j
    BY <1>6, Places
  <2>1. Once(f)
    BY <1>1, <1>3, <2>0, Places
  <2>2. ASSUME NEW i \in 1 .. Len(k), NEW j \in 1 .. Len(k), k[i] = k[j]
        PROVE  i = j
    <3>1. i \in 1 .. (Len(s) - n) /\ j \in 1 .. (Len(s) - n)
      BY <1>2
    <3>2. s[n + i] = s[n + j]
      BY <1>2, <2>2, <3>1
    <3>3. n + i = n + j
      BY <1>3, <2>0, <3>1, <3>2
    <3>. QED
      BY <1>3, <3>1, <3>3
  <2>3. ASSUME NEW i \in 1 .. Len(f), NEW j \in 1 .. Len(k), f[i] = k[j]
        PROVE  FALSE
    BY <1>1, <1>2, <1>3, <2>0, <2>3
  <2>4. f \in Seq(S) /\ k \in Seq(S)
    BY <1>1, <1>2
  <2>5. Once(k)
    BY <2>2, <2>4, Places
  <2>6. \A x : x \in Range(f) => x \notin Range(k)
    BY <2>3, <2>4, Places
  <2>7. Apart(f, k)
    BY <2>6 DEF Apart
  <2>. QED
    BY <2>1, <2>5, <2>7
<1>. QED
  BY <1>1, <1>2, <1>4, <1>5, <1>6 DEF f, k

-----------------------------------------------------------------------------
(* What the operations of a block do to what is in it. *)
Cut(s, k) == SubSeq(s, k + 1, Len(s))

LEMMA CutOK ==
  ASSUME NEW s \in Seq(Byte), NEW k \in 0 .. Len(s)
  PROVE  /\ Cut(s, k) \in Seq(Byte) /\ Len(Cut(s, k)) = Len(s) - k
         /\ \A i \in 1 .. (Len(s) - k) : Cut(s, k)[i] = s[k + i]
BY OnceSplit DEF Cut

LEMMA SameBytes ==
  ASSUME NEW s \in Seq(Byte), NEW t \in Seq(Byte), Len(s) = Len(t),
         \A i \in 1 .. Len(s) : s[i] = t[i]
  PROVE  s = t
OBVIOUS

LEMMA ResetOK ==
  ASSUME NEW m \in Mem
  PROVE  /\ Reset(m) \in Mem /\ InUse(Reset(m)) = << >>
         /\ Reset(m).capacity = BlockSize /\ BlockSize > 0
<1>1. /\ m \in [offset : Nat, size : Nat, capacity : Nat, bytes : [0 .. (BlockSize - 1) -> Byte]]
      /\ BlockSize \in Nat /\ BlockSize > 0
  BY BufferAssumption DEF Mem
<1>2. /\ Reset(m) \in [offset : Nat, size : Nat, capacity : Nat,
                       bytes : [0 .. (BlockSize - 1) -> Byte]]
      /\ Reset(m).offset = 0 /\ Reset(m).size = 0 /\ Reset(m).capacity = BlockSize
  BY <1>1 DEF Reset
<1>3. Reset(m) \in Mem
  BY <1>1, <1>2 DEF Mem
<1>. HIDE DEF Mem, Reset
<1>4. InUse(Reset(m)) \in Seq(Byte) /\ Len(InUse(Reset(m))) = 0
  BY <1>2, <1>3, InUseOK
<1>. QED
  BY <1>1, <1>2, <1>3, <1>4, EmptySeq

LEMMA AppendedOK ==
  ASSUME NEW m \in Mem, m.capacity > 0, NEW byte \in Byte
  PROVE  /\ Appended(m, byte) \in Mem
         /\ InUse(Appended(m, byte)) = InUse(m) \o <<byte>>
<1>. DEFINE a == Appended(m, byte)
            at == m.offset + m.size
<1>1. /\ m.offset \in Nat /\ m.size \in Nat /\ m.capacity \in Nat
      /\ m.bytes \in [0 .. (BlockSize - 1) -> Byte]
      /\ m.offset + m.size + m.capacity = BlockSize /\ BlockSize \in Nat
  BY BufferAssumption DEF Mem
<1>2. at \in 0 .. (BlockSize - 1) /\ m.size + 1 \in Nat /\ m.capacity - 1 \in Nat
  BY <1>1
<1>3. /\ a.offset = m.offset /\ a.size = m.size + 1 /\ a.capacity = m.capacity - 1
      /\ a.bytes = [m.bytes EXCEPT ![at] = byte]
      /\ a \in [offset : Nat, size : Nat, capacity : Nat, bytes : [0 .. (BlockSize - 1) -> Byte]]
  <2>1. m \in [offset : Nat, size : Nat, capacity : Nat, bytes : [0 .. (BlockSize - 1) -> Byte]]
    BY DEF Mem
  <2>2. a.offset = m.offset
    BY <2>1 DEF Appended
  <2>3. a.size = m.size + 1
    BY <2>1 DEF Appended
  <2>4. a.capacity = m.capacity - 1
    BY <2>1 DEF Appended
  <2>5. a.bytes = [m.bytes EXCEPT ![at] = byte]
    BY <2>1 DEF Appended
  <2>6. [m.bytes EXCEPT ![at] = byte] \in [0 .. (BlockSize - 1) -> Byte]
    BY <1>1
  <2>7. a \in [offset : Nat, size : Nat, capacity : Nat, bytes : [0 .. (BlockSize - 1) -> Byte]]
    BY <1>2, <2>1, <2>6 DEF Appended
  <2>. QED
    BY <2>2, <2>3, <2>4, <2>5, <2>7
<1>. HIDE DEF a, at
<1>4. /\ a.bytes \in [0 .. (BlockSize - 1) -> Byte] /\ a.bytes[at] = byte
      /\ \A i \in 0 .. (BlockSize - 1) : i # at => a.bytes[i] = m.bytes[i]
  BY <1>1, <1>2, <1>3
<1>5. a \in Mem
  <2>1. a.offset + a.size + a.capacity = BlockSize
    <3>1. m.offset + (m.size + 1) + (m.capacity - 1) = BlockSize
      BY <1>1
    <3>. QED
      BY <1>3, <3>1
  <2>. QED
    BY <1>3, <2>1 DEF Mem
<1>6. /\ InUse(m) \in Seq(Byte) /\ Len(InUse(m)) = m.size
      /\ InUse(a) \in Seq(Byte) /\ Len(InUse(a)) = m.size + 1
  BY <1>3, <1>5, InUseOK
<1>7. \A i \in 1 .. m.size : InUse(m)[i] = m.bytes[m.offset + i - 1]
  BY DEF InUse
<1>8. \A i \in 1 .. (m.size + 1) : InUse(a)[i] = a.bytes[m.offset + i - 1]
  BY <1>3 DEF InUse
<1>. DEFINE p == InUse(m) \o <<byte>>
<1>9. /\ p \in Seq(Byte) /\ Len(p) = m.size + 1 /\ p[m.size + 1] = byte
      /\ \A i \in 1 .. m.size : p[i] = InUse(m)[i]
  <2>1. <<byte>> \in Seq(Byte) /\ Len(<<byte>>) = 1 /\ <<byte>>[1] = byte
    OBVIOUS
  <2>2. p \in Seq(Byte) /\ Len(p) = Len(InUse(m)) + 1
    BY <1>6, <2>1, ConcatProperties
  <2>. HIDE DEF Byte, p
  <2>3. ASSUME NEW i \in 1 .. (m.size + 1)
        PROVE  p[i] = IF i <= m.size THEN InUse(m)[i] ELSE <<byte>>[i - m.size]
    BY <1>6, <2>1, ConcatProperties DEF p
  <2>4. ~ (m.size + 1 <= m.size) /\ (m.size + 1) - m.size = 1 /\ m.size + 1 \in 1 .. (m.size + 1)
    BY <1>1
  <2>5. p[m.size + 1] = byte
    BY <2>1, <2>3, <2>4
  <2>6. \A i \in 1 .. m.size : i <= m.size /\ i \in 1 .. (m.size + 1)
    BY <1>1
  <2>7. \A i \in 1 .. m.size : p[i] = InUse(m)[i]
    BY <2>3, <2>6
  <2>. QED
    BY <1>6, <2>2, <2>5, <2>7
<1>. HIDE DEF p
<1>10. ASSUME NEW i \in 1 .. (m.size + 1) PROVE InUse(a)[i] = p[i]
  <2>1. CASE i = m.size + 1
    <3>1. m.offset + i - 1 = at
      BY <1>1, <2>1 DEF at
    <3>. QED
      BY <1>4, <1>8, <1>9, <2>1, <3>1
  <2>2. CASE i # m.size + 1
    <3>1. i \in 1 .. m.size /\ m.offset + i - 1 # at
      BY <1>1, <2>2 DEF at
    <3>2. m.offset + i - 1 \in 0 .. (BlockSize - 1)
      <4>1. \A j \in 1 .. m.size : m.offset + j - 1 \in 0 .. (BlockSize - 1)
        BY <1>1
      <4>. QED
        BY <3>1, <4>1
    <3>3. a.bytes[m.offset + i - 1] = m.bytes[m.offset + i - 1]
      BY <1>4, <3>1, <3>2
    <3>. QED
      BY <1>7, <1>8, <1>9, <3>1, <3>3
  <2>. QED
    BY <2>1, <2>2
<1>11. InUse(a) = p
  BY <1>6, <1>9, <1>10, SameBytes
<1>. QED
  BY <1>5, <1>11 DEF a, p

LEMMA OffsetOK ==
  ASSUME NEW m \in Mem, NEW k \in 0 .. m.size
  PROVE  Offset(m, k) \in Mem /\ InUse(Offset(m, k)) = Cut(InUse(m), k)
<1>. DEFINE a == Offset(m, k)
<1>1. /\ m.offset \in Nat /\ m.size \in Nat /\ m.capacity \in Nat
      /\ m.bytes \in [0 .. (BlockSize - 1) -> Byte]
      /\ m.offset + m.size + m.capacity = BlockSize
  BY DEF Mem
<1>2. k \in Nat /\ k <= m.size /\ m.offset + k \in Nat /\ m.size - k \in Nat
  BY <1>1
<1>3. /\ a.offset = m.offset + k /\ a.size = m.size - k /\ a.capacity = m.capacity
      /\ a.bytes = m.bytes
      /\ a \in [offset : Nat, size : Nat, capacity : Nat, bytes : [0 .. (BlockSize - 1) -> Byte]]
  <2>1. m \in [offset : Nat, size : Nat, capacity : Nat, bytes : [0 .. (BlockSize - 1) -> Byte]]
    BY DEF Mem
  <2>2. a.offset = m.offset + k
    BY <2>1 DEF Offset
  <2>3. a.size = m.size - k
    BY <2>1 DEF Offset
  <2>4. a.capacity = m.capacity /\ a.bytes = m.bytes
    BY <2>1 DEF Offset
  <2>5. a \in [offset : Nat, size : Nat, capacity : Nat, bytes : [0 .. (BlockSize - 1) -> Byte]]
    BY <1>2, <2>1 DEF Offset
  <2>. QED
    BY <2>2, <2>3, <2>4, <2>5
<1>. HIDE DEF a
<1>4. a \in Mem
  <2>1. a.offset + a.size + a.capacity = BlockSize
    BY <1>1, <1>2, <1>3
  <2>. QED
    BY <1>3, <2>1 DEF Mem
<1>5. /\ InUse(m) \in Seq(Byte) /\ Len(InUse(m)) = m.size
      /\ InUse(a) \in Seq(Byte) /\ Len(InUse(a)) = m.size - k
  BY <1>3, <1>4, InUseOK
<1>6. \A i \in 1 .. m.size : InUse(m)[i] = m.bytes[m.offset + i - 1]
  BY DEF InUse
<1>7. \A i \in 1 .. (m.size - k) : InUse(a)[i] = m.bytes[(m.offset + k) + i - 1]
  BY <1>3 DEF InUse
<1>8. /\ Cut(InUse(m), k) \in Seq(Byte) /\ Len(Cut(InUse(m), k)) = m.size - k
      /\ \A i \in 1 .. (m.size - k) : Cut(InUse(m), k)[i] = InUse(m)[k + i]
  BY <1>5, CutOK
<1>9. ASSUME NEW i \in 1 .. (m.size - k) PROVE InUse(a)[i] = Cut(InUse(m), k)[i]
  <2>1. k + i \in 1 .. m.size
    BY <1>1, <1>2
  <2>2. m.offset + (k + i) - 1 = (m.offset + k) + i - 1
    BY <1>1, <1>2
  <2>. QED
    BY <1>6, <1>7, <1>8, <2>1, <2>2
<1>10. InUse(a) = Cut(InUse(m), k)
  BY <1>5, <1>8, <1>9, SameBytes
<1>. QED
  BY <1>4, <1>10 DEF a

(* Blocks with the same bytes make chains with the same bytes. *)
LEMMA BytesSame ==
  ASSUME NEW c \in Seq(Block), NEW d \in Seq(Block), NEW n \in Nat,
         n <= Len(c), n <= Len(d),
         NEW mem \in Memory, NEW other \in Memory,
         \A i \in 1 .. n : InUse(mem[c[i]]) = InUse(other[d[i]])
  PROVE  BytesIn(c, mem, n) = BytesIn(d, other, n)
<1>. DEFINE Same(i) == BytesIn(c, mem, i) = BytesIn(d, other, i)
            T == {i \in Nat : Same(i)}
<1>1. 0 \in T
  <2>1. Same(0)
    BY BytesUnfold
  <2>. HIDE DEF Same
  <2>. QED
    BY <2>1
<1>2. ASSUME NEW i \in 1 .. n, i - 1 \in T PROVE i \in T
  <2>1. i \in Nat /\ i \in 1 .. Len(c) /\ i \in 1 .. Len(d) /\ Same(i - 1)
    BY <1>2
  <2>2. BytesIn(c, mem, i) = BytesIn(c, mem, i - 1) \o InUse(mem[c[i]])
    BY <2>1, BytesUnfold
  <2>3. BytesIn(d, other, i) = BytesIn(d, other, i - 1) \o InUse(other[d[i]])
    BY <2>1, BytesUnfold
  <2>4. Same(i)
    BY <2>1, <2>2, <2>3
  <2>. HIDE DEF Same
  <2>. QED
    BY <2>1, <2>4
<1>. HIDE DEF T, Same
<1>3. 0 .. n \subseteq T
  BY <1>1, <1>2, NaturalsUpTo
<1>4. n \in T
  BY <1>3
<1>. QED
  BY <1>4 DEF T, Same

-----------------------------------------------------------------------------
(* fill_len at work: the blocks of the chain and of the pool are allocated, *)
(* each is there once, and none of them is one of the blocks X that the     *)
(* other buffers have, whose bytes stay what they were in `before'.         *)
Working ==
  [chain : Seq(Block), length : Nat, pool : Seq(Block), heap : SUBSET Block,
   memory : Memory, failed : BOOLEAN]

Filling(X, before) ==
  {s \in Working :
     /\ Once(s.chain) /\ Once(s.pool) /\ Apart(s.chain, s.pool)
     /\ Range(s.chain) \subseteq s.heap /\ Range(s.pool) \subseteq s.heap
     /\ X \subseteq s.heap
     /\ Range(s.chain) \cap X = {} /\ Range(s.pool) \cap X = {}
     /\ \A x \in X : s.memory[x] = before[x]}

Held(s) == BytesIn(s.chain, s.memory, Len(s.chain))

LEMMA FillingOK ==
  ASSUME NEW X, NEW before, NEW s \in Filling(X, before)
  PROVE  /\ s.chain \in Seq(Block) /\ s.length \in Nat /\ s.pool \in Seq(Block)
         /\ s.heap \subseteq Block /\ s.memory \in Memory /\ s.failed \in BOOLEAN
         /\ Once(s.chain) /\ Once(s.pool) /\ Apart(s.chain, s.pool)
         /\ Range(s.chain) \subseteq s.heap /\ Range(s.pool) \subseteq s.heap
         /\ X \subseteq s.heap
         /\ Range(s.chain) \cap X = {} /\ Range(s.pool) \cap X = {}
         /\ \A x \in X : s.memory[x] = before[x]
BY DEF Filling, Working

(* A block taken for a chain, emptied: the chain holds the same bytes.      *)
LEMMA TakenOK ==
  ASSUME NEW c \in Seq(Block), NEW mem \in Memory, NEW x \in Block, x \notin Range(c),
         NEW m \in Mem, InUse(m) = << >>
  PROVE  LET d == Append(c, x)
             new == [mem EXCEPT ![x] = m]
         IN  /\ new \in Memory /\ new[x] = m /\ \A y \in Block \ {x} : new[y] = mem[y]
             /\ BytesIn(d, new, Len(d)) = BytesIn(c, mem, Len(c))
<1>. DEFINE d == Append(c, x)
            new == [mem EXCEPT ![x] = m]
            n == Len(c)
<1>1. new \in Memory /\ new[x] = m /\ \A y \in Block \ {x} : new[y] = mem[y]
  BY DEF Memory
<1>2. /\ d \in Seq(Block) /\ Len(d) = n + 1 /\ d[n + 1] = x
      /\ \A i \in 1 .. n : d[i] = c[i]
      /\ n \in Nat
  OBVIOUS
<1>. HIDE DEF d, new, n
<1>3. ASSUME NEW i \in 1 .. n PROVE InUse(mem[c[i]]) = InUse(new[d[i]])
  <2>1. c[i] \in Block /\ c[i] # x
    BY Places DEF n
  <2>. QED
    BY <1>1, <1>2, <2>1
<1>4. n \in Nat /\ n <= Len(c) /\ n <= Len(d) /\ d \in Seq(Block) /\ new \in Memory
  BY <1>1, <1>2 DEF n
<1>5. BytesIn(c, mem, n) = BytesIn(d, new, n)
  BY <1>3, <1>4, BytesSame
<1>6. n + 1 \in 1 .. Len(d) /\ (n + 1) - 1 = n /\ n \in 0 .. Len(d)
  BY <1>2
<1>7. /\ BytesIn(d, new, n + 1) = BytesIn(d, new, n) \o InUse(new[d[n + 1]])
      /\ BytesIn(d, new, n) \in Seq(Byte)
  <2>1. /\ \A i \in 1 .. Len(d) :
             BytesIn(d, new, i) = BytesIn(d, new, i - 1) \o InUse(new[d[i]])
        /\ \A i \in 0 .. Len(d) : BytesIn(d, new, i) \in Seq(Byte)
    BY <1>4, BytesUnfold
  <2>. QED
    BY <1>6, <2>1
<1>8. BytesIn(d, new, n + 1) = BytesIn(d, new, n)
  BY <1>1, <1>2, <1>7, ConcatEmptySeq
<1>. QED
  BY <1>1, <1>2, <1>5, <1>8 DEF d, new, n

(* The last block of a chain with one more byte: so has the chain.          *)
LEMMA PutOK ==
  ASSUME NEW c \in Seq(Block), NEW mem \in Memory, c # << >>, Once(c),
         NEW byte \in Byte, mem[Last(c)].capacity > 0
  PROVE  LET new == [mem EXCEPT ![Last(c)] = Appended(@, byte)]
         IN  /\ new \in Memory /\ \A y \in Block \ {Last(c)} : new[y] = mem[y]
             /\ BytesIn(c, new, Len(c)) = BytesIn(c, mem, Len(c)) \o <<byte>>
<1>. DEFINE n == Len(c)
            x == Last(c)
            m == Appended(mem[x], byte)
            new == [mem EXCEPT ![x] = Appended(@, byte)]
<1>1. n \in Nat /\ n # 0 /\ x = c[n] /\ n \in 1 .. n /\ n - 1 \in Nat /\ x \in Block
  BY DEF Last
<1>2. mem[x] \in Mem /\ m \in Mem /\ InUse(m) = InUse(mem[x]) \o <<byte>>
  <2>1. mem[x] \in Mem
    BY <1>1 DEF Memory
  <2>. QED
    BY <2>1, AppendedOK
<1>. HIDE DEF m
<1>3. new \in Memory /\ new[x] = m /\ \A y \in Block \ {x} : new[y] = mem[y]
  BY <1>1, <1>2 DEF Memory, m
<1>. HIDE DEF new, n, x
<1>4. ASSUME NEW i \in 1 .. (n - 1) PROVE InUse(mem[c[i]]) = InUse(new[c[i]])
  <2>1. i \in 1 .. n /\ i # n
    BY <1>1
  <2>2. c[i] \in Block /\ c[i] # x
    BY <1>1, <2>1, Places DEF n
  <2>. QED
    BY <1>3, <2>2
<1>5. n - 1 <= Len(c)
  BY <1>1 DEF n
<1>6. BytesIn(c, mem, n - 1) = BytesIn(c, new, n - 1)
  BY <1>1, <1>3, <1>4, <1>5, BytesSame
<1>7. /\ BytesIn(c, mem, n) = BytesIn(c, mem, n - 1) \o InUse(mem[x])
      /\ BytesIn(c, new, n) = BytesIn(c, new, n - 1) \o InUse(new[x])
      /\ BytesIn(c, mem, n - 1) \in Seq(Byte)
  <2>1. n - 1 \in 0 .. Len(c)
    BY <1>1 DEF n
  <2>. QED
    BY <1>1, <1>3, <2>1, BytesUnfold DEF n
<1>8. InUse(mem[x]) \in Seq(Byte) /\ <<byte>> \in Seq(Byte)
  BY <1>2, InUseOK
<1>9. BytesIn(c, new, n) = BytesIn(c, mem, n) \o <<byte>>
  <2>. DEFINE p == BytesIn(c, mem, n - 1)
              q == InUse(mem[x])
  <2>1. BytesIn(c, new, n) = p \o (q \o <<byte>>) /\ BytesIn(c, mem, n) = p \o q
    BY <1>2, <1>3, <1>6, <1>7
  <2>2. p \in Seq(Byte) /\ q \in Seq(Byte) /\ <<byte>> \in Seq(Byte)
    BY <1>7, <1>8
  <2>. HIDE DEF p, q
  <2>. QED
    BY <2>1, <2>2, Regroup
<1>. QED
  BY <1>3, <1>9 DEF n, x, new

(* A step of fill_len that takes a block, if there is one: what it takes is *)
(* in no chain and not in the pool any more.                                *)
LEMMA AcquireOK ==
  ASSUME NEW X, NEW before, NEW s \in Filling(X, before), ~ s.failed
  PROVE  LET a == Acquire(s)
         IN  /\ a \in Filling(X, before)
             /\ a.length = s.length /\ Held(a) = Held(s)
             /\ ~ a.failed => /\ a.chain # << >>
                              /\ a.memory[Last(a.chain)].capacity > 0
<1>. DEFINE free == Block \ s.heap
            fresh == CHOOSE x \in free : \A y \in free : x <= y
            taken == IF s.pool = << >> THEN fresh ELSE Head(s.pool)
            left == IF s.pool = << >> THEN s.pool ELSE Tail(s.pool)
            a == Acquire(s)
<1>0. s \in Working
  BY DEF Filling
<1>1. CASE s.pool = << >> /\ free = {}
  <2>1. a = [s EXCEPT !.failed = TRUE]
    BY <1>1 DEF Acquire
  <2>2. /\ a \in Working /\ a.failed = TRUE
        /\ a.chain = s.chain /\ a.length = s.length /\ a.pool = s.pool
        /\ a.heap = s.heap /\ a.memory = s.memory
    BY <1>0, <2>1 DEF Working
  <2>. HIDE DEF a
  <2>3. a \in Filling(X, before)
    BY <2>2, FillingOK DEF Filling
  <2>4. Held(a) = Held(s)
    BY <2>2 DEF Held
  <2>. QED
    BY <2>2, <2>3, <2>4 DEF a
<1>2. CASE ~ (s.pool = << >> /\ free = {})
  <2>1. /\ taken \in Block /\ taken \notin Range(s.chain) /\ taken \notin X
        /\ left \in Seq(Block) /\ Range(left) \subseteq Range(s.pool)
        /\ Once(left) /\ taken \notin Range(left)
    <3>1. CASE s.pool = << >>
      <4>1. free # {} /\ free \in SUBSET Nat /\ free \subseteq Block
        BY <1>2, <3>1, BufferAssumption
      <4>. HIDE DEF free
      <4>2. fresh \in free
        BY <4>1, LeastNatural
      <4>3. fresh \in Block /\ fresh \notin s.heap
        BY <4>1, <4>2 DEF free
      <4>4. taken = fresh /\ left = << >>
        BY <3>1
      <4>. HIDE DEF taken, left, fresh
      <4>. QED
        BY <3>1, <4>3, <4>4, OnceEmpty, FillingOK
    <3>2. CASE s.pool # << >>
      <4>1. taken = Head(s.pool) /\ left = Tail(s.pool)
        BY <3>2
      <4>2. s.pool \in Seq(Block) /\ Once(s.pool)
        BY FillingOK
      <4>3. /\ left \in Seq(Block) /\ taken \in Range(s.pool) /\ taken \in Block
            /\ Range(left) \subseteq Range(s.pool)
            /\ Once(left) /\ taken \notin Range(left)
        BY <3>2, <4>1, <4>2, OnceTail
      <4>. HIDE DEF taken, left
      <4>4. taken \notin Range(s.chain) /\ taken \notin X
        BY <4>3, FillingOK DEF Apart
      <4>. QED
        BY <4>3, <4>4
    <3>. QED
      BY <3>1, <3>2
  <2>2. s.memory \in Memory /\ s.chain \in Seq(Block) /\ s.heap \subseteq Block
    BY FillingOK
  <2>. DEFINE m == Reset(s.memory[taken])
              chain == Append(s.chain, taken)
              mem == [s.memory EXCEPT ![taken] = m]
              all == s.heap \cup {taken}
  <2>3. a = [s EXCEPT !.pool = left, !.heap = all, !.chain = chain, !.memory = mem]
    <3>1. a = [s EXCEPT !.pool = IF @ = << >> THEN @ ELSE Tail(@),
                        !.heap = @ \cup {taken},
                        !.chain = Append(@, taken),
                        !.memory[taken] = Reset(@)]
      BY <1>2, Zenon DEF Acquire
    <3>. QED
      BY <1>0, <3>1 DEF Working
  <2>. HIDE DEF taken, left, a
  <2>4. m \in Mem /\ InUse(m) = << >> /\ m.capacity > 0
    <3>1. s.memory[taken] \in Mem
      BY <2>1, <2>2 DEF Memory
    <3>. QED
      BY <3>1, ResetOK
  <2>. HIDE DEF m
  <2>5. /\ mem \in Memory /\ mem[taken] = m
        /\ \A y \in Block \ {taken} : mem[y] = s.memory[y]
        /\ BytesIn(chain, mem, Len(chain)) = Held(s)
    BY <2>1, <2>2, <2>4, TakenOK DEF Held
  <2>6. /\ chain \in Seq(Block) /\ Once(chain) /\ Range(chain) = Range(s.chain) \cup {taken}
    BY <2>1, <2>2, OnceAppend, FillingOK
  <2>7. chain # << >> /\ Last(chain) = taken
    BY <2>1, <2>2 DEF Last
  <2>. HIDE DEF mem, chain
  <2>8. all \subseteq Block /\ s.heap \subseteq all /\ taken \in all
    BY <2>1, <2>2
  <2>. HIDE DEF all
  <2>9. /\ a.pool = left /\ a.heap = all /\ a.chain = chain /\ a.memory = mem
        /\ a.length = s.length /\ a.failed = s.failed
        /\ a \in Working
    BY <1>0, <2>1, <2>3, <2>5, <2>6, <2>8 DEF Working
  <2>10. /\ Apart(a.chain, a.pool) /\ Once(a.chain) /\ Once(a.pool)
         /\ Range(a.chain) \subseteq a.heap /\ Range(a.pool) \subseteq a.heap
         /\ X \subseteq a.heap
         /\ Range(a.chain) \cap X = {} /\ Range(a.pool) \cap X = {}
    <3>1. Range(a.chain) \subseteq a.heap /\ Range(a.pool) \subseteq a.heap /\ X \subseteq a.heap
      BY <2>1, <2>6, <2>8, <2>9, FillingOK
    <3>2. Apart(a.chain, a.pool)
      <4>1. Range(s.chain) \cap Range(s.pool) = {}
        BY FillingOK DEF Apart
      <4>2. Range(a.chain) \cap Range(a.pool) = {}
        BY <2>1, <2>6, <2>9, <4>1
      <4>. QED
        BY <4>2 DEF Apart
    <3>3. Range(a.chain) \cap X = {} /\ Range(a.pool) \cap X = {}
      BY <2>1, <2>6, <2>9, FillingOK
    <3>. QED
      BY <2>1, <2>6, <2>9, <3>1, <3>2, <3>3
  <2>11. \A x \in X : a.memory[x] = before[x]
    BY <2>1, <2>2, <2>5, <2>9, FillingOK
  <2>12. a \in Filling(X, before)
    BY <2>9, <2>10, <2>11 DEF Filling
  <2>13. Held(a) = Held(s)
    BY <2>5, <2>9 DEF Held
  <2>. QED
    BY <2>4, <2>5, <2>7, <2>9, <2>12, <2>13 DEF a
<1>. QED
  BY <1>1, <1>2

(* A step of fill_len: one more byte at the end, or no block left.          *)
LEMMA FillByteOK ==
  ASSUME NEW X, NEW before, NEW s \in Filling(X, before), NEW byte \in Byte
  PROVE  LET t == FillByte(s, byte)
         IN  /\ t \in Filling(X, before)
             /\ \/ t.failed /\ t.length = s.length /\ Held(t) = Held(s)
                \/ /\ ~ s.failed /\ ~ t.failed
                   /\ t.length = s.length + 1 /\ Held(t) = Held(s) \o <<byte>>
<1>. DEFINE a == IF ~ s.failed /\ NeedsBlock(s) THEN Acquire(s) ELSE s
            t == FillByte(s, byte)
<1>1. t = IF a.failed
            THEN a
            ELSE [a EXCEPT !.memory[Last(a.chain)] = Appended(@, byte), !.length = @ + 1]
  BY Zenon DEF FillByte
<1>2. /\ a \in Filling(X, before) /\ a.length = s.length /\ Held(a) = Held(s)
      /\ s.failed => a.failed
      /\ ~ a.failed => a.chain # << >> /\ a.memory[Last(a.chain)].capacity > 0
  <2>1. CASE ~ s.failed /\ NeedsBlock(s)
    <3>1. a = Acquire(s)
      BY <2>1, Zenon
    <3>. HIDE DEF a
    <3>. QED
      BY <2>1, <3>1, AcquireOK
  <2>2. CASE ~ (~ s.failed /\ NeedsBlock(s))
    <3>1. a = s
      BY <2>2, Zenon
    <3>. HIDE DEF a
    <3>2. ASSUME ~ s.failed
          PROVE  s.chain # << >> /\ s.memory[Last(s.chain)].capacity > 0
      <4>1. s.chain # << >> /\ s.memory[Last(s.chain)].capacity # 0
        BY <2>2, <3>2 DEF NeedsBlock
      <4>2. Last(s.chain) \in Block
        BY <4>1, FillingOK DEF Last
      <4>3. s.memory[Last(s.chain)] \in Mem
        BY <4>2, FillingOK DEF Memory
      <4>4. s.memory[Last(s.chain)].capacity \in Nat
        BY <4>3 DEF Mem
      <4>. QED
        BY <4>1, <4>4
    <3>. QED
      BY <3>1, <3>2
  <2>. QED
    BY <2>1, <2>2
<1>. HIDE DEF a
<1>3. CASE a.failed
  <2>1. t = a
    BY <1>1, <1>3
  <2>. HIDE DEF t
  <2>. QED
    BY <1>2, <1>3, <2>1 DEF t
<1>4. CASE ~ a.failed
  <2>. DEFINE x == Last(a.chain)
              mem == [a.memory EXCEPT ![x] = Appended(@, byte)]
  <2>0. a \in Working
    BY <1>2 DEF Filling
  <2>1. t = [a EXCEPT !.memory = mem, !.length = @ + 1]
    BY <1>1, <1>4, <2>0 DEF Working
  <2>. HIDE DEF t
  <2>2. a.chain \in Seq(Block) /\ a.memory \in Memory /\ Once(a.chain) /\ a.length \in Nat
    BY <1>2, FillingOK
  <2>3. /\ mem \in Memory /\ \A y \in Block \ {x} : mem[y] = a.memory[y]
        /\ BytesIn(a.chain, mem, Len(a.chain)) = Held(a) \o <<byte>>
    <3>1. a.chain # << >> /\ a.memory[Last(a.chain)].capacity > 0
      BY <1>2, <1>4
    <3>. DEFINE c == a.chain
                old == a.memory
                new == [old EXCEPT ![Last(c)] = Appended(@, byte)]
    <3>2. /\ c \in Seq(Block) /\ old \in Memory /\ c # << >> /\ Once(c)
          /\ old[Last(c)].capacity > 0
      BY <2>2, <3>1
    <3>. HIDE DEF c, old
    <3>3. /\ new \in Memory /\ \A y \in Block \ {Last(c)} : new[y] = old[y]
          /\ BytesIn(c, new, Len(c)) = BytesIn(c, old, Len(c)) \o <<byte>>
      BY <3>2, PutOK
    <3>. QED
      BY <3>3, Zenon DEF Held, c, old
  <2>4. x \in Range(a.chain)
    <3>1. Len(a.chain) \in 1 .. Len(a.chain)
      BY <1>2, <1>4, <2>2
    <3>. QED
      BY <2>2, <3>1, Places DEF Last
  <2>. HIDE DEF mem, x
  <2>5. /\ t.chain = a.chain /\ t.pool = a.pool /\ t.heap = a.heap
        /\ t.memory = mem /\ t.length = a.length + 1 /\ t.failed = a.failed
        /\ t \in Working
    <3>1. a.length + 1 \in Nat
      BY <2>2
    <3>2. /\ t.chain = a.chain /\ t.pool = a.pool /\ t.heap = a.heap
          /\ t.failed = a.failed
      BY <2>0, <2>1 DEF Working
    <3>3. t.memory = mem
      BY <2>0, <2>1 DEF Working
    <3>4. t.length = a.length + 1
      BY <2>0, <2>1 DEF Working
    <3>5. t \in Working
      BY <2>0, <2>1, <2>3, <3>1 DEF Working
    <3>. QED
      BY <3>2, <3>3, <3>4, <3>5
  <2>6. \A y \in X : t.memory[y] = before[y]
    BY <1>2, <2>3, <2>4, <2>5, FillingOK
  <2>7. t \in Filling(X, before)
    BY <1>2, <2>5, <2>6, FillingOK DEF Filling
  <2>8. Held(t) = Held(a) \o <<byte>>
    BY <2>3, <2>5 DEF Held
  <2>. QED
    BY <1>2, <1>4, <2>5, <2>7, <2>8 DEF t
<1>. QED
  BY <1>3, <1>4

(* The bytes given to a buffer next.                                        *)
Given(b, k) == [i \in 1 .. k |-> <<b, entered[b] + i>>]

LEMMA GivenOK ==
  ASSUME NEW b \in Buf, entered[b] \in Nat, NEW k \in Nat
  PROVE  /\ Given(b, k) \in Seq(Byte)
         /\ <<b, entered[b] + k + 1>> \in Byte
         /\ Given(b, k + 1) = Given(b, k) \o <<<<b, entered[b] + k + 1>>>>
         /\ Given(b, 0) = << >>
<1>. DEFINE g(j) == [i \in 1 .. j |-> <<b, entered[b] + i>>]
            v == <<b, entered[b] + k + 1>>
<1>0. \A j : Given(b, j) = g(j)
  BY Zenon DEF Given
<1>1. ASSUME NEW j \in Nat
      PROVE  /\ g(j) \in Seq(Byte) /\ Len(g(j)) = j
             /\ \A i \in 1 .. j : g(j)[i] = <<b, entered[b] + i>>
  <2>1. \A i \in 1 .. j : <<b, entered[b] + i>> \in Byte
    BY DEF Byte
  <2>. HIDE DEF Byte
  <2>. QED
    BY <2>1
<1>2. v \in Byte
  BY DEF Byte
<1>3. k + 1 \in Nat /\ 0 \in Nat
  OBVIOUS
<1>. HIDE DEF g
<1>4. /\ g(k) \in Seq(Byte) /\ Len(g(k)) = k
      /\ g(k + 1) \in Seq(Byte) /\ Len(g(k + 1)) = k + 1
      /\ g(0) \in Seq(Byte) /\ Len(g(0)) = 0
  BY <1>1, <1>3
<1>. DEFINE p == g(k) \o <<v>>
<1>5. <<v>> \in Seq(Byte) /\ Len(<<v>>) = 1 /\ <<v>>[1] = v
  BY <1>2
<1>. HIDE DEF v
<1>6. p \in Seq(Byte) /\ Len(p) = k + 1
  BY <1>4, <1>5, ConcatProperties
<1>7. \A i \in 1 .. (k + 1) : p[i] = IF i <= k THEN g(k)[i] ELSE <<v>>[i - k]
  BY <1>4, <1>5, ConcatProperties
<1>. HIDE DEF p
<1>8. ASSUME NEW i \in 1 .. (k + 1) PROVE g(k + 1)[i] = p[i]
  <2>1. CASE i <= k
    <3>1. i \in 1 .. k
      BY <2>1
    <3>. QED
      BY <1>1, <1>3, <1>7, <2>1, <3>1
  <2>2. CASE ~ (i <= k)
    <3>1. i = k + 1 /\ i - k = 1
      BY <2>2
    <3>2. g(k + 1)[i] = <<b, entered[b] + (k + 1)>>
      BY <1>1, <1>3, <3>1
    <3>3. entered[b] + (k + 1) = entered[b] + k + 1
      OBVIOUS
    <3>. QED
      BY <1>5, <1>7, <2>2, <3>1, <3>2, <3>3 DEF v
  <2>. QED
    BY <2>1, <2>2
<1>9. g(k + 1) = p
  BY <1>4, <1>6, <1>8, SameBytes
<1>10. g(0) = << >>
  BY <1>4, EmptySeq
<1>. QED
  BY <1>0, <1>2, <1>4, <1>9, <1>10 DEF p, v

(* fill_len puts the first j of the bytes at the end of the chain, all of   *)
(* them or as many as there was memory for, and counts them.                *)
LEMMA FilledOK ==
  ASSUME NEW b \in Buf, NEW k \in Nat, entered[b] \in Nat,
         NEW X, NEW before, Start(b) \in Filling(X, before)
  PROVE  /\ Filled(b, k) \in Filling(X, before)
         /\ \E j \in 0 .. k :
              /\ Filled(b, k).length = Start(b).length + j
              /\ Held(Filled(b, k)) = Held(Start(b)) \o Given(b, j)
<1>. DEFINE S == Start(b)
            byte(i) == <<b, entered[b] + i>>
            P(g) == g = [i \in 0 .. k |->
                           IF i = 0 THEN S ELSE FillByte(g[i - 1], byte(i))]
            u == CHOOSE g : P(g)
            V == Filling(X, before)
            G == [p \in V \X (1 .. k) |-> FillByte(p[1], byte(p[2]))]
<1>1. Filled(b, k) = u[k]
  BY Zenon DEF Filled
<1>2. S \in V
  OBVIOUS
<1>. HIDE DEF S
<1>3. \A i \in 1 .. k : byte(i) \in Byte
  BY DEF Byte
<1>. HIDE DEF byte
<1>4. ASSUME NEW s \in V, NEW i \in 1 .. k PROVE FillByte(s, byte(i)) \in V
  BY <1>3, FillByteOK
<1>5. \E g : P(g)
  <2>1. Steps(G, V, k)
    <3>. HIDE DEF V
    <3>1. \A p \in V \X (1 .. k) : FillByte(p[1], byte(p[2])) \in V
      BY <1>4
    <3>. QED
      BY <3>1 DEF Steps
  <2>. HIDE DEF G, V
  <2>2. PICK g \in [0 .. k -> V] :
          g[0] = S /\ \A i \in 1 .. k : g[i] = G[<<g[i - 1], i>>]
    BY <1>2, <2>1, Recursion
  <2>3. ASSUME NEW i \in 1 .. k PROVE g[i] = FillByte(g[i - 1], byte(i))
    <3>1. i - 1 \in 0 .. k /\ g[i - 1] \in V
      OBVIOUS
    <3>2. <<g[i - 1], i>> \in V \X (1 .. k)
      BY <3>1
    <3>3. G[<<g[i - 1], i>>] = FillByte(g[i - 1], byte(i))
      BY <3>2 DEF G
    <3>. QED
      BY <2>2, <3>3
  <2>4. ASSUME NEW i \in 0 .. k
        PROVE  g[i] = IF i = 0 THEN S ELSE FillByte(g[i - 1], byte(i))
    <3>1. i # 0 => i \in 1 .. k
      OBVIOUS
    <3>. QED
      BY <2>2, <2>3, <3>1
  <2>5. P(g)
    BY <2>2, <2>4
  <2>. HIDE DEF P
  <2>. QED
    BY <2>5
<1>6. P(u)
  <2>. HIDE DEF P
  <2>. QED
    BY <1>5
<1>. HIDE DEF u
<1>7. u[0] = S
  BY <1>6
<1>8. \A i \in 1 .. k : u[i] = FillByte(u[i - 1], byte(i))
  <2>1. \A i \in 1 .. k : i \in 0 .. k /\ i # 0
    OBVIOUS
  <2>. QED
    BY <1>6, <2>1, Zenon
<1>. HIDE DEF P, G
<1>. DEFINE Claim(i) ==
              /\ u[i] \in V
              /\ \E j \in 0 .. i :
                   /\ u[i].length = S.length + j
                   /\ Held(u[i]) = Held(S) \o Given(b, j)
                   /\ ~ u[i].failed => j = i
            T == {i \in Nat : Claim(i)}
<1>9. S.length \in Nat /\ Held(S) \in Seq(Byte)
  <2>1. S.length \in Nat /\ S.chain \in Seq(Block) /\ S.memory \in Memory
    BY <1>2, FillingOK
  <2>. QED
    BY <2>1, BytesUnfold DEF Held
<1>. HIDE DEF V
<1>10. Claim(0)
  <2>1. Held(S) = Held(S) \o Given(b, 0)
    BY <1>9, GivenOK, ConcatEmptySeq
  <2>2. 0 \in 0 .. 0 /\ S.length = S.length + 0
    BY <1>9
  <2>. QED
    BY <1>2, <1>7, <2>1, <2>2
<1>11. ASSUME NEW i \in 1 .. k, Claim(i - 1) PROVE Claim(i)
  <2>1. PICK j \in 0 .. (i - 1) :
          /\ u[i - 1].length = S.length + j
          /\ Held(u[i - 1]) = Held(S) \o Given(b, j)
          /\ ~ u[i - 1].failed => j = i - 1
    BY <1>11
  <2>. DEFINE s == u[i - 1]
              t == u[i]
  <2>2. s \in V /\ t = FillByte(s, byte(i))
    BY <1>8, <1>11
  <2>3. /\ t \in V
        /\ \/ t.failed /\ t.length = s.length /\ Held(t) = Held(s)
           \/ /\ ~ s.failed /\ ~ t.failed
              /\ t.length = s.length + 1 /\ Held(t) = Held(s) \o <<byte(i)>>
    BY <1>3, <2>2, FillByteOK DEF V
  <2>4. j \in Nat /\ j \in 0 .. i /\ i \in Nat /\ j + 1 \in 0 .. i
    OBVIOUS
  <2>5. /\ s.length = S.length + j /\ Held(s) = Held(S) \o Given(b, j)
        /\ ~ s.failed => j = i - 1
    BY <2>1
  <2>8. s.length = S.length + j /\ Held(s) = Held(S) \o Given(b, j)
    BY <2>5
  <2>. HIDE DEF s, t
  <2>6. CASE t.failed /\ t.length = s.length /\ Held(t) = Held(s)
    <3>1. \E n \in 0 .. i : /\ t.length = S.length + n
                            /\ Held(t) = Held(S) \o Given(b, n)
                            /\ ~ t.failed => n = i
      BY <2>4, <2>5, <2>6
    <3>. QED
      BY <2>3, <3>1 DEF t
  <2>7. CASE /\ ~ s.failed /\ ~ t.failed
             /\ t.length = s.length + 1 /\ Held(t) = Held(s) \o <<byte(i)>>
    <3>0. j = i - 1 /\ t.length = s.length + 1 /\ Held(t) = Held(s) \o <<byte(i)>>
      BY <2>5, <2>7, Zenon
    <3>1. j + 1 = i /\ entered[b] + j + 1 = entered[b] + i
      BY <3>0
    <3>2. /\ Given(b, j) \in Seq(Byte) /\ <<byte(i)>> \in Seq(Byte)
          /\ Given(b, j + 1) = Given(b, j) \o <<byte(i)>>
      <4>1. byte(i) \in Byte
        BY <1>3
      <4>2. <<byte(i)>> \in Seq(Byte)
        BY <4>1
      <4>3. byte(i) = <<b, entered[b] + j + 1>>
        BY <3>1 DEF byte
      <4>. QED
        BY <2>4, <4>2, <4>3, GivenOK
    <3>3. Held(t) = Held(S) \o Given(b, j + 1)
      <4>1. Held(t) = (Held(S) \o Given(b, j)) \o <<byte(i)>>
        BY <2>8, <3>0, Zenon
      <4>2. Held(S) \in Seq(Byte)
        BY <1>9
      <4>3. Held(S) \o (Given(b, j) \o <<byte(i)>>) = (Held(S) \o Given(b, j)) \o <<byte(i)>>
        BY <3>2, <4>2, Regroup
      <4>. QED
        BY <3>2, <4>1, <4>3, Zenon
    <3>4. t.length = S.length + (j + 1)
      <4>1. s.length = S.length + j
        BY <2>8
      <4>2. t.length = s.length + 1
        BY <3>0
      <4>3. t.length = (S.length + j) + 1
        BY <4>1, <4>2
      <4>4. S.length \in Nat
        BY <1>9
      <4>5. (S.length + j) + 1 = S.length + (j + 1)
        BY <2>4, <4>4
      <4>. QED
        BY <4>3, <4>5
    <3>5. \E n \in 0 .. i : /\ t.length = S.length + n
                            /\ Held(t) = Held(S) \o Given(b, n)
                            /\ ~ t.failed => n = i
      BY <2>4, <3>1, <3>3, <3>4
    <3>. QED
      BY <2>3, <3>5 DEF t
  <2>. QED
    BY <2>3, <2>6, <2>7
<1>. HIDE DEF Claim
<1>12. 0 \in T /\ \A i \in 1 .. k : i - 1 \in T => i \in T
  BY <1>10, <1>11
<1>. HIDE DEF T
<1>13. 0 .. k \subseteq T
  BY <1>12, NaturalsUpTo
<1>14. Claim(k)
  BY <1>13 DEF T
<1>. QED
  BY <1>1, <1>14 DEF Claim, S, V

-----------------------------------------------------------------------------
(* The front cut off what is made of two parts.                             *)
LEMMA CutFront ==
  ASSUME NEW s \in Seq(Byte), NEW t \in Seq(Byte), NEW k \in 0 .. Len(s)
  PROVE  Cut(s \o t, k) = Cut(s, k) \o t
<1>. DEFINE u == s \o t
            left == Cut(u, k)
            right == Cut(s, k) \o t
            m == Len(s)
            n == Len(t)
<1>1. m \in Nat /\ n \in Nat /\ k \in Nat /\ k <= m
  OBVIOUS
<1>2. u \in Seq(Byte) /\ Len(u) = m + n
  BY ConcatProperties
<1>3. \A i \in 1 .. (m + n) : u[i] = IF i <= m THEN s[i] ELSE t[i - m]
  BY ConcatProperties
<1>4. /\ Cut(s, k) \in Seq(Byte) /\ Len(Cut(s, k)) = m - k
      /\ \A i \in 1 .. (m - k) : Cut(s, k)[i] = s[k + i]
  BY CutOK
<1>5. right \in Seq(Byte) /\ Len(right) = (m - k) + n
  BY <1>4, ConcatProperties
<1>6. \A i \in 1 .. ((m - k) + n) :
        right[i] = IF i <= m - k THEN Cut(s, k)[i] ELSE t[i - (m - k)]
  BY <1>4, ConcatProperties
<1>. HIDE DEF u
<1>7. /\ left \in Seq(Byte) /\ Len(left) = (m + n) - k
      /\ \A i \in 1 .. ((m + n) - k) : left[i] = u[k + i]
  <2>1. k \in 0 .. Len(u)
    BY <1>1, <1>2
  <2>. QED
    BY <1>2, <2>1, CutOK
<1>. HIDE DEF left, right, m, n
<1>8. (m + n) - k = (m - k) + n
  BY <1>1
<1>9. ASSUME NEW i \in 1 .. ((m - k) + n) PROVE left[i] = right[i]
  <2>1. k + i \in 1 .. (m + n) /\ i \in 1 .. ((m + n) - k)
    BY <1>1
  <2>2. CASE i <= m - k
    <3>1. k + i <= m /\ i \in 1 .. (m - k)
      BY <1>1, <2>2
    <3>. QED
      BY <1>3, <1>4, <1>6, <1>7, <2>1, <2>2, <3>1
  <2>3. CASE ~ (i <= m - k)
    <3>1. ~ (k + i <= m) /\ (k + i) - m = i - (m - k)
      BY <1>1, <2>3
    <3>. QED
      BY <1>3, <1>6, <1>7, <2>1, <2>3, <3>1
  <2>. QED
    BY <2>2, <2>3
<1>10. left = right
  BY <1>5, <1>7, <1>8, <1>9, SameBytes
<1>. QED
  BY <1>10 DEF left, right, u

LEMMA CutWhole ==
  ASSUME NEW s \in Seq(Byte), NEW t \in Seq(Byte), NEW k \in 0 .. Len(t)
  PROVE  Cut(s \o t, Len(s) + k) = Cut(t, k)
<1>. DEFINE u == s \o t
            m == Len(s)
            n == Len(t)
            left == Cut(u, m + k)
            right == Cut(t, k)
<1>1. m \in Nat /\ n \in Nat /\ k \in Nat /\ k <= n
  OBVIOUS
<1>2. u \in Seq(Byte) /\ Len(u) = m + n
  BY ConcatProperties
<1>3. \A i \in 1 .. (m + n) : u[i] = IF i <= m THEN s[i] ELSE t[i - m]
  BY ConcatProperties
<1>4. /\ right \in Seq(Byte) /\ Len(right) = n - k
      /\ \A i \in 1 .. (n - k) : right[i] = t[k + i]
  BY CutOK
<1>. HIDE DEF u
<1>5. /\ left \in Seq(Byte) /\ Len(left) = (m + n) - (m + k)
      /\ \A i \in 1 .. ((m + n) - (m + k)) : left[i] = u[(m + k) + i]
  <2>1. m + k \in 0 .. Len(u)
    BY <1>1, <1>2
  <2>. QED
    BY <1>2, <2>1, CutOK
<1>. HIDE DEF left, right, m, n
<1>6. (m + n) - (m + k) = n - k
  BY <1>1
<1>7. ASSUME NEW i \in 1 .. (n - k) PROVE left[i] = right[i]
  <2>1. /\ (m + k) + i \in 1 .. (m + n) /\ ~ ((m + k) + i <= m)
        /\ ((m + k) + i) - m = k + i
    BY <1>1
  <2>. QED
    BY <1>3, <1>4, <1>5, <1>6, <2>1
<1>8. left = right
  BY <1>4, <1>5, <1>6, <1>7, SameBytes
<1>. QED
  BY <1>8 DEF left, right, u, m

(* drop_len: the chain without its first n blocks and with k less in the    *)
(* block behind them holds what it held, cut at the front.                  *)
LEMMA DroppedOK ==
  ASSUME NEW c \in Seq(Block), Once(c), NEW mem \in Memory,
         NEW n \in 0 .. (Len(c) - 1), NEW k \in 0 .. mem[c[n + 1]].size
  PROVE  LET d == SubSeq(c, n + 1, Len(c))
             x == c[n + 1]
             new == [mem EXCEPT ![x] = Offset(@, k)]
             all == BytesIn(c, mem, Len(c))
             gone == Len(BytesIn(c, mem, n)) + k
         IN  /\ x \in Block /\ new \in Memory
             /\ \A y \in Block \ {x} : new[y] = mem[y]
             /\ gone \in 0 .. Len(all)
             /\ BytesIn(d, new, Len(d)) = Cut(all, gone)
<1>. DEFINE d == SubSeq(c, n + 1, Len(c))
            x == c[n + 1]
            m == Offset(mem[x], k)
            new == [mem EXCEPT ![x] = Offset(@, k)]
            z == Len(c)
            old(i) == BytesIn(c, mem, i)
            gone == Len(old(n)) + k
<1>1. z \in Nat /\ n \in Nat /\ n + 1 \in 1 .. z /\ n \in 0 .. z /\ n <= z
  OBVIOUS
<1>2. x \in Block /\ mem[x] \in Mem /\ k \in 0 .. mem[x].size
  BY <1>1 DEF Memory
<1>3. m \in Mem /\ InUse(m) = Cut(InUse(mem[x]), k)
  BY <1>2, OffsetOK
<1>. HIDE DEF m
<1>4. new \in Memory /\ new[x] = m /\ \A y \in Block \ {x} : new[y] = mem[y]
  BY <1>2, <1>3 DEF Memory, m
<1>5. d \in Seq(Block) /\ Len(d) = z - n /\ \A i \in 1 .. Len(d) : d[i] = c[n + i]
  BY <1>1, OnceSplit
<1>. HIDE DEF d, new
<1>6. /\ \A i \in 1 .. z : old(i) = old(i - 1) \o InUse(mem[c[i]])
      /\ \A i \in 0 .. z : old(i) \in Seq(Byte)
  BY BytesUnfold
<1>7. /\ BytesIn(d, new, 0) = << >>
      /\ \A i \in 1 .. Len(d) :
           BytesIn(d, new, i) = BytesIn(d, new, i - 1) \o InUse(new[d[i]])
  BY <1>4, <1>5, BytesUnfold
<1>8. \A i \in 1 .. z : InUse(mem[c[i]]) \in Seq(Byte)
  <2>1. \A i \in 1 .. z : mem[c[i]] \in Mem
    BY DEF Memory
  <2>. QED
    BY <2>1, InUseOK
<1>. HIDE DEF old, z
<1>9. /\ old(n + 1) = old(n) \o InUse(mem[x]) /\ old(n) \in Seq(Byte)
      /\ InUse(mem[x]) \in Seq(Byte) /\ Len(InUse(mem[x])) = mem[x].size
  <2>1. (n + 1) - 1 = n
    BY <1>1
  <2>. QED
    BY <1>1, <1>2, <1>6, <2>1, InUseOK
<1>10. Len(old(n)) \in Nat /\ k \in 0 .. Len(InUse(mem[x])) /\ gone \in Nat
  BY <1>2, <1>9
<1>. HIDE DEF x, gone
<1>. DEFINE Claim(i) == /\ gone \in 0 .. Len(old(n + i))
                        /\ BytesIn(d, new, i) = Cut(old(n + i), gone)
            T == {i \in Nat : i = 0 \/ Claim(i)}
<1>11. Claim(1)
  <2>1. Len(old(n + 1)) = Len(old(n)) + Len(InUse(mem[x]))
    BY <1>9, ConcatProperties
  <2>2. gone \in 0 .. Len(old(n + 1))
    <3>1. Len(InUse(mem[x])) \in Nat
      BY <1>9
    <3>. QED
      BY <1>10, <2>1, <3>1 DEF gone
  <2>3. Cut(old(n + 1), gone) = Cut(InUse(mem[x]), k)
    <3>1. Cut(old(n) \o InUse(mem[x]), Len(old(n)) + k) = Cut(InUse(mem[x]), k)
      BY <1>9, <1>10, CutWhole
    <3>. QED
      BY <1>9, <3>1 DEF gone
  <2>4. BytesIn(d, new, 1) = InUse(m)
    <3>1. 1 \in 1 .. Len(d) /\ 1 - 1 = 0 /\ d[1] = x
      BY <1>1, <1>5 DEF x
    <3>2. BytesIn(d, new, 1) = << >> \o InUse(m)
      BY <1>4, <1>7, <3>1
    <3>3. InUse(m) \in Seq(Byte)
      BY <1>3, InUseOK
    <3>. QED
      BY <3>2, <3>3, ConcatEmptySeq
  <2>. QED
    BY <1>3, <2>2, <2>3, <2>4
<1>12. ASSUME NEW i \in 1 .. (z - n), i - 1 \in T PROVE i \in T
  <2>1. CASE i = 1
    <3>. HIDE DEF Claim
    <3>. QED
      BY <1>11, <2>1
  <2>2. CASE i # 1
    <3>1. /\ i \in Nat /\ i \in 1 .. Len(d) /\ n + i \in 1 .. z /\ n + i # n + 1
          /\ (n + i) - 1 = n + (i - 1) /\ n + (i - 1) \in 0 .. z /\ n + 1 \in 1 .. z
      BY <1>1, <1>5, <2>2
    <3>2. Claim(i - 1)
      <4>. HIDE DEF Claim
      <4>. QED
        BY <1>12, <2>2, <3>1
    <3>. DEFINE p == old(n + (i - 1))
                q == InUse(mem[c[n + i]])
    <3>3. p \in Seq(Byte) /\ q \in Seq(Byte) /\ old(n + i) = p \o q
      BY <1>6, <1>8, <3>1
    <3>4. InUse(new[d[i]]) = q
      <4>1. c[n + i] \in Block
        BY <3>1 DEF z
      <4>2. c[n + i] # x
        BY <3>1, Places DEF x, z
      <4>. QED
        BY <1>4, <1>5, <3>1, <4>1, <4>2
    <3>. HIDE DEF p, q
    <3>5. gone \in 0 .. Len(p) /\ BytesIn(d, new, i - 1) = Cut(p, gone)
      BY <3>2 DEF p
    <3>6. BytesIn(d, new, i) = Cut(p, gone) \o q
      BY <1>7, <3>1, <3>4, <3>5
    <3>7. Cut(p \o q, gone) = Cut(p, gone) \o q
      BY <3>3, <3>5, CutFront
    <3>8. gone \in 0 .. Len(p \o q)
      <4>1. Len(p \o q) = Len(p) + Len(q) /\ Len(p) \in Nat /\ Len(q) \in Nat
        BY <3>3, ConcatProperties
      <4>. QED
        BY <3>5, <4>1
    <3>9. Claim(i)
      BY <3>3, <3>6, <3>7, <3>8
    <3>. HIDE DEF Claim
    <3>. QED
      BY <3>1, <3>9
  <2>. QED
    BY <2>1, <2>2
<1>. HIDE DEF Claim
<1>13. 0 \in T /\ z - n \in Nat /\ z - n # 0
  BY <1>1
<1>. HIDE DEF T
<1>14. 0 .. (z - n) \subseteq T
  BY <1>12, <1>13, NaturalsUpTo
<1>15. Claim(z - n)
  <2>1. z - n \in T
    BY <1>13, <1>14
  <2>. QED
    BY <1>13, <2>1 DEF T
<1>16. n + (z - n) = z /\ Len(d) = z - n
  BY <1>1, <1>5
<1>17. gone \in 0 .. Len(old(z)) /\ BytesIn(d, new, Len(d)) = Cut(old(z), gone)
  BY <1>15, <1>16 DEF Claim
<1>. QED
  BY <1>2, <1>4, <1>17 DEF d, x, new, old, gone, z

-----------------------------------------------------------------------------
(* The inductive invariant: TypeOK with what is in the arrays, and no more  *)
(* bytes in a buffer than it was given.                                     *)
BufferTypes ==
  /\ blocks \in [Buf -> Seq(Block)] /\ pool \in Seq(Block) /\ heap \subseteq Block
  /\ length \in [Buf -> Nat] /\ entered \in [Buf -> 0 .. MaxBytes]
  /\ memory \in Memory

Counted ==
  \A b \in Buf : length[b] = Len(Contents(b)) /\ length[b] <= entered[b]

BufferInv == BufferTypes /\ OneOwner /\ Counted

LEMMA OwnerOK ==
  OneOwner <=> /\ Once(pool) /\ Range(pool) \subseteq heap
               /\ \A b \in Buf : /\ Once(blocks[b]) /\ Range(blocks[b]) \subseteq heap
                                 /\ Apart(blocks[b], pool)
               /\ \A b, c \in Buf : b # c => Apart(blocks[b], blocks[c])
BY Zenon DEF OneOwner, Once

LEMMA ContentsOK ==
  ASSUME BufferTypes, NEW b \in Buf
  PROVE  blocks[b] \in Seq(Block) /\ Contents(b) \in Seq(Byte)
<1>1. blocks[b] \in Seq(Block) /\ memory \in Memory
  BY DEF BufferTypes
<1>. QED
  BY <1>1, BytesUnfold DEF Contents

(* A buffer whose blocks a step leaves alone holds what it held.            *)
LEMMA ContentsKept ==
  ASSUME BufferTypes, memory' \in Memory, NEW b \in Buf, blocks'[b] = blocks[b],
         \A x \in Range(blocks[b]) : memory'[x] = memory[x]
  PROVE  Contents(b)' = Contents(b)
<1>. DEFINE c == blocks[b]
            n == Len(c)
<1>1. c \in Seq(Block) /\ n \in Nat /\ n <= Len(c) /\ memory \in Memory
  BY DEF BufferTypes
<1>2. \A i \in 1 .. n : memory'[c[i]] = memory[c[i]]
  BY <1>1, Places
<1>. HIDE DEF c, n
<1>3. BytesIn(c, memory', n) = BytesIn(c, memory, n)
  BY <1>1, <1>2, BytesSame
<1>. QED
  BY <1>3 DEF Contents, c, n

LEMMA ContentsEmpty ==
  ASSUME NEW mem \in Memory
  PROVE  BytesIn(<< >>, mem, Len(<< >>)) = << >>
<1>1. << >> \in Seq(Block) /\ Len(<< >>) = 0
  OBVIOUS
<1>. QED
  BY <1>1, BytesUnfold

LEMMA BufferInit ==
  ASSUME Init
  PROVE  BufferInv /\ \A b \in Buf : Contents(b) = << >>
<1>1. /\ blocks = [b \in Buf |-> << >>] /\ length = [b \in Buf |-> 0]
      /\ pool = << >> /\ heap = {} /\ entered = [b \in Buf |-> 0]
  BY DEF Init
<1>2. memory \in Memory
  <2>. DEFINE m == [offset |-> 0, size |-> 0, capacity |-> BlockSize,
                    bytes |-> [i \in 0 .. (BlockSize - 1) |-> Junk]]
  <2>1. BlockSize \in Nat /\ 0 + 0 + BlockSize = BlockSize
    BY BufferAssumption
  <2>2. [i \in 0 .. (BlockSize - 1) |-> Junk] \in [0 .. (BlockSize - 1) -> Byte]
    BY DEF Byte
  <2>3. m \in Mem
    BY <2>1, <2>2 DEF Mem
  <2>4. memory = [x \in Block |-> m]
    BY Zenon DEF Init
  <2>. HIDE DEF m
  <2>. QED
    BY <2>3, <2>4 DEF Memory
<1>3. BufferTypes
  <2>1. << >> \in Seq(Block) /\ 0 \in 0 .. MaxBytes
    BY BufferAssumption
  <2>. QED
    BY <1>1, <1>2, <2>1 DEF BufferTypes
<1>4. OneOwner
  <2>1. \A b \in Buf : blocks[b] = << >>
    BY <1>1
  <2>. QED
    BY <1>1, <2>1, OnceEmpty, OwnerOK DEF Apart
<1>5. \A b \in Buf : Contents(b) = << >>
  BY <1>1, <1>2, ContentsEmpty DEF Contents
<1>6. Counted
  BY <1>1, <1>5 DEF Counted
<1>. QED
  BY <1>3, <1>4, <1>5, <1>6 DEF BufferInv

-----------------------------------------------------------------------------
(* What each operation does to the contents of the buffers.                 *)
Others(b) == UNION {Range(blocks[c]) : c \in Buf \ {b}}

LEMMA StartOK ==
  ASSUME BufferInv, NEW b \in Buf
  PROVE  /\ Start(b) \in Filling(Others(b), memory)
         /\ Start(b).length = length[b] /\ Held(Start(b)) = Contents(b)
<1>. DEFINE s == Start(b)
            X == Others(b)
<1>1. /\ s.chain = blocks[b] /\ s.length = length[b] /\ s.pool = pool
      /\ s.heap = heap /\ s.memory = memory /\ s \in Working
  BY DEF Start, Working, BufferInv, BufferTypes
<1>. HIDE DEF s
<1>2. /\ Once(s.chain) /\ Once(s.pool) /\ Apart(s.chain, s.pool)
      /\ Range(s.chain) \subseteq s.heap /\ Range(s.pool) \subseteq s.heap
  BY <1>1, OwnerOK DEF BufferInv
<1>3. X \subseteq heap
  BY OwnerOK DEF BufferInv, Others
<1>4. Range(s.chain) \cap X = {} /\ Range(s.pool) \cap X = {}
  <2>1. \A c \in Buf \ {b} : /\ Range(blocks[b]) \cap Range(blocks[c]) = {}
                             /\ Range(blocks[c]) \cap Range(pool) = {}
    BY OwnerOK DEF BufferInv, Apart
  <2>. QED
    BY <1>1, <2>1 DEF Others
<1>5. s \in Filling(X, memory)
  BY <1>1, <1>2, <1>3, <1>4 DEF Filling
<1>6. Held(s) = Contents(b)
  BY <1>1 DEF Held, Contents
<1>. QED
  BY <1>1, <1>5, <1>6 DEF s

LEMMA FillStep ==
  ASSUME BufferInv, NEW b \in Buf, NEW k \in 1 .. MaxFill, Fill(b, k)
  PROVE  /\ BufferInv'
         /\ \E j \in 0 .. MaxBytes :
              /\ Contents(b)' = Contents(b) \o Given(b, j)
              /\ entered' = [entered EXCEPT ![b] = @ + j]
         /\ \A c \in Buf \ {b} : Contents(c)' = Contents(c)
<1>. DEFINE s == Filled(b, k)
            X == Others(b)
<1>1. /\ blocks' = [blocks EXCEPT ![b] = s.chain]
      /\ length' = [length EXCEPT ![b] = s.length]
      /\ pool' = s.pool /\ heap' = s.heap /\ memory' = s.memory
      /\ entered' = [entered EXCEPT ![b] = @ + (s.length - length[b])]
      /\ entered[b] + k <= MaxBytes
  BY Zenon DEF Fill
<1>2. /\ blocks \in [Buf -> Seq(Block)] /\ length \in [Buf -> Nat]
      /\ entered \in [Buf -> 0 .. MaxBytes] /\ memory \in Memory
      /\ MaxBytes \in Nat /\ k \in Nat
  BY BufferAssumption DEF BufferInv, BufferTypes
<1>3. entered[b] \in Nat /\ length[b] \in Nat
  BY <1>2
<1>. HIDE DEF s, X
<1>4. /\ s \in Filling(X, memory)
      /\ \E j \in 0 .. k : /\ s.length = Start(b).length + j
                           /\ Held(s) = Held(Start(b)) \o Given(b, j)
  BY <1>2, <1>3, StartOK, FilledOK DEF s, X
<1>5. PICK j \in 0 .. k : /\ s.length = length[b] + j
                          /\ Held(s) = Contents(b) \o Given(b, j)
  BY <1>4, StartOK
<1>6. j \in Nat /\ j \in 0 .. MaxBytes /\ s.length - length[b] = j
  BY <1>1, <1>2, <1>3, <1>5
<1>7. entered' = [entered EXCEPT ![b] = @ + j]
  BY <1>1, <1>6
<1>8. /\ s.chain \in Seq(Block) /\ s.pool \in Seq(Block) /\ s.heap \subseteq Block
      /\ s.memory \in Memory /\ s.length \in Nat
      /\ Once(s.chain) /\ Once(s.pool) /\ Apart(s.chain, s.pool)
      /\ Range(s.chain) \subseteq s.heap /\ Range(s.pool) \subseteq s.heap
      /\ X \subseteq s.heap
      /\ Range(s.chain) \cap X = {} /\ Range(s.pool) \cap X = {}
      /\ \A x \in X : s.memory[x] = memory[x]
  BY <1>4, FillingOK
<1>9. blocks'[b] = s.chain /\ \A c \in Buf \ {b} : blocks'[c] = blocks[c]
  BY <1>1, <1>2
<1>10. \A c \in Buf \ {b} : Range(blocks[c]) \subseteq X
  BY DEF X, Others
<1>11. BufferTypes'
  <2>1. entered[b] + j \in 0 .. MaxBytes
    BY <1>1, <1>2, <1>3, <1>5
  <2>2. entered' \in [Buf -> 0 .. MaxBytes]
    BY <1>2, <1>7, <2>1
  <2>3. blocks' \in [Buf -> Seq(Block)] /\ length' \in [Buf -> Nat]
    BY <1>1, <1>2, <1>8
  <2>. QED
    BY <1>1, <1>8, <2>2, <2>3 DEF BufferTypes
<1>12. ASSUME NEW c \in Buf \ {b} PROVE Contents(c)' = Contents(c)
  <2>1. \A x \in Range(blocks[c]) : memory'[x] = memory[x]
    BY <1>1, <1>8, <1>10
  <2>. QED
    BY <1>1, <1>8, <1>9, <2>1, ContentsKept DEF BufferInv
<1>13. Contents(b)' = Contents(b) \o Given(b, j)
  BY <1>1, <1>5, <1>9 DEF Contents, Held
<1>14. OneOwner'
  <2>1. ASSUME NEW c \in Buf
        PROVE  /\ Once(blocks'[c]) /\ Range(blocks'[c]) \subseteq heap'
               /\ Apart(blocks'[c], pool')
    <3>1. CASE c = b
      BY <1>1, <1>8, <1>9, <3>1
    <3>2. CASE c # b
      <4>1. Once(blocks'[c])
        BY <1>9, <3>2, OwnerOK DEF BufferInv
      <4>2. Range(blocks'[c]) \subseteq X
        BY <1>9, <1>10, <3>2
      <4>3. Range(blocks'[c]) \cap Range(pool') = {}
        BY <1>1, <1>8, <4>2
      <4>. QED
        BY <1>1, <1>8, <4>1, <4>2, <4>3 DEF Apart
    <3>. QED
      BY <3>1, <3>2
  <2>2. ASSUME NEW c \in Buf, NEW d \in Buf, c # d
        PROVE  Range(blocks'[c]) \cap Range(blocks'[d]) = {}
    <3>1. CASE c = b
      <4>1. Range(blocks'[d]) \subseteq X
        BY <1>9, <1>10, <2>2, <3>1
      <4>. QED
        BY <1>8, <1>9, <3>1, <4>1
    <3>2. CASE d = b
      <4>1. Range(blocks'[c]) \subseteq X
        BY <1>9, <1>10, <2>2, <3>2
      <4>. QED
        BY <1>8, <1>9, <3>2, <4>1
    <3>3. CASE c # b /\ d # b
      <4>1. Range(blocks[c]) \cap Range(blocks[d]) = {}
        BY <2>2, OwnerOK DEF BufferInv, Apart
      <4>. QED
        BY <1>9, <3>3, <4>1
    <3>. QED
      BY <3>1, <3>2, <3>3
  <2>3. Once(pool') /\ Range(pool') \subseteq heap'
    BY <1>1, <1>8
  <2>. QED
    BY <2>1, <2>2, <2>3, Zenon DEF OneOwner, Once, Apart
<1>15. Counted'
  <2>1. ASSUME NEW c \in Buf
        PROVE  length'[c] = Len(Contents(c)') /\ length'[c] <= entered'[c]
    <3>1. length[c] = Len(Contents(c)) /\ length[c] <= entered[c]
      BY DEF BufferInv, Counted
    <3>2. CASE c = b
      <4>1. Contents(b) \in Seq(Byte) /\ Given(b, j) \in Seq(Byte) /\ Len(Given(b, j)) = j
        <5>1. Contents(b) \in Seq(Byte)
          BY ContentsOK DEF BufferInv
        <5>2. Given(b, j) \in Seq(Byte)
          BY <1>3, <1>6, GivenOK
        <5>3. Len(Given(b, j)) = j
          BY <1>6 DEF Given
        <5>. QED
          BY <5>1, <5>2, <5>3
      <4>2. Len(Contents(b)') = Len(Contents(b)) + j
        BY <1>13, <4>1, ConcatProperties
      <4>3. length'[b] = length[b] + j /\ entered'[b] = entered[b] + j
        BY <1>1, <1>2, <1>5, <1>7
      <4>4. length[b] + j <= entered[b] + j
        BY <1>3, <1>6, <3>1, <3>2
      <4>. QED
        BY <3>1, <3>2, <4>2, <4>3, <4>4
    <3>3. CASE c # b
      <4>1. length'[c] = length[c] /\ entered'[c] = entered[c]
        BY <1>1, <1>2, <3>3
      <4>. QED
        BY <1>12, <3>1, <3>3, <4>1
    <3>. QED
      BY <3>2, <3>3
  <2>. QED
    BY <2>1 DEF Counted
<1>. QED
  BY <1>6, <1>7, <1>11, <1>12, <1>13, <1>14, <1>15 DEF BufferInv

LEMMA DropStep ==
  ASSUME BufferInv, NEW b \in Buf, NEW k \in 1 .. MaxBytes, Drop(b, k)
  PROVE  /\ BufferInv'
         /\ k <= Len(Contents(b)) /\ Contents(b)' = Cut(Contents(b), k)
         /\ \A c \in Buf \ {b} : Contents(c)' = Contents(c)
<1>. DEFINE c == blocks[b]
            In(i) == BytesIn(c, memory, i)
<1>1. /\ c \in Seq(Block) /\ Once(c) /\ memory \in Memory /\ pool \in Seq(Block)
      /\ blocks \in [Buf -> Seq(Block)] /\ length \in [Buf -> Nat]
      /\ entered \in [Buf -> 0 .. MaxBytes] /\ heap \subseteq Block
  BY OwnerOK DEF BufferInv, BufferTypes
<1>. DEFINE Goes(n) ==
              /\ \A i \in 1 .. n : Skips(b, k, i)
              /\ ~ Skips(b, k, n + 1)
              /\ blocks' = [blocks EXCEPT ![b] = SubSeq(c, n + 1, Len(c))]
              /\ pool' = pool \o SubSeq(c, 1, n)
              /\ memory' = [memory EXCEPT ![c[n + 1]] =
                              Offset(@, k - SizeIn(c, memory, n))]
<1>2. PICK n \in 0 .. (Len(c) - 1) : Goes(n)
  BY <1>1 DEF Drop
<1>3. /\ length' = [length EXCEPT ![b] = @ - k] /\ k <= length[b]
      /\ heap' = heap /\ entered' = entered
  BY DEF Drop
<1>. DEFINE x == c[n + 1]
            r == k - Len(In(n))
            d == SubSeq(c, n + 1, Len(c))
            f == SubSeq(c, 1, n)
<1>4. /\ n \in Nat /\ n \in 0 .. Len(c) /\ n + 1 \in 1 .. Len(c) /\ n + 1 \in 0 .. Len(c)
      /\ (n + 1) - 1 = n /\ k \in Nat /\ k >= 1 /\ (n # 0 => n \in 1 .. n)
  BY <1>1
<1>5. x \in Block /\ memory[x] \in Mem /\ memory[x].size \in Nat
  <2>1. x \in Block
    BY <1>1, <1>4
  <2>2. memory[x] \in Mem
    BY <1>1, <2>1 DEF Memory
  <2>. QED
    BY <2>1, <2>2 DEF Mem
<1>6. /\ In(n) \in Seq(Byte) /\ In(0) = << >>
      /\ Len(In(n + 1)) = Len(In(n)) + memory[x].size
  <2>1. In(n) \in Seq(Byte) /\ In(0) = << >> /\ In(n + 1) = In(n) \o InUse(memory[x])
    BY <1>1, <1>4, BytesUnfold
  <2>2. InUse(memory[x]) \in Seq(Byte) /\ Len(InUse(memory[x])) = memory[x].size
    BY <1>5, InUseOK
  <2>. HIDE DEF In, x
  <2>3. Len(In(n) \o InUse(memory[x])) = Len(In(n)) + Len(InUse(memory[x]))
    BY <2>1, <2>2, ConcatProperties
  <2>. QED
    BY <2>1, <2>2, <2>3
<1>7. SizeIn(c, memory, n) = Len(In(n)) /\ SizeIn(c, memory, n + 1) = Len(In(n + 1))
  BY <1>1, <1>4, SizeUnfold
<1>. HIDE DEF In
<1>8. Len(In(n)) \in Nat /\ Len(In(n)) <= k
  <2>1. Len(In(n)) \in Nat
    BY <1>6
  <2>2. CASE n = 0
    <3>1. Len(In(n)) = 0
      BY <1>6, <2>2
    <3>. QED
      BY <1>4, <3>1
  <2>3. CASE n # 0
    <3>1. Skips(b, k, n)
      BY <1>2, <1>4, <2>3
    <3>. QED
      BY <1>4, <1>7, <2>1, <3>1 DEF Skips
  <2>. QED
    BY <2>1, <2>2, <2>3
<1>9. r \in 0 .. memory[x].size /\ Len(In(n)) + r = k
  <2>1. ~ (Len(In(n)) + memory[x].size < k)
    BY <1>2, <1>6, <1>7 DEF Skips
  <2>. DEFINE z == Len(In(n))
              y == memory[x].size
  <2>2. ~ (z + y < k) /\ z \in Nat /\ z <= k /\ y \in Nat /\ k \in Nat
    BY <1>4, <1>5, <1>8, <2>1
  <2>3. r = k - z
    OBVIOUS
  <2>. HIDE DEF z, y, r
  <2>4. r \in 0 .. y /\ z + r = k
    BY <2>2, <2>3
  <2>. QED
    BY <2>4 DEF z, y
<1>10. /\ blocks' = [blocks EXCEPT ![b] = d] /\ pool' = pool \o f
       /\ memory' = [memory EXCEPT ![x] = Offset(@, r)]
  BY <1>2, <1>7
<1>11. /\ x \in Block /\ memory' \in Memory
       /\ \A y \in Block \ {x} : memory'[y] = memory[y]
       /\ k \in 0 .. Len(Contents(b))
       /\ BytesIn(d, memory', Len(d)) = Cut(Contents(b), k)
  <2>. DEFINE new == [memory EXCEPT ![x] = Offset(@, r)]
              gone == Len(In(n)) + r
  <2>1. r \in 0 .. memory[c[n + 1]].size
    BY <1>9
  <2>. HIDE DEF r
  <2>2. /\ x \in Block /\ new \in Memory
        /\ \A y \in Block \ {x} : new[y] = memory[y]
        /\ gone \in 0 .. Len(In(Len(c)))
        /\ BytesIn(d, new, Len(d)) = Cut(In(Len(c)), gone)
    BY <1>1, <2>1, DroppedOK DEF In
  <2>. HIDE DEF new, gone, x, d
  <2>3. memory' = new /\ gone = k
    BY <1>9, <1>10 DEF new, gone
  <2>4. In(Len(c)) = Contents(b)
    BY DEF In, Contents
  <2>. QED
    BY <2>2, <2>3, <2>4
<1>12. /\ d \in Seq(Block) /\ f \in Seq(Block) /\ Once(d) /\ Once(f) /\ Apart(f, d)
       /\ Range(d) \subseteq Range(c) /\ Range(f) \subseteq Range(c)
  BY <1>1, <1>4, OnceSplit
<1>13. x \in Range(c)
  BY <1>1, <1>4, Places
<1>. HIDE DEF x, d, f, r
<1>14. blocks'[b] = d /\ \A e \in Buf \ {b} : blocks'[e] = blocks[e]
  BY <1>1, <1>10
<1>15. Range(c) \subseteq heap /\ Range(c) \cap Range(pool) = {}
  BY OwnerOK DEF BufferInv, Apart
<1>16. \A e \in Buf \ {b} : Range(blocks[e]) \cap Range(c) = {}
  BY OwnerOK DEF BufferInv, Apart
<1>. HIDE DEF c
<1>17. pool' \in Seq(Block) /\ Range(pool') = Range(pool) \cup Range(f) /\ Once(pool')
  <2>1. Once(pool)
    BY OwnerOK DEF BufferInv
  <2>2. Apart(pool, f)
    BY <1>12, <1>15 DEF Apart
  <2>. QED
    BY <1>1, <1>10, <1>12, <2>1, <2>2, OnceConcat
<1>18. Contents(b)' = Cut(Contents(b), k) /\ k <= Len(Contents(b))
  BY <1>11, <1>14 DEF Contents
<1>19. ASSUME NEW e \in Buf \ {b} PROVE Contents(e)' = Contents(e)
  <2>1. Range(blocks[e]) \subseteq Block
    BY <1>1, Places
  <2>2. \A y \in Range(blocks[e]) : memory'[y] = memory[y]
    BY <1>11, <1>13, <1>16, <2>1
  <2>. QED
    BY <1>11, <1>14, <2>2, ContentsKept DEF BufferInv
<1>20. BufferTypes'
  <2>1. length[b] - k \in Nat
    BY <1>1, <1>3, <1>4
  <2>2. length' \in [Buf -> Nat]
    BY <1>1, <1>3, <2>1
  <2>3. blocks' \in [Buf -> Seq(Block)]
    BY <1>1, <1>10, <1>12
  <2>. QED
    BY <1>1, <1>3, <1>11, <1>17, <2>2, <2>3 DEF BufferTypes
<1>21. OneOwner'
  <2>1. ASSUME NEW e \in Buf
        PROVE  /\ Once(blocks'[e]) /\ Range(blocks'[e]) \subseteq heap'
               /\ Range(blocks'[e]) \cap Range(pool') = {}
    <3>1. CASE e = b
      <4>1. Range(d) \cap Range(pool') = {}
        BY <1>12, <1>15, <1>17 DEF Apart
      <4>. QED
        BY <1>3, <1>12, <1>14, <1>15, <3>1, <4>1
    <3>2. CASE e # b
      <4>1. /\ Once(blocks[e]) /\ Range(blocks[e]) \subseteq heap
            /\ Range(blocks[e]) \cap Range(pool) = {}
        BY OwnerOK DEF BufferInv, Apart
      <4>2. Range(blocks[e]) \cap Range(f) = {}
        BY <1>12, <1>16, <3>2
      <4>. QED
        BY <1>3, <1>14, <1>17, <3>2, <4>1, <4>2
    <3>. QED
      BY <3>1, <3>2
  <2>2. ASSUME NEW e \in Buf, NEW g \in Buf, e # g
        PROVE  Range(blocks'[e]) \cap Range(blocks'[g]) = {}
    <3>1. Range(blocks[e]) \cap Range(blocks[g]) = {}
      BY <2>2, OwnerOK DEF BufferInv, Apart
    <3>2. \A a \in Buf : Range(blocks'[a]) \subseteq Range(blocks[a])
      BY <1>12, <1>14 DEF c
    <3>. QED
      BY <3>1, <3>2
  <2>3. Range(pool') \subseteq heap'
    BY <1>3, <1>12, <1>15, <1>17, OwnerOK DEF BufferInv
  <2>. QED
    BY <1>17, <2>1, <2>2, <2>3, Zenon DEF OneOwner, Once, Apart
<1>22. Counted'
  <2>1. ASSUME NEW e \in Buf
        PROVE  length'[e] = Len(Contents(e)') /\ length'[e] <= entered'[e]
    <3>1. /\ length[e] = Len(Contents(e)) /\ length[e] <= entered[e]
          /\ length[e] \in Nat /\ entered[e] \in Nat
      BY <1>1 DEF BufferInv, Counted
    <3>2. CASE e = b
      <4>1. Contents(b) \in Seq(Byte)
        BY ContentsOK DEF BufferInv
      <4>2. Len(Contents(b)') = Len(Contents(b)) - k
        BY <1>11, <1>18, <4>1, CutOK
      <4>3. length'[b] = length[b] - k
        BY <1>1, <1>3
      <4>4. length[b] - k <= entered[b]
        BY <1>4, <3>1, <3>2
      <4>. QED
        BY <1>3, <3>1, <3>2, <4>2, <4>3, <4>4
    <3>3. CASE e # b
      <4>1. length'[e] = length[e]
        BY <1>1, <1>3, <3>3
      <4>. QED
        BY <1>3, <1>19, <3>1, <3>3, <4>1
    <3>. QED
      BY <3>2, <3>3
  <2>. QED
    BY <2>1 DEF Counted
<1>. QED
  BY <1>18, <1>19, <1>20, <1>21, <1>22 DEF BufferInv

LEMMA DestroyStep ==
  ASSUME BufferInv, NEW b \in Buf, Destroy(b)
  PROVE  /\ BufferInv'
         /\ Contents(b)' = << >>
         /\ \A c \in Buf \ {b} : Contents(c)' = Contents(c)
<1>1. /\ blocks' = [blocks EXCEPT ![b] = << >>] /\ pool' = pool \o blocks[b]
      /\ length' = [length EXCEPT ![b] = 0]
      /\ heap' = heap /\ memory' = memory /\ entered' = entered
  BY DEF Destroy, LeftBy
<1>2. /\ memory \in Memory /\ pool \in Seq(Block) /\ heap \subseteq Block
      /\ blocks \in [Buf -> Seq(Block)] /\ length \in [Buf -> Nat]
      /\ entered \in [Buf -> 0 .. MaxBytes]
  BY DEF BufferInv, BufferTypes
<1>3. blocks'[b] = << >> /\ \A c \in Buf \ {b} : blocks'[c] = blocks[c]
  BY <1>1, <1>2
<1>4. Contents(b)' = << >>
  BY <1>1, <1>2, <1>3, ContentsEmpty DEF Contents
<1>5. ASSUME NEW c \in Buf \ {b} PROVE Contents(c)' = Contents(c)
  BY <1>1, <1>2, <1>3, ContentsKept DEF BufferInv
<1>6. /\ pool' \in Seq(Block) /\ Range(pool') = Range(pool) \cup Range(blocks[b])
      /\ Once(pool')
  <2>1. Once(pool) /\ Once(blocks[b]) /\ Apart(pool, blocks[b])
    BY OwnerOK DEF BufferInv, Apart
  <2>. QED
    BY <1>1, <1>2, <2>1, OnceConcat
<1>7. BufferTypes'
  <2>1. << >> \in Seq(Block)
    OBVIOUS
  <2>2. blocks' \in [Buf -> Seq(Block)] /\ length' \in [Buf -> Nat]
    BY <1>1, <1>2, <2>1
  <2>. QED
    BY <1>1, <1>2, <1>6, <2>2 DEF BufferTypes
<1>8. OneOwner'
  <2>1. ASSUME NEW c \in Buf
        PROVE  /\ Once(blocks'[c]) /\ Range(blocks'[c]) \subseteq heap'
               /\ Range(blocks'[c]) \cap Range(pool') = {}
    <3>1. CASE c = b
      BY <1>3, <3>1, OnceEmpty
    <3>2. CASE c # b
      <4>1. /\ Once(blocks[c]) /\ Range(blocks[c]) \subseteq heap
            /\ Range(blocks[c]) \cap Range(pool) = {}
            /\ Range(blocks[c]) \cap Range(blocks[b]) = {}
        BY <3>2, OwnerOK DEF BufferInv, Apart
      <4>. QED
        BY <1>1, <1>3, <1>6, <3>2, <4>1
    <3>. QED
      BY <3>1, <3>2
  <2>2. ASSUME NEW c \in Buf, NEW d \in Buf, c # d
        PROVE  Range(blocks'[c]) \cap Range(blocks'[d]) = {}
    <3>1. Range(blocks[c]) \cap Range(blocks[d]) = {}
      BY <2>2, OwnerOK DEF BufferInv, Apart
    <3>2. \A e \in Buf : Range(blocks'[e]) \subseteq Range(blocks[e])
      BY <1>3, OnceEmpty
    <3>. QED
      BY <3>1, <3>2
  <2>3. Range(pool') \subseteq heap'
    BY <1>1, <1>6, OwnerOK DEF BufferInv
  <2>. QED
    BY <1>6, <2>1, <2>2, <2>3, Zenon DEF OneOwner, Once, Apart
<1>9. Counted'
  <2>1. ASSUME NEW c \in Buf
        PROVE  length'[c] = Len(Contents(c)') /\ length'[c] <= entered'[c]
    <3>1. /\ length[c] = Len(Contents(c)) /\ length[c] <= entered[c] /\ entered[c] \in Nat
      BY <1>2 DEF BufferInv, Counted
    <3>2. CASE c = b
      BY <1>1, <1>2, <1>4, <3>1, <3>2
    <3>3. CASE c # b
      BY <1>1, <1>2, <1>5, <3>1, <3>3
    <3>. QED
      BY <3>2, <3>3
  <2>. QED
    BY <2>1 DEF Counted
<1>. QED
  BY <1>4, <1>5, <1>7, <1>8, <1>9 DEF BufferInv

LEMMA ClearStep ==
  ASSUME BufferInv, Clear
  PROVE  BufferInv' /\ \A b \in Buf : Contents(b)' = Contents(b)
<1>1. /\ \A b \in Buf : blocks[b] = << >>
      /\ heap' \subseteq heap /\ pool' = << >> /\ blocks' = blocks
      /\ length' = length /\ memory' = memory /\ entered' = entered
  BY DEF Clear
<1>2. /\ memory \in Memory /\ heap \subseteq Block
      /\ blocks \in [Buf -> Seq(Block)] /\ length \in [Buf -> Nat]
      /\ entered \in [Buf -> 0 .. MaxBytes]
  BY DEF BufferInv, BufferTypes
<1>3. \A b \in Buf : Contents(b)' = Contents(b)
  BY <1>1, Zenon DEF Contents
<1>4. BufferTypes'
  <2>1. << >> \in Seq(Block)
    OBVIOUS
  <2>. QED
    BY <1>1, <1>2, <2>1 DEF BufferTypes
<1>5. OneOwner'
  <2>1. /\ Once(pool') /\ Range(pool') = {}
        /\ \A b \in Buf : Once(blocks'[b]) /\ Range(blocks'[b]) = {}
    BY <1>1, OnceEmpty
  <2>2. /\ \A b \in Buf : /\ Range(blocks'[b]) \subseteq heap'
                          /\ Range(blocks'[b]) \cap Range(pool') = {}
        /\ \A b, c \in Buf : Range(blocks'[b]) \cap Range(blocks'[c]) = {}
        /\ Range(pool') \subseteq heap'
    BY <2>1
  <2>. QED
    BY <2>1, <2>2, Zenon DEF OneOwner, Once, Apart
<1>6. Counted'
  BY <1>1, <1>3 DEF BufferInv, Counted
<1>. QED
  BY <1>3, <1>4, <1>5, <1>6 DEF BufferInv

-----------------------------------------------------------------------------
(* The theorems.                                                            *)
LEMMA BufferStutter ==
  ASSUME BufferInv, UNCHANGED vars
  PROVE  BufferInv' /\ \A b \in Buf : Contents(b)' = Contents(b)
BY Zenon DEF vars, BufferInv, BufferTypes, OneOwner, Apart, Counted, Contents

LEMMA BufferNext ==
  ASSUME BufferInv, [Next]_vars
  PROVE  BufferInv'
<1>1. ASSUME NEW b \in Buf, Destroy(b) PROVE BufferInv'
  BY <1>1, DestroyStep
<1>2. ASSUME NEW b \in Buf, NEW k \in 1 .. MaxFill, Fill(b, k) PROVE BufferInv'
  BY <1>2, FillStep
<1>3. ASSUME NEW b \in Buf, NEW k \in 1 .. MaxBytes, Drop(b, k) PROVE BufferInv'
  BY <1>3, DropStep
<1>4. CASE Clear
  BY <1>4, ClearStep
<1>5. CASE UNCHANGED vars
  BY <1>5, BufferStutter
<1>. QED
  BY <1>1, <1>2, <1>3, <1>4, <1>5 DEF Next

LEMMA BufferInvariant == Spec => []BufferInv
BY BufferInit, BufferNext, PTL DEF Spec

LEMMA BufferInvTypeOK == ASSUME BufferInv PROVE TypeOK
<1>1. /\ blocks \in [Buf -> Seq(Block)] /\ pool \in Seq(Block) /\ heap \subseteq Block
      /\ length \in [Buf -> Nat] /\ entered \in [Buf -> 0 .. MaxBytes] /\ memory \in Memory
      /\ OneOwner /\ MaxBytes \in Nat
      /\ \A b \in Buf : length[b] = Len(Contents(b)) /\ length[b] <= entered[b]
  BY BufferAssumption DEF BufferInv, BufferTypes, Counted
<1>2. length \in [Buf -> 0 .. MaxBytes]
  <2>1. ASSUME NEW b \in Buf PROVE length[b] \in 0 .. MaxBytes
    BY <1>1
  <2>. QED
    BY <1>1, <2>1
<1>3. ASSUME NEW x \in Block
      PROVE  LET m == memory[x]
             IN  /\ {m.offset, m.size, m.capacity} \subseteq 0 .. BlockSize
                 /\ m.offset + m.size + m.capacity = BlockSize
  <2>1. memory[x] \in Mem
    BY <1>1 DEF Memory
  <2>. DEFINE m == memory[x]
  <2>2. /\ m.offset \in Nat /\ m.size \in Nat /\ m.capacity \in Nat
        /\ m.offset + m.size + m.capacity = BlockSize
    BY <2>1 DEF Mem
  <2>. HIDE DEF m
  <2>3. BlockSize \in Nat
    BY BufferAssumption
  <2>4. m.offset \in 0 .. BlockSize /\ m.size \in 0 .. BlockSize /\ m.capacity \in 0 .. BlockSize
    BY <2>2, <2>3
  <2>. QED
    BY <2>2, <2>4 DEF m
<1>. QED
  BY <1>1, <1>2, <1>3 DEF TypeOK

(* Whatever the connections do with their buffers, a block is in one chain  *)
(* or in the pool, once, and allocated; the parts of a block add up to its  *)
(* size; and m_length is the number of bytes in the chain.                  *)
THEOREM TypeCorrect == Spec => []TypeOK
BY BufferInvariant, BufferInvTypeOK, PTL

LEMMA QueueInit ==
  ASSUME Init
  PROVE  Queue!Init
<1>1. entered = [b \in Buf |-> 0]
  BY DEF Init
<1>2. [b \in Buf |-> Contents(b)] = [b \in Buf |-> << >>]
  BY BufferInit
<1>. QED
  BY <1>1, <1>2 DEF Queue!Init

LEMMA QueueNext ==
  ASSUME BufferInv, [Next]_vars
  PROVE  [Queue!Next]_(Queue!vars)
<1>. DEFINE queue == [b \in Buf |-> Contents(b)]
<1>0. /\ entered \in [Buf -> 0 .. MaxBytes]
      /\ \A b \in Buf : entered[b] \in Nat /\ Contents(b) \in Seq(Byte)
  <2>1. entered \in [Buf -> 0 .. MaxBytes]
    BY DEF BufferInv, BufferTypes
  <2>2. \A b \in Buf : Contents(b) \in Seq(Byte)
    BY ContentsOK DEF BufferInv
  <2>. QED
    BY <2>1, <2>2
<1>1. ASSUME NEW b \in Buf, Destroy(b) PROVE Queue!Next
  <2>1. entered' = entered
    BY <1>1 DEF Destroy
  <2>2. queue' = [queue EXCEPT ![b] = << >>]
    BY <1>1, DestroyStep
  <2>. QED
    BY <2>1, <2>2 DEF Queue!Next, Queue!Renew
<1>2. ASSUME NEW b \in Buf, NEW k \in 1 .. MaxFill, Fill(b, k)
      PROVE  [Queue!Next]_(Queue!vars)
  <2>1. PICK j \in 0 .. MaxBytes :
          /\ Contents(b)' = Contents(b) \o Given(b, j)
          /\ entered' = [entered EXCEPT ![b] = @ + j]
    BY <1>2, FillStep
  <2>2. \A c \in Buf \ {b} : Contents(c)' = Contents(c)
    BY <1>2, FillStep
  <2>3. CASE j = 0
    <3>1. Contents(b)' = Contents(b)
      BY <1>0, <2>1, <2>3, GivenOK, ConcatEmptySeq
    <3>2. queue' = queue
      BY <2>2, <3>1
    <3>3. entered' = entered
      BY <1>0, <2>1, <2>3
    <3>. QED
      BY <3>2, <3>3 DEF Queue!vars
  <2>4. CASE j # 0
    <3>1. j \in 1 .. MaxBytes
      BY <2>4, BufferAssumption
    <3>2. Queue!Bytes(b, j) = Given(b, j)
      BY Zenon DEF Queue!Bytes, Given
    <3>3. queue' = [queue EXCEPT ![b] = @ \o Given(b, j)]
      BY <2>1, <2>2
    <3>. QED
      BY <2>1, <3>1, <3>2, <3>3 DEF Queue!Next, Queue!Fill
  <2>. QED
    BY <2>3, <2>4
<1>3. ASSUME NEW b \in Buf, NEW k \in 1 .. MaxBytes, Drop(b, k) PROVE Queue!Next
  <2>1. entered' = entered
    BY <1>3 DEF Drop
  <2>2. /\ k <= Len(Contents(b)) /\ Contents(b)' = Cut(Contents(b), k)
        /\ \A c \in Buf \ {b} : Contents(c)' = Contents(c)
    BY <1>3, DropStep
  <2>3. queue' = [queue EXCEPT ![b] = SubSeq(@, k + 1, Len(@))]
    BY <2>2 DEF Cut
  <2>4. k <= Len(queue[b])
    BY <2>2
  <2>. QED
    BY <2>1, <2>3, <2>4 DEF Queue!Next, Queue!Drop
<1>4. CASE Clear
  <2>1. entered' = entered
    BY <1>4 DEF Clear
  <2>2. queue' = queue
    BY <1>4, ClearStep
  <2>. QED
    BY <2>1, <2>2 DEF Queue!vars
<1>5. CASE UNCHANGED vars
  <2>1. entered' = entered
    BY <1>5 DEF vars
  <2>2. queue' = queue
    BY <1>5, BufferStutter
  <2>. QED
    BY <2>1, <2>2 DEF Queue!vars
<1>. QED
  BY <1>1, <1>2, <1>3, <1>4, <1>5 DEF Next

(* Each buffer is a queue of bytes for its connection: what copy_len reads  *)
(* is what was given and not dropped, each byte once and in order, whatever *)
(* the blocks held before, and also after a fill that ran out of memory.    *)
THEOREM ImplementsByteQueue == Spec => ImplementsQueue
<1>1. Init => Queue!Init
  BY QueueInit
<1>2. BufferInv /\ [Next]_vars => [Queue!Next]_(Queue!vars)
  BY QueueNext
<1>. QED
  BY <1>1, <1>2, BufferInvariant, PTL DEF Spec, ImplementsQueue, Queue!Spec

=============================================================================
