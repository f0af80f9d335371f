-------------------------- MODULE MusicPlayerProofs --------------------------
(***************************************************************************)
(* Theorems of MusicPlayer, for every set of devices and of cards: its      *)
(* type invariant, and that a good device is kept.                          *)
(***************************************************************************)
EXTENDS MusicPlayer, FiniteSetTheorems, SequenceTheorems, WellFoundedInduction, TLAPS

-----------------------------------------------------------------------------
(* Sequences: the smallest and largest position with a property, a node     *)
(* taken out of a list, and the messages kept when the keys are cleared.    *)

LEMMA MinIsMember ==
  ASSUME NEW S \in SUBSET Nat, S # {}
  PROVE  Min(S) \in S /\ \A y \in S : Min(S) <= y
<1> DEFINE Less == {p \in Nat \X Nat : p[1] < p[2]}
<1>1. IsWellFoundedOn(Less, Nat)
  BY NatLessThanWellFounded DEF OpToRel
<1>2. PICK x \in S : \A y \in S : <<y, x>> \notin Less
  BY <1>1, WFMin
<1>3. ASSUME NEW y \in S PROVE x <= y
  <2>1. x \in Nat /\ y \in Nat
    OBVIOUS
  <2>2. ~ (y < x)
    BY <1>2, <2>1
  <2> QED BY <2>1, <2>2
<1> QED BY <1>3 DEF Min

LEMMA MaxIsMember ==
  ASSUME NEW n \in Nat, NEW S \in SUBSET (1..n), S # {}
  PROVE  Max(S) \in S
<1> DEFINE T == {n - i : i \in S}
<1>1. T \in SUBSET Nat /\ T # {}
  <2>1. \A i \in S : n - i \in Nat
    OBVIOUS
  <2> QED BY <2>1
<1>2. Min(T) \in T /\ \A y \in T : Min(T) <= y
  BY <1>1, MinIsMember
<1>3. PICK x \in S : Min(T) = n - x
  BY <1>2
<1>4. ASSUME NEW i \in S PROVE x >= i
  <2>1. n - i \in T
    OBVIOUS
  <2>2. n - x <= n - i
    BY <1>2, <1>3, <2>1
  <2> QED BY <2>2
<1> QED BY <1>4 DEF Max

Distinct(s) == \A i, j \in DOMAIN s : i # j => s[i] # s[j]

LEMMA ToSetOf ==
  ASSUME NEW S, NEW s \in Seq(S)
  PROVE  /\ ToSet(s) \subseteq S
         /\ \A x : x \in ToSet(s) <=> \E i \in 1..Len(s) : s[i] = x
<1>1. DOMAIN s = 1..Len(s) /\ \A i \in 1..Len(s) : s[i] \in S
  OBVIOUS
<1>2. ToSet(s) = {s[i] : i \in 1..Len(s)}
  BY <1>1 DEF ToSet
<1> QED BY <1>1, <1>2

LEMMA UnlistElements ==
  ASSUME NEW S, NEW s \in Seq(S), NEW d, NEW m \in 1..Len(s), s[m] = d
  PROVE  LET r == SubSeq(s, 1, m - 1) \o SubSeq(s, m + 1, Len(s))
         IN  /\ r \in Seq(S) /\ Len(r) = Len(s) - 1
             /\ \A i \in 1..Len(r) : r[i] = IF i < m THEN s[i] ELSE s[i + 1]
<1> DEFINE a == SubSeq(s, 1, m - 1)  b == SubSeq(s, m + 1, Len(s))  r == a \o b
<1>0. Len(s) \in Nat /\ m \in Nat /\ 1 <= m /\ m <= Len(s) /\ \A i \in 1..Len(s) : s[i] \in S
  OBVIOUS
<1>1. a \in Seq(S) /\ Len(a) = m - 1 /\ \A i \in 1..(m - 1) : a[i] = s[i]
  <2>1. \A i \in 1..(m - 1) : s[i] \in S
    BY <1>0
  <2>2. /\ a \in Seq(S)
        /\ Len(a) = IF 1 <= m - 1 THEN (m - 1) - 1 + 1 ELSE 0
        /\ \A i \in 1..((m - 1) - 1 + 1) : a[i] = s[1 + i - 1]
    <3>1. 1 \in Int /\ m - 1 \in Int
      BY <1>0
    <3> QED BY <2>1, <3>1, SubSeqProperties
  <2>3. \A i \in 1..(m - 1) : i \in 1..((m - 1) - 1 + 1) /\ 1 + i - 1 = i
    BY <1>0
  <2> QED BY <1>0, <2>2, <2>3
<1>2. b \in Seq(S) /\ Len(b) = Len(s) - m /\ \A i \in 1..(Len(s) - m) : b[i] = s[m + i]
  <2>1. \A i \in (m + 1)..Len(s) : s[i] \in S
    BY <1>0
  <2>2. /\ b \in Seq(S)
        /\ Len(b) = IF m + 1 <= Len(s) THEN Len(s) - (m + 1) + 1 ELSE 0
        /\ \A i \in 1..(Len(s) - (m + 1) + 1) : b[i] = s[(m + 1) + i - 1]
    <3>1. m + 1 \in Int /\ Len(s) \in Int
      BY <1>0
    <3> QED BY <2>1, <3>1, SubSeqProperties
  <2>3. \A i \in 1..(Len(s) - m) : i \in 1..(Len(s) - (m + 1) + 1) /\ (m + 1) + i - 1 = m + i
    BY <1>0
  <2> QED BY <1>0, <2>2, <2>3
<1> HIDE DEF a, b
<1>3. /\ r \in Seq(S) /\ Len(r) = Len(a) + Len(b)
      /\ \A i \in 1..(Len(a) + Len(b)) : r[i] = IF i <= Len(a) THEN a[i] ELSE b[i - Len(a)]
  BY <1>1, <1>2, ConcatProperties
<1> HIDE DEF r
<1>4. Len(r) = Len(s) - 1
  BY <1>0, <1>1, <1>2, <1>3
<1>5. ASSUME NEW i \in 1..Len(r) PROVE r[i] = IF i < m THEN s[i] ELSE s[i + 1]
  <2>1. CASE i < m
    BY <1>0, <1>1, <1>2, <1>3, <1>4, <2>1
  <2>2. CASE ~ (i < m)
    <3>1. i - (m - 1) \in 1..(Len(s) - m) /\ m + (i - (m - 1)) = i + 1
      BY <1>0, <1>4, <2>2
    <3>2. r[i] = b[i - (m - 1)]
      BY <1>0, <1>1, <1>2, <1>3, <1>4, <2>2
    <3> QED BY <1>2, <2>2, <3>1, <3>2
  <2> QED BY <2>1, <2>2
<1>6. r \in Seq(S)
  BY <1>3
<1> QED BY <1>4, <1>5, <1>6 DEF a, b, r

LEMMA UnlistType ==
  ASSUME NEW S, NEW s \in Seq(S), NEW d, Distinct(s)
  PROVE  /\ Unlist(s, d) \in Seq(S)
         /\ Distinct(Unlist(s, d))
         /\ ToSet(Unlist(s, d)) = ToSet(s) \ {d}
<1> DEFINE I == {i \in 1..Len(s) : s[i] = d}
           m == Min(I)
           r == SubSeq(s, 1, m - 1) \o SubSeq(s, m + 1, Len(s))
<1>0. Unlist(s, d) = IF I # {} THEN r ELSE s
  BY DEF Unlist, RemoveFirst, RemoveAt, SelectInSeq
<1>1. CASE I = {}
  <2>1. d \notin ToSet(s)
    BY <1>1, ToSetOf
  <2> QED BY <1>0, <1>1, <2>1
<1>2. CASE I # {}
  <2>1. m \in 1..Len(s) /\ s[m] = d
    <3>1. I \in SUBSET Nat
      OBVIOUS
    <3>2. m \in I
      BY <1>2, <3>1, MinIsMember
    <3> QED BY <3>2
  <2> HIDE DEF m
  <2>2. /\ r \in Seq(S) /\ Len(r) = Len(s) - 1
        /\ \A i \in 1..Len(r) : r[i] = IF i < m THEN s[i] ELSE s[i + 1]
    BY <2>1, UnlistElements
  <2> HIDE DEF r
  <2>3. DOMAIN s = 1..Len(s) /\ DOMAIN r = 1..Len(r) /\ Len(s) \in Nat
    BY <2>2
  <2>4. \A i, j \in 1..Len(s) : i # j => s[i] # s[j]
    BY <2>3 DEF Distinct
  <2>5. ASSUME NEW i \in 1..Len(r), NEW j \in 1..Len(r), i # j PROVE r[i] # r[j]
    BY <2>1, <2>2, <2>3, <2>4, <2>5
  <2>6. ASSUME NEW x PROVE x \in ToSet(r) <=> x \in ToSet(s) /\ x # d
    <3>1. ASSUME NEW i \in 1..Len(r) PROVE r[i] \in ToSet(s) /\ r[i] # d
      <4>1. PICK j \in 1..Len(s) : j # m /\ r[i] = s[j]
        BY <2>1, <2>2, <2>3
      <4>2. s[j] # d
        BY <2>1, <2>4, <4>1
      <4> QED BY <4>1, <4>2, ToSetOf
    <3>2. ASSUME NEW j \in 1..Len(s), s[j] # d PROVE s[j] \in ToSet(r)
      <4>1. j # m
        BY <2>1, <3>2
      <4>2. PICK i \in 1..Len(r) : r[i] = s[j]
        <5>1. CASE j < m
          BY <2>1, <2>2, <2>3, <5>1
        <5>2. CASE j > m
          <6>1. j - 1 \in 1..Len(r) /\ ~ (j - 1 < m) /\ (j - 1) + 1 = j
            BY <2>1, <2>2, <2>3, <5>2
          <6> QED BY <2>2, <6>1
        <5> QED BY <2>1, <4>1, <5>1, <5>2
      <4> QED BY <2>2, <4>2, ToSetOf
    <3> QED BY <2>2, <3>1, <3>2, ToSetOf
  <2>7. Unlist(s, d) = r
    BY <1>0, <1>2
  <2>8. Distinct(r)
    BY <2>3, <2>5 DEF Distinct
  <2>9. ToSet(r) = ToSet(s) \ {d}
    BY <2>6
  <2> QED BY <2>2, <2>7, <2>8, <2>9
<1> QED BY <1>1, <1>2

LEMMA AppendType ==
  ASSUME NEW S, NEW s \in Seq(S), NEW d \in S
  PROVE  /\ Append(s, d) \in Seq(S) /\ Len(Append(s, d)) = Len(s) + 1
         /\ ToSet(Append(s, d)) = ToSet(s) \union {d}
         /\ Distinct(s) /\ d \notin ToSet(s) => Distinct(Append(s, d))
<1> DEFINE r == Append(s, d)
<1>1. r \in Seq(S) /\ Len(r) = Len(s) + 1 /\ Len(s) \in Nat
      /\ \A i \in 1..Len(r) : r[i] = IF i <= Len(s) THEN s[i] ELSE d
  OBVIOUS
<1> HIDE DEF r
<1>2. ASSUME NEW x PROVE x \in ToSet(r) <=> x \in ToSet(s) \/ x = d
  <2>1. x \in ToSet(s) => x \in ToSet(r)
    <3>1. \A i \in 1..Len(s) : i \in 1..Len(r) /\ r[i] = s[i]
      BY <1>1
    <3> QED BY <1>1, <3>1, ToSetOf
  <2>2. d \in ToSet(r)
    <3>1. Len(r) \in 1..Len(r) /\ r[Len(r)] = d
      BY <1>1
    <3> QED BY <1>1, <3>1, ToSetOf
  <2>3. ASSUME NEW i \in 1..Len(r) PROVE r[i] \in ToSet(s) \/ r[i] = d
    <3>1. i <= Len(s) => i \in 1..Len(s) /\ r[i] = s[i]
      BY <1>1
    <3> QED BY <1>1, <3>1, ToSetOf
  <2> QED BY <1>1, <2>1, <2>2, <2>3, ToSetOf
<1>3. ASSUME Distinct(s), d \notin ToSet(s) PROVE Distinct(r)
  <2>1. \A i \in 1..Len(s) : s[i] # d
    BY <1>3, ToSetOf
  <2>2. DOMAIN s = 1..Len(s) /\ DOMAIN r = 1..Len(r)
    BY <1>1
  <2>3. \A i, j \in 1..Len(s) : i # j => s[i] # s[j]
    BY <1>3, <2>2 DEF Distinct
  <2>4. ASSUME NEW i \in 1..Len(r), NEW j \in 1..Len(r), i # j PROVE r[i] # r[j]
    BY <1>1, <2>1, <2>3, <2>4
  <2> QED BY <2>2, <2>4 DEF Distinct
<1>4. ToSet(r) = ToSet(s) \union {d}
  BY <1>2
<1> QED BY <1>1, <1>3, <1>4 DEF r

LEMMA LastInType ==
  ASSUME NEW D, NEW s \in Seq(D), NEW S
  PROVE  /\ ToSet(s) \intersect S = {} => LastIn(s, S) = None
         /\ ToSet(s) \intersect S # {} => LastIn(s, S) \in ToSet(s) \intersect S
<1> DEFINE found == {i \in 1..Len(s) : s[i] \in S}
<1>1. LastIn(s, S) = IF found = {} THEN None ELSE s[Max(found)]
  <2>1. DOMAIN s = 1..Len(s)
    OBVIOUS
  <2> QED BY <2>1 DEF LastIn
<1>2. found = {} <=> ToSet(s) \intersect S = {}
  BY ToSetOf
<1>3. ASSUME found # {} PROVE s[Max(found)] \in ToSet(s) \intersect S
  <2>1. found \in SUBSET (1..Len(s)) /\ Len(s) \in Nat
    OBVIOUS
  <2>2. Max(found) \in found
    BY <1>3, <2>1, MaxIsMember
  <2> QED BY <2>2, ToSetOf
<1> QED BY <1>1, <1>2, <1>3

LEMMA KeysClearedSteps ==
  ASSUME NEW q, Len(q) \in Nat
  PROVE  \E kept :
           /\ KeysCleared(q) = kept[Len(q)] /\ kept[0] = << >>
           /\ \A n \in 1..Len(q) :
                kept[n] = IF q[n].op \in DeviceEvents THEN Append(kept[n - 1], q[n]) ELSE kept[n - 1]
<1> DEFINE After(x, n) == IF q[n].op \in DeviceEvents THEN Append(x, q[n]) ELSE x
           Keeps(f, k) == f = [n \in 0..k |-> IF n = 0 THEN << >> ELSE
                                IF q[n].op \in DeviceEvents THEN Append(f[n - 1], q[n]) ELSE f[n - 1]]
           bad == {k \in Nat : ~ \E f : Keeps(f, k)}
<1>1. bad = {}
  <2> SUFFICES ASSUME bad # {} PROVE FALSE
    OBVIOUS
  <2> DEFINE k == Min(bad)
  <2>1. k \in bad /\ \A n \in bad : k <= n
    BY MinIsMember
  <2>2. k \in Nat /\ ~ \E f : Keeps(f, k)
    BY <2>1
  <2> HIDE DEF k
  <2>3. CASE k = 0
    <3> DEFINE f == [n \in 0..0 |-> << >>]
    <3>1. Keeps(f, 0)
      OBVIOUS
    <3> QED BY <2>2, <2>3, <3>1
  <2>4. CASE k # 0
    <3>1. k - 1 \in Nat /\ k - 1 < k
      BY <2>2, <2>4
    <3>2. PICK g : Keeps(g, k - 1)
      <4>1. k - 1 \notin bad
        <5> HIDE DEF bad
        <5> QED BY <2>1, <2>2, <3>1
      <4> QED BY <3>1, <4>1
    <3> HIDE DEF After
    <3> DEFINE f == [n \in 0..k |-> IF n = k THEN After(g[k - 1], k) ELSE g[n]]
    <3>3. ASSUME NEW n \in 0..k
          PROVE  f[n] = IF n = 0 THEN << >> ELSE After(f[n - 1], n)
      <4>1. CASE n = k
        <5>1. f[n] = After(g[k - 1], k) /\ f[k - 1] = g[k - 1]
          BY <2>2, <3>1, <4>1
        <5> QED BY <2>4, <4>1, <5>1
      <4>2. CASE n # k
        <5>1. n \in 0..(k - 1) /\ f[n] = g[n]
          BY <2>2, <3>1, <4>2
        <5>2. n # 0 => n - 1 \in 0..k /\ n - 1 # k
          BY <2>2, <5>1
        <5>3. n # 0 => f[n - 1] = g[n - 1]
          BY <5>2
        <5>4. g[n] = IF n = 0 THEN << >> ELSE After(g[n - 1], n)
          BY <3>2, <5>1 DEF After
        <5> QED BY <5>1, <5>3, <5>4
      <4> QED BY <4>1, <4>2
    <3>4. Keeps(f, k)
      <4> DEFINE h == [n \in 0..k |-> IF n = 0 THEN << >> ELSE After(f[n - 1], n)]
      <4>1. \A n \in 0..k : f[n] = h[n]
        BY <3>3
      <4>2. f = h
        BY <4>1
      <4> QED BY <4>2 DEF After
    <3> QED BY <2>2, <3>4
  <2> QED BY <2>3, <2>4
<1>2. PICK f : Keeps(f, Len(q))
  BY <1>1
<1>3. KeysCleared(q) = (CHOOSE g : Keeps(g, Len(q)))[Len(q)]
  BY DEF KeysCleared
<1> DEFINE kept == CHOOSE g : Keeps(g, Len(q))
<1>4. Keeps(kept, Len(q))
  BY <1>2
<1> HIDE DEF kept
<1>5. \A n \in 0..Len(q) :
        kept[n] = IF n = 0 THEN << >> ELSE
                  IF q[n].op \in DeviceEvents THEN Append(kept[n - 1], q[n]) ELSE kept[n - 1]
  BY <1>4
<1>6. kept[0] = << >>
  BY <1>5
<1>7. \A n \in 1..Len(q) : n \in 0..Len(q) /\ n # 0
  OBVIOUS
<1> QED BY <1>3, <1>5, <1>6, <1>7 DEF kept

(* Only device events are kept, and they are messages of the queue.         *)
LEMMA KeysClearedType ==
  ASSUME NEW M, NEW q \in Seq(M)
  PROVE  /\ KeysCleared(q) \in Seq({m \in ToSet(q) : m.op \in DeviceEvents})
         /\ KeysCleared(q) \in Seq(M)
         /\ Len(KeysCleared(q)) <= Len(q)
<1> DEFINE E == {m \in ToSet(q) : m.op \in DeviceEvents}
<1>1. Len(q) \in Nat /\ \A n \in 1..Len(q) : q[n] \in M /\ q[n] \in ToSet(q)
  BY ToSetOf
<1>2. E \subseteq M
  BY ToSetOf
<1>3. \A n \in 1..Len(q) : q[n].op \in DeviceEvents => q[n] \in E
  BY <1>1
<1> HIDE DEF E
<1>4. PICK kept :
        /\ KeysCleared(q) = kept[Len(q)] /\ kept[0] = << >>
        /\ \A n \in 1..Len(q) :
             kept[n] = IF q[n].op \in DeviceEvents THEN Append(kept[n - 1], q[n]) ELSE kept[n - 1]
  BY <1>1, KeysClearedSteps
<1> DEFINE Good(n) == kept[n] \in Seq(E) /\ Len(kept[n]) <= n
           bad == {n \in 0..Len(q) : ~ Good(n)}
<1>5. ASSUME NEW n \in 1..Len(q), Good(n - 1) PROVE Good(n)
  <2>1. kept[n] = IF q[n].op \in DeviceEvents THEN Append(kept[n - 1], q[n]) ELSE kept[n - 1]
    BY <1>4
  <2>2. n \in Nat
    BY <1>1
  <2> DEFINE x == kept[n - 1]
  <2>3. x \in Seq(E) /\ Len(x) <= n - 1 /\ Len(x) \in Nat
    BY <1>5
  <2> HIDE DEF x
  <2>4. CASE q[n].op \in DeviceEvents
    <3>1. q[n] \in E /\ kept[n] = Append(x, q[n])
      BY <1>3, <2>1, <2>4 DEF x
    <3>2. Append(x, q[n]) \in Seq(E) /\ Len(Append(x, q[n])) = Len(x) + 1
      BY <2>3, <3>1, AppendType
    <3> QED BY <2>2, <2>3, <3>1, <3>2
  <2>5. CASE q[n].op \notin DeviceEvents
    <3>1. kept[n] = x
      BY <2>1, <2>5 DEF x
    <3> QED BY <2>2, <2>3, <3>1
  <2> QED BY <2>4, <2>5
<1>6. bad = {}
  <2> SUFFICES ASSUME bad # {} PROVE FALSE
    OBVIOUS
  <2> DEFINE n == Min(bad)
  <2>0. bad \in SUBSET Nat
    BY <1>1
  <2>1. n \in bad /\ \A k \in bad : n <= k
    BY <2>0, MinIsMember
  <2>2. n \in 0..Len(q) /\ ~ Good(n)
    BY <2>1
  <2> HIDE DEF n
  <2>3. n # 0
    <3>1. << >> \in Seq(E) /\ Len(<< >>) = 0
      OBVIOUS
    <3>2. Good(0)
      BY <1>4, <3>1
    <3> QED BY <2>2, <3>2
  <2>4. n \in 1..Len(q) /\ n - 1 \in 0..Len(q) /\ n - 1 < n
    BY <1>1, <2>2, <2>3
  <2>5. n - 1 \notin bad
    <3> HIDE DEF bad
    <3>1. n \in Nat /\ n - 1 \in Nat
      BY <1>1, <2>4
    <3> QED BY <2>1, <2>4, <3>1
  <2>6. Good(n - 1)
    BY <2>4, <2>5
  <2> HIDE DEF Good, bad
  <2> QED BY <1>5, <2>2, <2>4, <2>6
<1>7. Good(Len(q))
  <2>1. Len(q) \in 0..Len(q)
    BY <1>1
  <2> QED BY <1>6, <2>1
<1>8. kept[Len(q)] \in Seq(M)
  <2>1. \A s \in Seq(E) : s \in Seq(M)
    BY <1>2
  <2> QED BY <1>7, <2>1
<1> QED BY <1>4, <1>7, <1>8 DEF E

LEMMA TailType ==
  ASSUME NEW M, NEW q \in Seq(M), q # << >>
  PROVE  /\ Tail(q) \in Seq(M) /\ Len(Tail(q)) = Len(q) - 1 /\ Len(q) \in Nat /\ Len(q) >= 1
         /\ q[1] \in M
         /\ \A i \in 1..Len(Tail(q)) : i + 1 \in 1..Len(q) /\ Tail(q)[i] = q[i + 1]
<1>1. Len(q) \in Nat /\ Len(q) # 0
  BY EmptySeq
<1>2. q[1] \in M
  BY <1>1
<1>3. Tail(q) \in Seq(M) /\ Len(Tail(q)) = Len(q) - 1
      /\ \A i \in 1..Len(Tail(q)) : Tail(q)[i] = q[i + 1]
  BY HeadTailProperties
<1> QED BY <1>1, <1>2, <1>3

-----------------------------------------------------------------------------
(* Types.  Besides what TypeOK says, the nodes by their stamps are those of *)
(* the list, each once; a scan has a file and its position is one of them;  *)
(* and the queue has room for what a scan and the driver still post.        *)

ScanPending == IF scan = "none" THEN 0 ELSE 1

WorldOK ==
  /\ env \in Envs /\ inserted \subseteq Devices /\ seen \subseteq Devices
  /\ card \in [Devices -> Cards]

NodesOK ==
  /\ list \in Seq(Devices) /\ Distinct(list)
  /\ recent \in Seq(Devices) /\ Distinct(recent) /\ ToSet(recent) = ToSet(list)
  /\ mounted \subseteq ToSet(list) /\ live \subseteq ToSet(list) /\ valid \subseteq ToSet(list)

QueueOK ==
  /\ queue \in Seq(Messages)
  /\ Len(queue) + Cardinality(Unnoticed) + ScanPending <= MaxQueue

Scanned(fs) ==
  /\ fs \in [files : Cards, cur : Nat]
  /\ Len(fs.files) \in Nat /\ Len(fs.files) >= 1 /\ fs.cur <= Len(fs.files)
  /\ \A i \in 1..Len(fs.files) : fs.files[i] \in {"good", "bad"}

(* The player and the task, and the variables with a type only.             *)
PlayerOK ==
  /\ dev \in Devices \union {None, Gone} /\ (fsn = NoScan \/ Scanned(fsn))
  /\ task \in {"music", "other"} /\ starting \in BOOLEAN /\ (starting => task = "music")
  /\ dec \in {"none", "play", "ended"} /\ file \in BOOLEAN
  /\ (dec # "none" => file /\ fsn # NoScan /\ task = "music")
  /\ scan \in {"none", "first", "last", "bp"} /\ (scan # "none" => task = "music" /\ dec = "none")

MiscOK ==
  /\ wrapped \in BOOLEAN /\ broke \in BOOLEAN /\ backward \in BOOLEAN
  /\ file_err_counter \in Nat
  /\ bp \in [Devices -> {"none", "mine", "foreign"}]

Types == WorldOK /\ NodesOK /\ QueueOK /\ PlayerOK /\ MiscOK

LEMMA CardFiles ==
  ASSUME NEW c \in Cards
  PROVE  /\ c \in Seq({"good", "bad"})
         /\ c # << >> => Scanned([files |-> c, cur |-> 0])
<1>1. c \in Seq({"good", "bad"})
  BY CardAssumption
<1>2. Len(c) \in Nat /\ \A i \in 1..Len(c) : c[i] \in {"good", "bad"}
  BY <1>1
<1>3. c # << >> => Len(c) >= 1
  BY <1>1, <1>2, EmptySeq
<1> QED BY <1>1, <1>2, <1>3 DEF Scanned

LEMMA NoScanIsNone == ~ Scanned(NoScan)
BY DEF Scanned, NoScan

LEMMA KeyIsMessage ==
  /\ \A op \in UserKeys \union OwnKeys : Key(op) \in Messages
  /\ \A d \in Devices : Arrives(d) \in Messages /\ Leaves(d) \in Messages
  /\ \A err \in BOOLEAN : End(err) \in Messages
BY DEF Key, Arrives, Leaves, End, Messages, UserKeys, OwnKeys, DeviceEvents

LEMMA MessageType ==
  ASSUME NEW m \in Messages
  PROVE  /\ m.op \in DeviceEvents => m.dev \in Devices
         /\ m.err \in BOOLEAN
         /\ [m EXCEPT !.fresh = FALSE] \in Messages
<1> DEFINE Events == [op : DeviceEvents, dev : Devices, err : {FALSE}, fresh : {FALSE}]
           Keys == [op : UserKeys \union OwnKeys, dev : {None}, err : {FALSE}, fresh : {FALSE}]
           Ended == [op : {"END"}, dev : {None}, err : BOOLEAN, fresh : BOOLEAN]
<1>1. Messages = UNION {Events, Keys, Ended}
  BY DEF Messages
<1>2. ASSUME m \in Events
      PROVE  m.dev \in Devices /\ m.err \in BOOLEAN /\ [m EXCEPT !.fresh = FALSE] \in Events
  BY <1>2
<1>3. ASSUME m \in Keys
      PROVE  m.op \notin DeviceEvents /\ m.err \in BOOLEAN /\ [m EXCEPT !.fresh = FALSE] \in Keys
  BY <1>3 DEF UserKeys, OwnKeys, DeviceEvents
<1>4. ASSUME m \in Ended
      PROVE  m.op \notin DeviceEvents /\ m.err \in BOOLEAN /\ [m EXCEPT !.fresh = FALSE] \in Ended
  BY <1>4 DEF DeviceEvents
<1> HIDE DEF Events, Keys, Ended
<1> QED BY <1>1, <1>2, <1>3, <1>4

LEMMA TypesImplyTypeOK == ASSUME Types PROVE TypeOK
<1>1. Cardinality(Unnoticed) \in Nat
  BY QueueAssumption, FS_Subset, FS_CardinalityType DEF Unnoticed
<1>2. Len(queue) \in Nat /\ ScanPending \in Nat
  BY DEF Types, QueueOK, ScanPending
<1>3. Len(queue) <= MaxQueue
  BY <1>1, <1>2, QueueAssumption DEF Types, QueueOK
<1>4. fsn = NoScan \/ fsn.files \in Cards
  BY DEF Types, PlayerOK, Scanned
<1>5. \A i, j \in DOMAIN list : i # j => list[i] # list[j]
  BY DEF Types, NodesOK, Distinct
<1>6. WorldOK /\ NodesOK /\ QueueOK /\ PlayerOK /\ MiscOK
  BY DEF Types
<1> QED
  BY <1>3, <1>4, <1>5, <1>6 DEF TypeOK, WorldOK, NodesOK, QueueOK, PlayerOK, MiscOK

LEMMA InitTypes == Init => Types
<1> SUFFICES ASSUME Init PROVE Types
  OBVIOUS
<1>1. WorldOK
  BY DeviceAssumption DEF Init, WorldOK, Used
<1>2. NodesOK
  <2>1. list \in Seq(Devices) /\ recent \in Seq(Devices) /\ Len(list) = 0 /\ Len(recent) = 0
    BY DEF Init
  <2>2. Distinct(list) /\ Distinct(recent)
    BY <2>1 DEF Distinct
  <2>3. ToSet(recent) = ToSet(list)
    BY DEF Init
  <2> QED BY <2>1, <2>2, <2>3 DEF Init, NodesOK
<1>3. QueueOK
  <2>1. queue \in Seq(Messages) /\ Len(queue) = 0
    BY DEF Init
  <2>2. Cardinality(Unnoticed) \in Nat /\ Cardinality(Unnoticed) <= Cardinality(Devices)
        /\ Cardinality(Devices) \in Nat
    BY QueueAssumption, FS_Subset, FS_CardinalityType DEF Unnoticed
  <2>3. ScanPending = 0
    BY DEF Init, ScanPending
  <2> QED BY <2>1, <2>2, <2>3, QueueAssumption DEF QueueOK
<1>4. PlayerOK
  BY DEF Init, PlayerOK
<1>5. MiscOK
  BY DEF Init, MiscOK
<1> QED BY <1>1, <1>2, <1>3, <1>4, <1>5 DEF Types

-----------------------------------------------------------------------------
(* What the device manager's operators and actions give.                    *)

LEMMA FindActiveType ==
  ASSUME NodesOK
  PROVE  /\ find_active \in Devices \union {None}
         /\ find_active # None => find_active \in Playable
         /\ Playable # {} => find_active # None
<1>1. Playable \subseteq ToSet(recent) /\ ToSet(recent) \subseteq Devices
  BY ToSetOf DEF Playable, NodesOK
<1>2. recent \in Seq(Devices)
  BY DEF NodesOK
<1>3. None \notin Devices
  BY DeviceAssumption
<1> QED BY <1>1, <1>2, <1>3, LastInType DEF find_active

LEMMA FindNeighbourType ==
  ASSUME NodesOK, NEW d, NEW step
  PROVE  find_neighbour(d, step) \in Devices \union {None}
<1> DEFINE n == Len(list)
           met == {k \in DOMAIN Around(d, step) : Around(d, step)[k] \in Playable}
<1>1. DOMAIN Around(d, step) = 1..(n - 1) /\ n \in Nat
  BY DEF Around, NodesOK
<1>2. Playable \subseteq Devices
  BY ToSetOf DEF Playable, NodesOK
<1>3. met # {} => Around(d, step)[Min(met)] \in Devices
  <2>1. met \in SUBSET Nat
    BY <1>1
  <2> QED BY <1>2, <2>1, MinIsMember
<1> QED BY <1>3, FindActiveType DEF find_neighbour

LEMMA AddType ==
  ASSUME NodesOK, NEW d \in Devices, dev_manager_add(d)
  PROVE  NodesOK'
<1>1. CASE \E i \in DOMAIN list : list[i] = d
  BY <1>1 DEF dev_manager_add, NodesOK, nodes
<1>2. CASE ~ \E i \in DOMAIN list : list[i] = d
  <2>1. list' = Append(list, d) /\ recent' = Append(recent, d)
    BY <1>2 DEF dev_manager_add
  <2>2. d \notin ToSet(list) /\ d \notin ToSet(recent)
    BY <1>2, ToSetOf DEF NodesOK
  <2>3. /\ list' \in Seq(Devices) /\ Distinct(list') /\ ToSet(list') = ToSet(list) \union {d}
        /\ recent' \in Seq(Devices) /\ Distinct(recent') /\ ToSet(recent') = ToSet(recent) \union {d}
    BY <2>1, <2>2, AppendType DEF NodesOK
  <2>4. mounted' \subseteq mounted \union {d} /\ live' \subseteq live \union {d}
        /\ valid' \subseteq valid \union {d}
    BY <1>2 DEF dev_manager_add
  <2> QED BY <2>3, <2>4 DEF NodesOK
<1> QED BY <1>1, <1>2

LEMMA DelType ==
  ASSUME NodesOK, NEW d, dev_manager_del(d)
  PROVE  NodesOK'
<1>1. /\ list' \in Seq(Devices) /\ Distinct(list') /\ ToSet(list') = ToSet(list) \ {d}
      /\ recent' \in Seq(Devices) /\ Distinct(recent') /\ ToSet(recent') = ToSet(recent) \ {d}
  BY UnlistType DEF dev_manager_del, NodesOK
<1>2. mounted' = mounted \ {d} /\ live' = live \ {d} /\ valid' = valid \ {d}
  BY DEF dev_manager_del
<1> QED BY <1>1, <1>2 DEF NodesOK

(* The player's results: nothing but the marks of a device, the counter and *)
(* the queue changes, and the queue grows by one message at most.           *)
LEMMA DealType ==
  ASSUME MiscOK, NEW err, NEW q \in Seq(Messages), Deal(err, q)
  PROVE  /\ queue' \in Seq(Messages) /\ Len(queue') <= Len(q) + 1
         /\ valid' \subseteq valid /\ mounted' \subseteq mounted
         /\ file_err_counter' \in Nat /\ broke' \in BOOLEAN
<1>1. \A op \in UserKeys \union OwnKeys :
        Append(q, Key(op)) \in Seq(Messages) /\ Len(Append(q, Key(op))) = Len(q) + 1
  BY KeyIsMessage, AppendType
<1>2. {"QUIT", "AUTO_NEXT_DEV", "PREV", "NEXT", "PLAY_FIRST"} \subseteq UserKeys \union OwnKeys
  BY DEF UserKeys, OwnKeys
<1>3. file_err_counter \in Nat /\ broke \in BOOLEAN
  BY DEF MiscOK
<1>4. Len(q) \in Nat
  OBVIOUS
<1>5. queue' = q \/ \E op \in UserKeys \union OwnKeys : queue' = Append(q, Key(op))
  BY <1>2, Zenon DEF Deal, DecodeFailed, NotFound, NextDevice
<1>6. queue' \in Seq(Messages) /\ Len(queue') <= Len(q) + 1
  BY <1>1, <1>4, <1>5
<1>7. valid' \subseteq valid /\ mounted' \subseteq mounted
  BY DEF Deal, DecodeFailed, NotFound
<1>8. file_err_counter' \in Nat
  BY <1>3 DEF Deal, DecodeFailed, Cleared
<1>9. broke' \in BOOLEAN
  <2>1. broke' = (broke /\ err # "FSCAN")
    BY DEF Deal
  <2> QED BY <2>1
<1> QED BY <1>6, <1>7, <1>8, <1>9

-----------------------------------------------------------------------------
(* The play functions.                                                      *)

Handled(q) ==
  /\ NodesOK' /\ PlayerOK' /\ MiscOK'
  /\ queue' \in Seq(Messages) /\ Len(queue') + ScanPending' <= Len(q) + 1

Selections == {"first", "last", "next", "prev", "bp"}

LEMMA SelectedType ==
  ASSUME NEW fs, Scanned(fs), NEW sel \in Selections
  PROVE  Selected(fs, sel) \subseteq 1..Len(fs.files)
<1> DEFINE n == Len(fs.files)
<1>1. n \in Nat /\ n >= 1 /\ fs.cur \in Nat /\ fs.cur <= n
  BY DEF Scanned
<1>2. (fs.cur % n) + 1 \in 1..n
  <2> DEFINE c == fs.cur
  <2> HIDE DEF n, c
  <2>1. c % n \in 0..(n - 1)
    BY <1>1, Z3 DEF c
  <2> QED BY <1>1, <2>1 DEF c
<1>3. (IF fs.cur <= 1 THEN n ELSE fs.cur - 1) \in 1..n
  BY <1>1
<1>4. 1 \in 1..n /\ n \in 1..n
  BY <1>1
<1>5. CASE sel = "first"
  BY <1>4, <1>5 DEF Selected
<1>6. CASE sel = "last"
  BY <1>4, <1>6 DEF Selected
<1>7. CASE sel = "next"
  BY <1>2, <1>7 DEF Selected
<1>8. CASE sel = "prev"
  BY <1>3, <1>8 DEF Selected
<1>9. CASE sel = "bp"
  BY <1>9 DEF Selected
<1> QED BY <1>5, <1>6, <1>7, <1>8, <1>9 DEF Selections

(* A file that begins: its device becomes the active one.                   *)
LEMMA ActiveType ==
  ASSUME NodesOK, NEW d \in ToSet(list), recent' = Append(Unlist(recent, d), d),
         UNCHANGED list, live' = live, valid' \subseteq valid, mounted' \subseteq mounted
  PROVE  NodesOK'
<1> DEFINE u == Unlist(recent, d)
<1>1. d \in Devices
  BY ToSetOf DEF NodesOK
<1>2. u \in Seq(Devices) /\ Distinct(u) /\ ToSet(u) = ToSet(recent) \ {d}
  BY UnlistType DEF NodesOK
<1> HIDE DEF u
<1>3. d \notin ToSet(u)
  BY <1>2
<1>4. /\ Append(u, d) \in Seq(Devices) /\ Distinct(Append(u, d))
      /\ ToSet(Append(u, d)) = ToSet(u) \union {d}
  BY <1>1, <1>2, <1>3, AppendType
<1>5. ToSet(Append(u, d)) = ToSet(list)
  BY <1>2, <1>4 DEF NodesOK
<1>6. recent' = Append(u, d)
  BY DEF u
<1> QED BY <1>4, <1>5, <1>6 DEF NodesOK

LEMMA MarksType ==
  ASSUME NodesOK, UNCHANGED <<list, live, recent>>, valid' \subseteq valid, mounted' \subseteq mounted
  PROVE  NodesOK'
BY DEF NodesOK

LEMMA OlderType ==
  ASSUME NEW q \in Seq(Messages)
  PROVE  Older(q) \in Seq(Messages) /\ Len(Older(q)) = Len(q)
<1>1. DOMAIN q = 1..Len(q) /\ Len(q) \in Nat
  OBVIOUS
<1>2. \A i \in 1..Len(q) : [q[i] EXCEPT !.fresh = FALSE] \in Messages
  <2>1. \A m \in Messages : [m EXCEPT !.fresh = FALSE] \in Messages
    BY MessageType
  <2> QED BY <2>1
<1>3. Older(q) = [i \in 1..Len(q) |-> [q[i] EXCEPT !.fresh = FALSE]]
  BY <1>1 DEF Older
<1>4. Older(q) \in [1..Len(q) -> Messages]
  BY <1>2, <1>3
<1> QED BY <1>1, <1>4

LEMMA FailsType ==
  ASSUME NodesOK, MiscOK, NEW q \in Seq(Messages), NEW err, Fails(err, q),
         UNCHANGED <<list, live>>, task' = "music", starting' \in BOOLEAN, backward' \in BOOLEAN,
         scan' = "none", dev' \in Devices \union {None, Gone}, fsn' = NoScan \/ Scanned(fsn')
  PROVE  Handled(q)
<1>1. /\ dec' = "none" /\ file' = FALSE /\ wrapped' = wrapped /\ bp' = bp /\ recent' = recent
      /\ Deal(err, q)
  BY DEF Fails, music_player_stop
<1>2. /\ queue' \in Seq(Messages) /\ Len(queue') <= Len(q) + 1
      /\ valid' \subseteq valid /\ mounted' \subseteq mounted
      /\ file_err_counter' \in Nat /\ broke' \in BOOLEAN
  BY <1>1, DealType
<1>3. NodesOK'
  BY <1>1, <1>2, MarksType
<1>4. MiscOK'
  BY <1>1, <1>2 DEF MiscOK
<1>5. PlayerOK'
  BY <1>1 DEF PlayerOK
<1>6. ScanPending' = 0
  BY DEF ScanPending
<1>7. Len(queue') + ScanPending' <= Len(q) + 1
  BY <1>2, <1>6
<1> QED BY <1>2, <1>3, <1>4, <1>5, <1>7 DEF Handled

LEMMA PlayFromType ==
  ASSUME NodesOK, MiscOK, NEW q \in Seq(Messages), NEW fs, fs = NoScan \/ Scanned(fs),
         NEW sel \in Selections, PlayFrom(fs, sel, q),
         task' = "music", starting' \in BOOLEAN, backward' \in BOOLEAN,
         scan' = "none", dev' \in Devices \union {None, Gone}
  PROVE  Handled(q)
<1>0. UNCHANGED <<list, live>>
  BY DEF PlayFrom
<1>1. CASE fs = NoScan /\ fsn' = fs /\ Fails("FSCAN", q)
  BY <1>0, <1>1, FailsType
<1>2. CASE fs # NoScan /\ dev' \notin live /\ fsn' = fs /\ Fails("FILE_NOFOUND", q)
  BY <1>0, <1>2, FailsType
<1>3. CASE fs # NoScan /\ dev' \in live
           /\ \E i \in Selected(fs, sel) :
                fsn' = [fs EXCEPT !.cur = i] /\ file' = TRUE /\ music_player_decode_start(i, q)
  <2>1. Scanned(fs)
    BY <1>3
  <2>2. PICK i \in 1..Len(fs.files) :
               fsn' = [fs EXCEPT !.cur = i] /\ file' = TRUE /\ music_player_decode_start(i, q)
    BY <1>3, <2>1, SelectedType
  <2>3. Scanned(fsn')
    BY <2>1, <2>2 DEF Scanned
  <2>4. fsn' # NoScan
    BY <2>3, NoScanIsNone
  <2>5. /\ bp' = bp /\ wrapped' \in BOOLEAN
        /\ \/ dec' = "play" /\ recent' = Append(Unlist(recent, dev'), dev') /\ Deal("SUCC", Older(q))
           \/ dec' = "none" /\ recent' = recent /\ Deal("DECODE_FAIL", Older(q))
    BY <2>2 DEF music_player_decode_start
  <2>6. Older(q) \in Seq(Messages) /\ Len(Older(q)) = Len(q)
    BY OlderType
  <2>7. /\ queue' \in Seq(Messages) /\ Len(queue') <= Len(q) + 1
        /\ valid' \subseteq valid /\ mounted' \subseteq mounted
        /\ file_err_counter' \in Nat /\ broke' \in BOOLEAN
    BY <2>5, <2>6, DealType
  <2>8. NodesOK'
    <3>1. dev' \in ToSet(list)
      BY <1>3 DEF NodesOK
    <3>2. CASE recent' = recent
      BY <1>0, <2>7, <3>2, MarksType
    <3>3. CASE recent' = Append(Unlist(recent, dev'), dev')
      <4>1. PICK d \in ToSet(list) : d = dev'
        BY <3>1
      <4> QED BY <1>0, <2>7, <3>3, <4>1, ActiveType
    <3> QED BY <2>5, <3>2, <3>3
  <2>9. MiscOK'
    BY <2>5, <2>7 DEF MiscOK
  <2>10. PlayerOK'
    BY <2>2, <2>3, <2>4, <2>5 DEF PlayerOK
  <2>11. Len(queue') + ScanPending' <= Len(q) + 1
    <3>1. ScanPending' = 0
      BY DEF ScanPending
    <3> QED BY <2>7, <3>1
  <2> QED BY <2>7, <2>8, <2>9, <2>10, <2>11 DEF Handled
<1> QED BY <1>1, <1>2, <1>3 DEF PlayFrom

LEMMA PlayHereType ==
  ASSUME NodesOK, MiscOK, PlayerOK, NEW q \in Seq(Messages), NEW sel \in Selections, PlayHere(sel, q),
         scan = "none", task' = "music", starting' \in BOOLEAN, backward' \in BOOLEAN
  PROVE  Handled(q)
<1>1. dev' = dev /\ scan' = "none" /\ dev' \in Devices \union {None, Gone}
  BY DEF PlayHere, PlayerOK
<1>2. fsn = NoScan \/ Scanned(fsn)
  BY DEF PlayerOK
<1>3. CASE Online(dev) /\ PlayFrom(fsn, sel, q)
  BY <1>1, <1>2, <1>3, PlayFromType
<1>4. CASE ~ Online(dev) /\ UNCHANGED <<fsn, list, live>> /\ Fails("DEV_OFFLINE", q)
  BY <1>1, <1>2, <1>4, FailsType
<1> QED BY <1>3, <1>4 DEF PlayHere

LEMMA PlayDeviceType ==
  ASSUME NodesOK, MiscOK, NEW q \in Seq(Messages), NEW d \in Devices, NEW sel \in {"first", "last", "bp"},
         PlayDevice(d, sel, q), bp' \in [Devices -> {"none", "mine", "foreign"}],
         task' = "music", starting' \in BOOLEAN, backward' \in BOOLEAN
  PROVE  Handled(q)
<1>1. /\ dev' = d /\ fsn' = NoScan /\ dec' = "none" /\ file' = FALSE /\ scan' = sel /\ queue' = q
      /\ UNCHANGED <<list, recent, mounted, live, valid>>
      /\ UNCHANGED <<wrapped, broke, file_err_counter>>
  BY DEF PlayDevice, music_player_stop, nodes
<1>2. NodesOK'
  BY <1>1, MarksType
<1>3. MiscOK'
  BY <1>1 DEF MiscOK
<1>4. PlayerOK'
  BY <1>1 DEF PlayerOK
<1>5. Len(queue') + ScanPending' <= Len(q) + 1
  BY <1>1 DEF ScanPending
<1> QED BY <1>1, <1>2, <1>3, <1>4, <1>5 DEF Handled

LEMMA PlayOnType ==
  ASSUME NodesOK, MiscOK, PlayerOK, NEW q \in Seq(Messages), NEW d \in Devices \union {None},
         NEW sel \in {"first", "last", "bp"}, PlayOn(d, sel, q),
         scan = "none", task' = "music", starting' \in BOOLEAN, backward' \in BOOLEAN
  PROVE  Handled(q)
<1>1. CASE d = None /\ PlayHere(sel, q)
  BY <1>1, PlayHereType DEF Selections
<1>2. CASE d # None /\ PlayDevice(d, sel, q) /\ UNCHANGED bp
  BY <1>2, PlayDeviceType DEF MiscOK
<1> QED BY <1>1, <1>2 DEF PlayOn

LEMMA NothingType ==
  ASSUME NodesOK, MiscOK, PlayerOK, NEW q \in Seq(Messages), NEW err, Nothing(err, q),
         bp' \in [Devices -> {"none", "mine", "foreign"}], scan = "none",
         task = "music", task' = "music", starting' \in BOOLEAN, backward' \in BOOLEAN
  PROVE  Handled(q)
<1>1. UNCHANGED <<dev, fsn, file, dec, wrapped, scan, list, live, recent>> /\ Deal(err, q)
  BY DEF Nothing
<1>2. /\ queue' \in Seq(Messages) /\ Len(queue') <= Len(q) + 1
      /\ valid' \subseteq valid /\ mounted' \subseteq mounted
      /\ file_err_counter' \in Nat /\ broke' \in BOOLEAN
  BY <1>1, DealType
<1>3. NodesOK'
  BY <1>1, <1>2, MarksType
<1>4. MiscOK'
  BY <1>1, <1>2 DEF MiscOK
<1>5. PlayerOK'
  BY <1>1 DEF PlayerOK
<1>6. Len(queue') + ScanPending' <= Len(q) + 1
  BY <1>1, <1>2 DEF ScanPending
<1> QED BY <1>2, <1>3, <1>4, <1>5, <1>6 DEF Handled

LEMMA BreakPointType ==
  ASSUME NodesOK, MiscOK
  PROVE  BreakPointSaved \in [Devices -> {"none", "mine", "foreign"}]
BY DEF MiscOK, BreakPointSaved

LEMMA FromBreakPointType == ASSUME NEW d PROVE FromBreakPoint(d) \in {"first", "last", "bp"}
BY DEF FromBreakPoint

LEMMA PlayedType ==
  ASSUME NodesOK, MiscOK, PlayerOK, NEW m, m.op \in Plays, NEW q \in Seq(Messages), Played(m, q),
         scan = "none", task = "music", task' = "music", starting' \in BOOLEAN, backward' \in BOOLEAN
  PROVE  Handled(q)
<1> DEFINE Points == [Devices -> {"none", "mine", "foreign"}]
<1>0. bp \in Points /\ BreakPointSaved \in Points
  BY BreakPointType DEF MiscOK
<1>1. CASE m.op = "START"
  <2>1. PlayerStart(q)
    BY <1>1 DEF Played
  <2>2. CASE SameDevice /\ UNCHANGED bp /\ Nothing("NULL", q)
    BY <1>0, <2>2, NothingType
  <2>3. CASE PlayOn(find_active, FromBreakPoint(find_active), q)
    BY <2>3, FindActiveType, FromBreakPointType, PlayOnType
  <2> QED BY <2>1, <2>2, <2>3 DEF PlayerStart
<1>2. CASE m.op = "PLAY_FIRST"
  BY <1>2, PlayHereType DEF Played, Selections
<1>3. CASE m.op = "NEXT"
  <2>1. music_player_play_next(q)
    BY <1>3 DEF Played
  <2>2. CASE PlayOn(get_dev_flit("next"), "first", q)
    <3>1. get_dev_flit("next") \in Devices \union {None}
      BY FindNeighbourType DEF get_dev_flit
    <3> QED BY <2>2, <3>1, PlayOnType
  <2>3. CASE PlayHere("next", q)
    BY <2>3, PlayHereType DEF Selections
  <2> QED BY <2>1, <2>2, <2>3 DEF music_player_play_next
<1>4. CASE m.op = "PREV"
  <2>1. music_player_play_prev(q)
    BY <1>4 DEF Played
  <2>2. CASE PlayOn(get_dev_flit("prev"), "last", q)
    <3>1. get_dev_flit("prev") \in Devices \union {None}
      BY FindNeighbourType DEF get_dev_flit
    <3> QED BY <2>2, <3>1, PlayOnType
  <2>3. CASE PlayHere("prev", q)
    BY <2>3, PlayHereType DEF Selections
  <2> QED BY <2>1, <2>2, <2>3 DEF music_player_play_prev
<1>5. CASE m.op = "AUTO_NEXT_DEV"
  <2> DEFINE next == find_neighbour(dev, "next")
  <2>1. \/ next = None /\ UNCHANGED bp /\ Nothing("NULL", q)
        \/ next # None /\ bp' = BreakPointSaved /\ PlayDevice(next, FromBreakPoint(next), q)
    BY <1>5 DEF Played, AutoNextDev
  <2>2. next \in Devices \union {None}
    BY FindNeighbourType
  <2> HIDE DEF next
  <2>3. CASE next = None /\ UNCHANGED bp /\ Nothing("NULL", q)
    BY <1>0, <2>3, NothingType
  <2>4. CASE next # None /\ bp' = BreakPointSaved /\ PlayDevice(next, FromBreakPoint(next), q)
    BY <1>0, <2>2, <2>4, FromBreakPointType, PlayDeviceType
  <2> QED BY <2>1, <2>3, <2>4
<1>6. CASE m.op = "END"
  <2> DEFINE d == get_dev_flit("next")
  <2>1. \/ bp' = BreakPointSaved /\ Nothing("DEV_READ", q)
        \/ UNCHANGED bp /\ Nothing("NULL", q)
        \/ d # None /\ PlayDevice(d, "first", q) /\ UNCHANGED bp
        \/ PlayHere("next", q)
    <3>1. music_player_end_deal(m, q)
      BY <1>6 DEF Played
    <3> QED BY <3>1, Zenon DEF music_player_end_deal
  <2>2. d \in Devices \union {None}
    BY FindNeighbourType DEF get_dev_flit
  <2> HIDE DEF d
  <2>3. CASE bp' = BreakPointSaved /\ Nothing("DEV_READ", q)
    BY <1>0, <2>3, NothingType
  <2>4. CASE UNCHANGED bp /\ Nothing("NULL", q)
    BY <1>0, <2>4, NothingType
  <2>5. CASE d # None /\ PlayDevice(d, "first", q) /\ UNCHANGED bp
    BY <1>0, <2>2, <2>5, PlayDeviceType
  <2>6. CASE PlayHere("next", q)
    BY <2>6, PlayHereType DEF Selections
  <2> QED BY <2>1, <2>3, <2>4, <2>5, <2>6
<1> QED BY <1>1, <1>2, <1>3, <1>4, <1>5, <1>6 DEF Plays

-----------------------------------------------------------------------------
(* The steps.                                                               *)

LEMMA WorldKept ==
  ASSUME WorldOK, world' = world
  PROVE  WorldOK' /\ Unnoticed' = Unnoticed
<1>1. env' = env /\ inserted' = inserted /\ card' = card /\ seen' = seen
  BY DEF world
<1> QED BY <1>1 DEF WorldOK, Unnoticed

LEMMA UnnoticedCount ==
  Cardinality(Unnoticed) \in Nat /\ IsFiniteSet(Unnoticed)
BY QueueAssumption, FS_Subset, FS_CardinalityType DEF Unnoticed

(* A handler that takes one message and leaves at most one more, or a scan. *)
LEMMA RoomKept ==
  ASSUME QueueOK, Unnoticed' = Unnoticed, queue' \in Seq(Messages),
         Len(queue') + ScanPending' <= Len(queue) + ScanPending
  PROVE  QueueOK'
<1> DEFINE u == Cardinality(Unnoticed)
<1>1. u \in Nat /\ Cardinality(Unnoticed') = u
  BY UnnoticedCount
<1>2. /\ Len(queue) \in Nat /\ Len(queue') \in Nat /\ ScanPending \in Nat /\ ScanPending' \in Nat
  BY DEF QueueOK, ScanPending
<1> HIDE DEF u
<1>3. Len(queue) + u + ScanPending <= MaxQueue
  BY DEF QueueOK, u
<1>4. Len(queue') + u + ScanPending' <= MaxQueue
  BY <1>1, <1>2, <1>3, QueueAssumption
<1> QED BY <1>1, <1>4 DEF QueueOK

LEMMA HandledTypes ==
  ASSUME Types, queue # << >>, scan = "none", world' = world, Handled(Tail(queue))
  PROVE  Types'
<1>1. Len(Tail(queue)) = Len(queue) - 1 /\ Len(queue) \in Nat
  BY TailType DEF Types, QueueOK
<1>2. Len(queue') + ScanPending' <= Len(queue) + ScanPending
  BY <1>1 DEF Handled, ScanPending
<1>3. WorldOK' /\ Unnoticed' = Unnoticed
  BY WorldKept DEF Types
<1>4. QueueOK'
  BY <1>2, <1>3, RoomKept DEF Types, Handled
<1> QED BY <1>3, <1>4 DEF Types, Handled

LEMMA TakeType ==
  ASSUME Types, NEW ops, Take(ops)
  PROVE  /\ scan = "none" /\ queue # << >> /\ queue[1] \in Messages /\ queue[1].op \in ops
         /\ Tail(queue) \in Seq(Messages) /\ Len(Tail(queue)) = Len(queue) - 1 /\ Len(queue) \in Nat
BY TailType DEF Take, Types, QueueOK

LEMMA KeyTypes == ASSUME Types, music_key_event_opr PROVE Types'
<1>1. /\ task = "music" /\ Take(Plays) /\ Played(queue[1], Tail(queue)) /\ world' = world
      /\ task' = task /\ starting' = starting
  BY DEF music_key_event_opr
<1>2. /\ scan = "none" /\ queue # << >> /\ queue[1].op \in Plays /\ Tail(queue) \in Seq(Messages)
  BY <1>1, TakeType
<1>3. backward' \in BOOLEAN
  <2>1. backward \in BOOLEAN
    BY DEF Types, MiscOK
  <2>2. backward' = IF queue[1].op \in {"NEXT", "PREV"} THEN queue[1].op = "PREV" ELSE backward
    BY DEF music_key_event_opr
  <2> QED BY <2>1, <2>2
<1>4. starting' \in BOOLEAN
  BY <1>1 DEF Types, PlayerOK
<1>5. Handled(Tail(queue))
  BY <1>1, <1>2, <1>3, <1>4, PlayedType DEF Types
<1> QED BY <1>1, <1>2, <1>5, HandledTypes

LEMMA QuitTypes == ASSUME Types, MusicQuit PROVE Types'
<1>1. /\ Take({"QUIT", "MODE"}) /\ task' = "other" /\ starting' = FALSE
      /\ queue' = KeysCleared(Tail(queue)) /\ dev' = None /\ fsn' = NoScan
      /\ dec' = "none" /\ file' = FALSE /\ broke' = FALSE /\ file_err_counter' = 0 /\ backward' = FALSE
      /\ bp' = BreakPointSaved /\ world' = world /\ nodes' = nodes /\ wrapped' = wrapped /\ scan' = scan
  BY DEF MusicQuit, music_task_close, music_player_stop
<1>2. /\ scan = "none" /\ queue # << >> /\ Tail(queue) \in Seq(Messages)
  BY <1>1, TakeType
<1>3. NodesOK'
  BY <1>1, MarksType DEF Types, nodes
<1>4. PlayerOK'
  BY <1>1, <1>2 DEF PlayerOK
<1>5. MiscOK'
  BY <1>1, BreakPointType DEF MiscOK, Types
<1>6. queue' \in Seq(Messages) /\ Len(queue') <= Len(Tail(queue))
  BY <1>1, <1>2, KeysClearedType
<1>7. ScanPending' = 0
  BY <1>1, <1>2 DEF ScanPending
<1>8. Handled(Tail(queue))
  BY <1>2, <1>3, <1>4, <1>5, <1>6, <1>7 DEF Handled
<1> QED BY <1>1, <1>2, <1>8, HandledTypes

LEMMA OutTypes == ASSUME Types, DeviceOut PROVE Types'
<1> DEFINE d == queue[1].dev
           mine == task = "music" /\ dev = d /\ dev \in mounted
<1>1. /\ Take({"out"}) /\ dev_manager_del(d) /\ dev' = NodeFreed(d)
      /\ \/ /\ mine /\ dec' = "none" /\ file' = FALSE /\ fsn' = NoScan /\ bp' = BreakPointSaved
            /\ queue' = Append(Tail(queue), Key("START"))
         \/ UNCHANGED <<dec, file, fsn, bp>> /\ queue' = Tail(queue)
      /\ UNCHANGED <<world, task, starting, wrapped, scan, control>>
  BY DEF DeviceOut, music_player_stop
<1>2. /\ scan = "none" /\ queue # << >> /\ Tail(queue) \in Seq(Messages)
  BY <1>1, TakeType
<1>3. NodesOK'
  BY <1>1, DelType DEF Types
<1>4. broke' = broke /\ file_err_counter' = file_err_counter /\ backward' = backward
  BY <1>1 DEF control
<1>5. MiscOK'
  BY <1>1, <1>4, BreakPointType DEF MiscOK, Types
<1>6. PlayerOK'
  <2>1. /\ dev' \in Devices \union {None, Gone} /\ (fsn' = NoScan \/ Scanned(fsn'))
        /\ starting' = starting /\ task' = task /\ scan' = scan
    BY <1>1 DEF PlayerOK, NodeFreed, Types
  <2>2. dec' \in {"none", "play", "ended"} /\ file' \in BOOLEAN
        /\ (dec' # "none" => file' /\ fsn' # NoScan /\ task' = "music")
        /\ (scan' # "none" => dec' = "none")
    <3>1. scan' = "none" /\ task' = task
      BY <1>1, <1>2
    <3>2. CASE dec' = "none" /\ file' = FALSE
      BY <3>1, <3>2
    <3>3. CASE UNCHANGED <<dec, file, fsn>>
      BY <3>1, <3>3 DEF PlayerOK, Types
    <3> QED BY <1>1, <3>2, <3>3
  <2> QED BY <1>2, <2>1, <2>2 DEF PlayerOK, Types
<1>7. queue' \in Seq(Messages) /\ Len(queue') <= Len(Tail(queue)) + 1
  <2>1. Key("START") \in Messages
    BY KeyIsMessage DEF OwnKeys
  <2> QED BY <1>1, <1>2, <2>1, AppendType
<1>8. ScanPending' = 0
  BY <1>1, <1>2 DEF ScanPending
<1>9. Handled(Tail(queue))
  BY <1>2, <1>3, <1>5, <1>6, <1>7, <1>8 DEF Handled
<1> QED BY <1>1, <1>2, <1>9, HandledTypes

LEMMA InTypes == ASSUME Types, DeviceIn PROVE Types'
<1>1. /\ task = "music" /\ Take({"in"})
      /\ bp' = BreakPointSaved /\ dec' = "none" /\ file' = FALSE /\ fsn' = NoScan
      /\ queue' = Append(Tail(queue), Key("START")) /\ dev_manager_add(queue[1].dev)
      /\ dev' \in (IF list' = list THEN {dev} ELSE NodeMade(queue[1].dev))
      /\ UNCHANGED <<world, task, starting, wrapped, scan, control>>
  BY DEF DeviceIn, music_player_stop
<1>2. /\ scan = "none" /\ queue # << >> /\ Tail(queue) \in Seq(Messages)
      /\ queue[1] \in Messages /\ queue[1].op = "in"
  BY <1>1, TakeType
<1>3. queue[1].dev \in Devices
  BY <1>2, MessageType DEF DeviceEvents
<1>4. NodesOK'
  BY <1>1, <1>3, AddType DEF Types
<1>5. broke' = broke /\ file_err_counter' = file_err_counter /\ backward' = backward
  BY <1>1 DEF control
<1>6. MiscOK'
  BY <1>1, <1>5, BreakPointType DEF MiscOK, Types
<1>7. PlayerOK'
  <2>1. dev' \in Devices \union {None, Gone} /\ starting' = starting /\ task' = task /\ scan' = scan
    BY <1>1, <1>3 DEF PlayerOK, NodeMade, Types
  <2> QED BY <1>1, <1>2, <2>1 DEF PlayerOK, Types
<1>8. queue' \in Seq(Messages) /\ Len(queue') <= Len(Tail(queue)) + 1
  <2>1. Key("START") \in Messages
    BY KeyIsMessage DEF OwnKeys
  <2> QED BY <1>1, <1>2, <2>1, AppendType
<1>9. ScanPending' = 0
  BY <1>1, <1>2 DEF ScanPending
<1>10. Handled(Tail(queue))
  BY <1>2, <1>4, <1>6, <1>7, <1>8, <1>9 DEF Handled
<1> QED BY <1>1, <1>2, <1>10, HandledTypes

LEMMA MusicStarts ==
  ASSUME NEW q \in Seq(Messages), music_task_start(q)
  PROVE  /\ task' = "music" /\ starting' = TRUE /\ queue' \in Seq(Messages) /\ Len(queue') <= Len(q)
BY KeysClearedType DEF music_task_start

(* The other tasks leave the player as it is.                               *)
LEMMA OtherTypes ==
  ASSUME Types, task = "other", scan = "none", queue # << >>,
         world' = world, player' = player, control' = control, NodesOK',
         music_task_start(Tail(queue)) \/ (queue' = Tail(queue) /\ UNCHANGED <<task, starting>>)
  PROVE  Types'
<1>1. UNCHANGED <<dev, fsn, file, dec, wrapped, scan, bp, broke, file_err_counter, backward>>
  BY DEF player, control
<1>2. Tail(queue) \in Seq(Messages) /\ Len(Tail(queue)) = Len(queue) - 1 /\ Len(queue) \in Nat
  BY TailType DEF Types, QueueOK
<1>3. /\ task' \in {"music", "other"} /\ starting' \in BOOLEAN /\ (starting' => task' = "music")
      /\ queue' \in Seq(Messages) /\ Len(queue') <= Len(Tail(queue))
  <2>1. CASE music_task_start(Tail(queue))
    BY <1>2, <2>1, MusicStarts
  <2>2. CASE queue' = Tail(queue) /\ UNCHANGED <<task, starting>>
    BY <1>2, <2>2 DEF Types, PlayerOK
  <2> QED BY <2>1, <2>2
<1>4. dec = "none" /\ dec' = "none" /\ scan' = "none"
  BY <1>1 DEF Types, PlayerOK
<1>5. PlayerOK'
  BY <1>1, <1>3, <1>4 DEF Types, PlayerOK
<1>6. MiscOK'
  BY <1>1 DEF Types, MiscOK
<1>7. Handled(Tail(queue))
  <2>1. ScanPending' = 0
    BY <1>4 DEF ScanPending
  <2> QED BY <1>2, <1>3, <1>5, <1>6, <2>1 DEF Handled
<1> QED BY <1>7, HandledTypes

LEMMA OtherDeviceInTypes == ASSUME Types, OtherDeviceIn PROVE Types'
<1>1. /\ task = "other" /\ Take({"in"}) /\ dev_manager_add(queue[1].dev)
      /\ UNCHANGED <<world, player, control>>
      /\ music_task_start(Tail(queue)) \/ (queue' = Tail(queue) /\ UNCHANGED <<task, starting>>)
  BY DEF OtherDeviceIn
<1>2. scan = "none" /\ queue # << >> /\ queue[1] \in Messages /\ queue[1].op = "in"
  BY <1>1, TakeType
<1>3. queue[1].dev \in Devices
  BY <1>2, MessageType DEF DeviceEvents
<1>4. NodesOK'
  BY <1>1, <1>3, AddType DEF Types
<1> QED BY <1>1, <1>2, <1>4, OtherTypes

LEMMA OtherKeyTypes == ASSUME Types, OtherKey PROVE Types'
<1>1. /\ task = "other" /\ Take(Plays \union {"QUIT", "MODE"})
      /\ UNCHANGED <<world, nodes, player, control>>
      /\ music_task_start(Tail(queue)) \/ (queue' = Tail(queue) /\ UNCHANGED <<task, starting>>)
  BY DEF OtherKey
<1>2. scan = "none" /\ queue # << >>
  BY <1>1, TakeType
<1>3. NodesOK'
  BY <1>1, MarksType DEF Types, nodes
<1> QED BY <1>1, <1>2, <1>3, OtherTypes

LEMMA PostType ==
  ASSUME QueueOK, NEW m \in Messages, Post(m), Unnoticed' = Unnoticed, scan' = scan
  PROVE  QueueOK'
<1> DEFINE u == Cardinality(Unnoticed)
<1>1. u \in Nat
  BY UnnoticedCount
<1>2. Room /\ queue' = Append(queue, m)
  BY DEF Post
<1>3. queue' \in Seq(Messages) /\ Len(queue') = Len(queue) + 1 /\ Len(queue) \in Nat
  BY <1>2, AppendType DEF QueueOK
<1>4. ScanPending' = ScanPending /\ ScanPending \in Nat /\ Cardinality(Unnoticed') = u
  BY DEF ScanPending
<1> HIDE DEF u
<1>5. (Len(queue) + u) + ScanPending < MaxQueue
  BY <1>2 DEF Room, ScanPending, u
<1>6. (Len(queue') + u) + ScanPending' <= MaxQueue
  BY <1>1, <1>3, <1>4, <1>5, QueueAssumption
<1> QED BY <1>3, <1>4, <1>6 DEF QueueOK

LEMMA ToneEndTypes == ASSUME Types, ToneEnd PROVE Types'
<1>1. /\ starting /\ starting' = FALSE /\ Post(Key("START"))
      /\ UNCHANGED <<world, nodes, task, player, control>>
  BY DEF ToneEnd
<1>2. UNCHANGED <<dev, fsn, file, dec, wrapped, scan, bp, broke, file_err_counter, backward>>
  BY <1>1 DEF player, control
<1>3. WorldOK' /\ Unnoticed' = Unnoticed
  BY <1>1, WorldKept DEF Types
<1>4. NodesOK'
  BY <1>1, MarksType DEF Types, nodes
<1>5. QueueOK'
  BY <1>1, <1>2, <1>3, PostType, KeyIsMessage DEF Types, OwnKeys
<1>6. PlayerOK'
  BY <1>1, <1>2 DEF Types, PlayerOK
<1>7. MiscOK'
  BY <1>2 DEF Types, MiscOK
<1> QED BY <1>3, <1>4, <1>5, <1>6, <1>7 DEF Types

LEMMA EndsTypes == ASSUME Types, NEW err \in BOOLEAN, Ends(err) PROVE Types'
<1>1. /\ dec = "play" /\ dec' = "ended" /\ Post(End(err))
      /\ UNCHANGED <<world, nodes, task, starting, dev, fsn, file, wrapped, scan, bp, control>>
  BY DEF Ends
<1>2. UNCHANGED <<broke, file_err_counter, backward>>
  BY <1>1 DEF control
<1>3. WorldOK' /\ Unnoticed' = Unnoticed
  BY <1>1, WorldKept DEF Types
<1>4. NodesOK'
  BY <1>1, MarksType DEF Types, nodes
<1>5. QueueOK'
  BY <1>1, <1>2, <1>3, PostType, KeyIsMessage DEF Types
<1>6. PlayerOK'
  BY <1>1 DEF Types, PlayerOK
<1>7. MiscOK'
  BY <1>1, <1>2 DEF Types, MiscOK
<1> QED BY <1>3, <1>4, <1>5, <1>6, <1>7 DEF Types

LEMMA PressTypes == ASSUME Types, NEW k \in UserKeys, Press(k) PROVE Types'
<1>1. Post(Key(k)) /\ UNCHANGED <<world, nodes, task, starting, player, control>>
  BY DEF Press
<1>2. UNCHANGED <<dev, fsn, file, dec, wrapped, scan, bp, broke, file_err_counter, backward>>
  BY <1>1 DEF player, control
<1>3. WorldOK' /\ Unnoticed' = Unnoticed
  BY <1>1, WorldKept DEF Types
<1>4. NodesOK'
  BY <1>1, MarksType DEF Types, nodes
<1>5. QueueOK'
  BY <1>1, <1>2, <1>3, PostType, KeyIsMessage DEF Types
<1>6. PlayerOK'
  BY <1>1, <1>2 DEF Types, PlayerOK
<1>7. MiscOK'
  BY <1>2 DEF Types, MiscOK
<1> QED BY <1>3, <1>4, <1>5, <1>6, <1>7 DEF Types

LEMMA BreakTypes == ASSUME Types, music_player_scandisk_break PROVE Types'
<1>1. /\ queue # << >> /\ broke' = Breaks(queue[1])
      /\ queue' = Append(Tail(queue), queue[1]) \/ queue' = Tail(queue)
      /\ dev_manager_del(queue[1].dev) \/ UNCHANGED nodes
      /\ UNCHANGED <<world, task, starting, player, file_err_counter, backward>>
  BY DEF music_player_scandisk_break
<1>2. UNCHANGED <<dev, fsn, file, dec, wrapped, scan, bp, file_err_counter, backward>>
  BY <1>1 DEF player
<1>3. WorldOK' /\ Unnoticed' = Unnoticed
  BY <1>1, WorldKept DEF Types
<1>4. NodesOK'
  <2>1. CASE dev_manager_del(queue[1].dev)
    BY <2>1, DelType DEF Types
  <2>2. CASE UNCHANGED nodes
    BY <2>2, MarksType DEF Types, nodes
  <2> QED BY <1>1, <2>1, <2>2
<1>5. QueueOK'
  <2>1. /\ Tail(queue) \in Seq(Messages) /\ Len(Tail(queue)) = Len(queue) - 1 /\ Len(queue) \in Nat
        /\ queue[1] \in Messages
    BY <1>1, TailType DEF Types, QueueOK
  <2>2. queue' \in Seq(Messages) /\ Len(queue') <= Len(queue)
    BY <1>1, <2>1, AppendType
  <2>3. ScanPending' = ScanPending /\ ScanPending \in Nat
    BY <1>2 DEF ScanPending
  <2>4. Len(queue') + ScanPending' <= Len(queue) + ScanPending
    BY <2>1, <2>2, <2>3
  <2> QED BY <1>3, <2>2, <2>4, RoomKept DEF Types
<1>6. PlayerOK'
  BY <1>1, <1>2 DEF Types, PlayerOK
<1>7. MiscOK'
  <2>1. broke' \in BOOLEAN
    BY <1>1 DEF Breaks
  <2> QED BY <1>1, <1>2, <2>1 DEF Types, MiscOK
<1> QED BY <1>3, <1>4, <1>5, <1>6, <1>7 DEF Types

LEMMA ScanEndTypes == ASSUME Types, ScanEnd PROVE Types'
<1> DEFINE found == ~ broke /\ dev \in live /\ card[dev] # << >>
           fs == IF found THEN [files |-> card[dev], cur |-> 0] ELSE NoScan
<1>1. /\ scan # "none" /\ scan' = "none" /\ UNCHANGED <<world, task, starting, dev, backward>>
      /\ \/ fsn' = fs /\ UNCHANGED <<list, live>> /\ Fails("PARM", queue)
         \/ PlayFrom(fs, scan, queue)
  BY DEF ScanEnd
<1>2. fs = NoScan \/ Scanned(fs)
  <2>1. found => dev \in Devices
    BY ToSetOf DEF Types, NodesOK
  <2>2. found => card[dev] \in Cards /\ card[dev] # << >>
    BY <2>1 DEF Types, WorldOK
  <2> QED BY <2>2, CardFiles
<1> HIDE DEF fs
<1>3. /\ queue \in Seq(Messages) /\ scan \in Selections /\ task' = "music" /\ starting' \in BOOLEAN
      /\ backward' \in BOOLEAN /\ dev' \in Devices \union {None, Gone}
  BY <1>1 DEF Types, QueueOK, PlayerOK, MiscOK, Selections
<1>4. Handled(queue)
  <2>1. CASE fsn' = fs /\ UNCHANGED <<list, live>> /\ Fails("PARM", queue)
    BY <1>1, <1>2, <1>3, <2>1, FailsType DEF Types
  <2>2. CASE PlayFrom(fs, scan, queue)
    BY <1>1, <1>2, <1>3, <2>2, PlayFromType DEF Types
  <2> QED BY <1>1, <2>1, <2>2
<1>5. WorldOK' /\ Unnoticed' = Unnoticed
  BY <1>1, WorldKept DEF Types
<1>6. ScanPending = 1
  BY <1>1 DEF ScanPending
<1>7. QueueOK'
  BY <1>4, <1>5, <1>6, RoomKept DEF Types, Handled
<1> QED BY <1>4, <1>5, <1>7 DEF Types, Handled

(* A card that comes or goes is one more for the driver to notice.          *)
LEMMA MovedType ==
  ASSUME QueueOK, Room, NEW d \in Devices, Unnoticed' = Unnoticed \union {d},
         queue' = queue, scan' = scan
  PROVE  QueueOK'
<1> DEFINE u == Cardinality(Unnoticed)
<1>1. u \in Nat /\ IsFiniteSet(Unnoticed)
  BY UnnoticedCount
<1>2. Cardinality(Unnoticed \union {d}) <= u + 1 /\ Cardinality(Unnoticed \union {d}) \in Nat
  <2>1. Cardinality(Unnoticed \union {d}) = IF d \in Unnoticed THEN u ELSE u + 1
    BY <1>1, FS_AddElement
  <2> QED BY <1>1, <2>1
<1>3. Len(queue) \in Nat /\ ScanPending \in Nat /\ ScanPending' = ScanPending
  BY DEF QueueOK, ScanPending
<1>4. (Len(queue) + u) + ScanPending < MaxQueue
  BY DEF Room, ScanPending
<1> DEFINE v == Cardinality(Unnoticed \union {d})
<1> HIDE DEF u, v
<1>5. (Len(queue) + v) + ScanPending <= MaxQueue
  BY <1>1, <1>2, <1>3, <1>4, QueueAssumption DEF v
<1>6. (Len(queue') + Cardinality(Unnoticed')) + ScanPending' <= MaxQueue
  BY <1>3, <1>5 DEF v
<1> QED BY <1>6 DEF QueueOK

LEMMA PutInTypes == ASSUME Types, NEW d \in Devices, PutIn(d) PROVE Types'
<1>1. /\ d \notin inserted \union seen /\ Room /\ inserted' = inserted \union {d}
      /\ \E c \in Cards : card' = [card EXCEPT ![d] = c]
      /\ \E b \in {"mine", "foreign", bp[d]} : bp' = [bp EXCEPT ![d] = b]
      /\ UNCHANGED <<env, seen, nodes, queue, task, starting, dev, fsn, file, dec, wrapped, scan, control>>
  BY DEF PutIn
<1>2. UNCHANGED <<broke, file_err_counter, backward>>
  BY <1>1 DEF control
<1>3. WorldOK'
  BY <1>1 DEF Types, WorldOK
<1>4. Unnoticed' = Unnoticed \union {d}
  BY <1>1 DEF Unnoticed
<1>5. QueueOK'
  BY <1>1, <1>4, MovedType DEF Types
<1>6. NodesOK'
  BY <1>1, MarksType DEF Types, nodes
<1>7. PlayerOK'
  BY <1>1 DEF Types, PlayerOK
<1>8. MiscOK'
  BY <1>1, <1>2 DEF Types, MiscOK
<1> QED BY <1>3, <1>5, <1>6, <1>7, <1>8 DEF Types

LEMMA PullOutTypes == ASSUME Types, NEW d \in Devices, PullOut(d) PROVE Types'
<1>1. /\ d \in inserted \intersect seen /\ Room /\ inserted' = inserted \ {d} /\ live' = live \ {d}
      /\ UNCHANGED <<env, card, seen, list, mounted, valid, recent, queue, task, starting, player, control>>
  BY DEF PullOut
<1>2. UNCHANGED <<dev, fsn, file, dec, wrapped, scan, bp, broke, file_err_counter, backward>>
  BY <1>1 DEF control, player
<1>3. WorldOK'
  BY <1>1 DEF Types, WorldOK
<1>4. Unnoticed' = Unnoticed \union {d}
  BY <1>1 DEF Unnoticed
<1>5. QueueOK'
  BY <1>1, <1>2, <1>4, MovedType DEF Types
<1>6. NodesOK'
  BY <1>1 DEF Types, NodesOK
<1>7. PlayerOK'
  BY <1>1, <1>2 DEF Types, PlayerOK
<1>8. MiscOK'
  BY <1>2 DEF Types, MiscOK
<1> QED BY <1>3, <1>5, <1>6, <1>7, <1>8 DEF Types

LEMMA DetectTypes == ASSUME Types, NEW d \in Devices, Detect(d) PROVE Types'
<1>1. /\ d \in Unnoticed
      /\ \/ d \in inserted /\ seen' = seen \union {d} /\ queue' = Append(queue, Arrives(d))
         \/ d \notin inserted /\ seen' = seen \ {d} /\ queue' = Append(queue, Leaves(d))
      /\ UNCHANGED <<env, inserted, card, nodes, task, starting, player, control>>
  BY DEF Detect
<1>2. UNCHANGED <<dev, fsn, file, dec, wrapped, scan, bp, broke, file_err_counter, backward>>
  BY <1>1 DEF control, player
<1>3. WorldOK'
  BY <1>1 DEF Types, WorldOK
<1>4. Unnoticed' = Unnoticed \ {d}
  BY <1>1 DEF Unnoticed
<1>5. QueueOK'
  <2> DEFINE u == Cardinality(Unnoticed)
  <2>1. u \in Nat /\ Cardinality(Unnoticed') = u - 1
    BY <1>1, <1>4, UnnoticedCount, FS_RemoveElement
  <2>2. queue' \in Seq(Messages) /\ Len(queue') = Len(queue) + 1 /\ Len(queue) \in Nat
    BY <1>1, KeyIsMessage, AppendType DEF Types, QueueOK
  <2>3. ScanPending' = ScanPending /\ ScanPending \in Nat
    BY <1>2 DEF ScanPending
  <2> HIDE DEF u
  <2>4. (Len(queue) + u) + ScanPending <= MaxQueue
    BY DEF Types, QueueOK, u
  <2>5. (Len(queue') + Cardinality(Unnoticed')) + ScanPending' <= MaxQueue
    BY <2>1, <2>2, <2>3, <2>4, QueueAssumption
  <2> QED BY <2>2, <2>5 DEF QueueOK
<1>6. NodesOK'
  BY <1>1, MarksType DEF Types, nodes
<1>7. PlayerOK'
  BY <1>1, <1>2 DEF Types, PlayerOK
<1>8. MiscOK'
  BY <1>2 DEF Types, MiscOK
<1> QED BY <1>3, <1>5, <1>6, <1>7, <1>8 DEF Types

LEMMA StutterTypes == ASSUME Types, UNCHANGED vars PROVE Types'
<1>1. UNCHANGED <<world, nodes, queue, task, starting, player, control>>
  BY DEF vars
<1>2. UNCHANGED <<dev, fsn, file, dec, wrapped, scan, bp, broke, file_err_counter, backward>>
  BY <1>1 DEF control, player
<1>3. WorldOK' /\ Unnoticed' = Unnoticed
  BY <1>1, WorldKept DEF Types
<1>4. NodesOK'
  BY <1>1, MarksType DEF Types, nodes
<1>5. QueueOK'
  BY <1>1, <1>2, <1>3 DEF Types, QueueOK, ScanPending
<1>6. PlayerOK'
  BY <1>1, <1>2 DEF Types, PlayerOK
<1>7. MiscOK'
  BY <1>2 DEF Types, MiscOK
<1> QED BY <1>3, <1>4, <1>5, <1>6, <1>7 DEF Types

LEMMA StepTypes == ASSUME Types, [Next]_vars PROVE Types'
<1>1. CASE music_key_event_opr BY <1>1, KeyTypes
<1>2. CASE MusicQuit BY <1>2, QuitTypes
<1>3. CASE DeviceOut BY <1>3, OutTypes
<1>4. CASE DeviceIn BY <1>4, InTypes
<1>5. CASE OtherDeviceIn BY <1>5, OtherDeviceInTypes
<1>6. CASE OtherKey BY <1>6, OtherKeyTypes
<1>7. CASE ToneEnd BY <1>7, ToneEndTypes
<1>8. CASE music_player_scandisk_break BY <1>8, BreakTypes
<1>9. CASE ScanEnd BY <1>9, ScanEndTypes
<1>10. CASE FileEnds BY <1>10, EndsTypes DEF FileEnds
<1>11. CASE ReadFails BY <1>11, EndsTypes DEF ReadFails
<1>12. ASSUME NEW d \in Used, PutIn(d) \/ PullOut(d) \/ Detect(d) PROVE Types'
  <2>1. d \in Devices
    BY DeviceAssumption DEF Used
  <2> QED BY <1>12, <2>1, PutInTypes, PullOutTypes, DetectTypes
<1>13. ASSUME NEW k \in UserKeys, Press(k) PROVE Types'
  BY <1>13, PressTypes
<1>14. CASE UNCHANGED vars BY <1>14, StutterTypes
<1> QED
  BY <1>1, <1>2, <1>3, <1>4, <1>5, <1>6, <1>7, <1>8, <1>9, <1>10, <1>11, <1>12, <1>13, <1>14
  DEF Next

(* The states of the music task, its player, the device list and the queue  *)
(* have their types, for any set of devices and of cards: no node is listed *)
(* twice, a decoder that plays has an open file of a scan, and the queue    *)
(* always has room for what is posted.                                      *)
THEOREM PlayerTypes == Spec => []TypeOK
<1>1. Spec => []Types
  BY InitTypes, StepTypes, PTL DEF Spec
<1> QED BY <1>1, TypesImplyTypeOK, PTL

-----------------------------------------------------------------------------
(* A good device is kept.                                                   *)
(*                                                                          *)
(* With at most one disturbance there is one device, which is not taken     *)
(* out.  Before its card is noticed the music task cannot begin (Waiting).  *)
(* Afterwards (Present) the task is started by one START for each time it   *)
(* is entered, and while the card is good and has not failed to be read     *)
(* (Holding), its mark is kept because a scan fails only when it was broken *)
(* to leave the task, and two files are never tried in a row that cannot be *)
(* decoded, since the next one chosen is another one.                       *)

Says(ops) == {m \in Messages : m.op \in ops /\ (m.op = "in" => m.dev = Main)}
Once(q, op) == \A i, j \in 1..Len(q) : q[i].op = op /\ q[j].op = op => i = j

MusicOps == {"NEXT", "PREV", "MODE", "START", "QUIT", "AUTO_NEXT_DEV", "END"}

Heard(q) ==
  /\ q \in Seq(Says(MusicOps)) /\ Once(q, "START")
  /\ "mode" \notin env => q \in Seq(Says(MusicOps \ {"MODE"}))
Started(q) == q \in Seq(Says(MusicOps \ {"START"}))

GoodCard == FilesOf(Main, "good") # {} /\ Cardinality(FilesOf(Main, "bad")) <= 1

Waiting ==
  /\ list = << >> /\ task = "other" /\ dev = None /\ fsn = NoScan /\ file_err_counter = 0 /\ ~ broke
  /\ queue \in Seq(Says({"in", "MODE"})) /\ Once(queue, "in")
  /\ "mode" \notin env => queue \in Seq(Says({"in"}))
  /\ Main \notin seen => queue \in Seq(Says({"MODE"}))

OneFailure ==
  \/ file_err_counter = 0
  \/ /\ file_err_counter = 1
     /\ fsn # NoScan /\ fsn.cur # 0 /\ fsn.files[fsn.cur] = "bad"

Holding ==
  /\ Main \in valid /\ OneFailure
  /\ dev = Main /\ fsn = NoScan /\ scan = "none" => "mode" \in env
  /\ "mode" \in env /\ fsn = NoScan => queue \in Seq(Says({"MODE", "START"}))

Present ==
  /\ list = <<Main>> /\ live = {Main} /\ Main \in seen /\ dev \in {None, Main}
  /\ Heard(queue) /\ (starting \/ dev = Main => Started(queue))
  /\ dev = None => fsn = NoScan /\ file_err_counter = 0 /\ scan = "none" /\ dec = "none"
  /\ dev = Main => task = "music" /\ ~ starting
  /\ fsn # NoScan => fsn.files = card[Main]
  /\ scan # "none" => fsn = NoScan
  /\ "mode" \notin env => ~ broke
  /\ GoodCard /\ Main \in mounted => Holding

Alone ==
  /\ inserted \subseteq {Main} /\ seen \subseteq inserted
  /\ \A d \in Devices : bp[d] # "foreign"

Steady == OneDisturbance => Alone /\ (Waiting \/ Present)

-----------------------------------------------------------------------------
LEMMA SaysType ==
  ASSUME NEW O, NEW q \in Seq(Says(O))
  PROVE  /\ q \in Seq(Messages) /\ Len(q) \in Nat
         /\ \A i \in 1..Len(q) : q[i] \in Messages /\ q[i].op \in O /\ (q[i].op = "in" => q[i].dev = Main)
         /\ q # << >> => /\ Tail(q) \in Seq(Says(O)) /\ q[1].op \in O /\ q[1] \in Messages
                         /\ q[1].op = "in" => q[1].dev = Main
<1>1. Says(O) \subseteq Messages
  BY DEF Says
<1>2. Len(q) \in Nat /\ \A i \in 1..Len(q) : q[i] \in Says(O)
  OBVIOUS
<1>3. q \in Seq(Messages)
  BY <1>1
<1>4. q # << >> => Tail(q) \in Seq(Says(O)) /\ q[1] \in Says(O)
  BY TailType
<1> QED BY <1>2, <1>3, <1>4 DEF Says

LEMMA SaysSubset ==
  ASSUME NEW O, NEW P, O \subseteq P, NEW q \in Seq(Says(O))
  PROVE  q \in Seq(Says(P))
<1>1. Says(O) \subseteq Says(P)
  BY DEF Says
<1> QED BY <1>1

LEMMA SaysEach ==
  ASSUME NEW O, NEW P, NEW q \in Seq(Says(O)), \A i \in 1..Len(q) : q[i].op \in P
  PROVE  q \in Seq(Says(P))
<1>1. \A i \in 1..Len(q) : q[i] \in Says(P)
  <2>1. \A i \in 1..Len(q) : q[i] \in Says(O)
    OBVIOUS
  <2> QED BY <2>1 DEF Says
<1>2. q \in [1..Len(q) -> Says(P)] /\ Len(q) \in Nat
  BY <1>1
<1> QED BY <1>2

LEMMA SaysAppend ==
  ASSUME NEW O, NEW q \in Seq(Says(O)), NEW m \in Messages, m.op \in O, m.op # "in" \/ m.dev = Main
  PROVE  Append(q, m) \in Seq(Says(O))
<1>1. m \in Says(O)
  BY DEF Says
<1> QED BY <1>1

LEMMA SaysOlder ==
  ASSUME NEW O, NEW q \in Seq(Says(O))
  PROVE  Older(q) \in Seq(Says(O))
<1>1. DOMAIN q = 1..Len(q) /\ Len(q) \in Nat
  OBVIOUS
<1>2. \A i \in 1..Len(q) : [q[i] EXCEPT !.fresh = FALSE] \in Says(O)
  <2>1. \A m \in Says(O) : [m EXCEPT !.fresh = FALSE] \in Says(O)
    <3> SUFFICES ASSUME NEW m \in Says(O) PROVE [m EXCEPT !.fresh = FALSE] \in Says(O)
      OBVIOUS
    <3>1. m \in Messages /\ [m EXCEPT !.fresh = FALSE] \in Messages
      BY MessageType DEF Says
    <3>2. [m EXCEPT !.fresh = FALSE].op = m.op /\ [m EXCEPT !.fresh = FALSE].dev = m.dev
      OBVIOUS
    <3> QED BY <3>1, <3>2 DEF Says
  <2> QED BY <2>1
<1>3. Older(q) = [i \in 1..Len(q) |-> [q[i] EXCEPT !.fresh = FALSE]]
  BY <1>1 DEF Older
<1>4. Older(q) \in [1..Len(q) -> Says(O)]
  BY <1>2, <1>3
<1> QED BY <1>1, <1>4

LEMMA OnceTail ==
  ASSUME NEW q \in Seq(Messages), q # << >>, NEW op, Once(q, op)
  PROVE  /\ Once(Tail(q), op)
         /\ q[1].op = op => \A i \in 1..Len(Tail(q)) : Tail(q)[i].op # op
<1>1. /\ Len(q) \in Nat /\ Len(q) >= 1 /\ Len(Tail(q)) = Len(q) - 1
      /\ \A i \in 1..Len(Tail(q)) : i + 1 \in 1..Len(q) /\ Tail(q)[i] = q[i + 1]
  BY TailType
<1>2. Once(Tail(q), op)
  <2> SUFFICES ASSUME NEW i \in 1..Len(Tail(q)), NEW j \in 1..Len(Tail(q)),
                      Tail(q)[i].op = op, Tail(q)[j].op = op
               PROVE  i = j
    BY DEF Once
  <2>1. i + 1 = j + 1
    BY <1>1 DEF Once
  <2> QED BY <1>1, <2>1
<1>3. ASSUME q[1].op = op, NEW i \in 1..Len(Tail(q)), Tail(q)[i].op = op PROVE FALSE
  <2>1. q[i + 1].op = op /\ i + 1 \in 1..Len(q) /\ 1 \in 1..Len(q)
    BY <1>1, <1>3
  <2>2. i + 1 = 1
    BY <1>3, <2>1 DEF Once
  <2> QED BY <1>1, <2>2
<1> QED BY <1>2, <1>3

LEMMA OnceAppend ==
  ASSUME NEW q \in Seq(Messages), NEW m \in Messages, NEW op, Once(q, op),
         m.op = op => \A i \in 1..Len(q) : q[i].op # op
  PROVE  Once(Append(q, m), op)
<1>1. /\ Len(Append(q, m)) = Len(q) + 1 /\ Len(q) \in Nat
      /\ \A i \in 1..(Len(q) + 1) : Append(q, m)[i] = IF i <= Len(q) THEN q[i] ELSE m
  OBVIOUS
<1> DEFINE r == Append(q, m)
<1> HIDE DEF r
<1>2. ASSUME NEW i \in 1..Len(r), NEW j \in 1..Len(r), r[i].op = op, r[j].op = op PROVE i = j
  <2>1. Len(r) = Len(q) + 1 /\ \A k \in 1..(Len(q) + 1) : r[k] = IF k <= Len(q) THEN q[k] ELSE m
    BY <1>1 DEF r
  <2>2. CASE m.op = op
    BY <1>1, <1>2, <2>1, <2>2
  <2>3. CASE m.op # op
    BY <1>1, <1>2, <2>1, <2>3 DEF Once
  <2> QED BY <2>2, <2>3
<1> QED BY <1>2 DEF Once, r

LEMMA OnceOlder ==
  ASSUME NEW q \in Seq(Messages), NEW op, Once(q, op)
  PROVE  Once(Older(q), op)
<1>1. DOMAIN q = 1..Len(q) /\ Len(q) \in Nat /\ Len(Older(q)) = Len(q)
  BY OlderType
<1>2. \A i \in 1..Len(q) : Older(q)[i].op = q[i].op
  <2>1. \A m \in Messages : [m EXCEPT !.fresh = FALSE].op = m.op
    OBVIOUS
  <2>2. \A i \in 1..Len(q) : Older(q)[i] = [q[i] EXCEPT !.fresh = FALSE] /\ q[i] \in Messages
    BY <1>1 DEF Older
  <2> QED BY <2>1, <2>2
<1> QED BY <1>1, <1>2 DEF Once

LEMMA KeyOp ==
  \A op : Key(op).op = op /\ Key(op).dev = None
BY DEF Key

LEMMA HeardType ==
  ASSUME NEW q, Heard(q)
  PROVE  q \in Seq(Messages)
BY SaysType DEF Heard

LEMMA HeardTail ==
  ASSUME NEW q, Heard(q), q # << >>
  PROVE  /\ Heard(Tail(q)) /\ q[1].op \in MusicOps /\ Tail(q) \in Seq(Messages)
         /\ q[1].op = "START" => Started(Tail(q))
         /\ "mode" \notin env => q[1].op # "MODE"
<1>1. q \in Seq(Says(MusicOps)) /\ q \in Seq(Messages) /\ Once(q, "START")
  BY SaysType DEF Heard
<1>2. /\ Tail(q) \in Seq(Says(MusicOps)) /\ q[1].op \in MusicOps
      /\ "mode" \notin env => Tail(q) \in Seq(Says(MusicOps \ {"MODE"})) /\ q[1].op # "MODE"
  <2>1. Tail(q) \in Seq(Says(MusicOps)) /\ q[1].op \in MusicOps
    BY <1>1, SaysType
  <2>2. ASSUME "mode" \notin env
        PROVE  Tail(q) \in Seq(Says(MusicOps \ {"MODE"})) /\ q[1].op # "MODE"
    <3>1. q \in Seq(Says(MusicOps \ {"MODE"}))
      BY <2>2 DEF Heard
    <3>2. Tail(q) \in Seq(Says(MusicOps \ {"MODE"})) /\ q[1].op \in MusicOps \ {"MODE"}
      BY <3>1, SaysType
    <3> QED BY <3>2
  <2> QED BY <2>1, <2>2
<1>3. Once(Tail(q), "START") /\ (q[1].op = "START" => \A i \in 1..Len(Tail(q)) : Tail(q)[i].op # "START")
  BY <1>1, OnceTail
<1>4. Heard(Tail(q))
  BY <1>2, <1>3 DEF Heard
<1>5. ASSUME q[1].op = "START" PROVE Started(Tail(q))
  <2>1. \A i \in 1..Len(Tail(q)) : Tail(q)[i].op \in MusicOps \ {"START"}
    BY <1>2, <1>3, <1>5, SaysType
  <2> QED BY <1>2, <2>1, SaysEach DEF Started
<1>6. Tail(q) \in Seq(Messages)
  BY <1>2, SaysType
<1> QED BY <1>2, <1>4, <1>5, <1>6

LEMMA HeardAppend ==
  ASSUME NEW q, Heard(q), NEW m \in Messages, m.op \in MusicOps,
         "mode" \notin env => m.op # "MODE", m.op = "START" => Started(q)
  PROVE  /\ Heard(Append(q, m))
         /\ Started(q) /\ m.op # "START" => Started(Append(q, m))
<1>0. m.op # "in"
  BY DEF MusicOps
<1>1. Append(q, m) \in Seq(Says(MusicOps))
  BY <1>0, SaysAppend DEF Heard
<1>2. ASSUME "mode" \notin env PROVE Append(q, m) \in Seq(Says(MusicOps \ {"MODE"}))
  <2>1. q \in Seq(Says(MusicOps \ {"MODE"})) /\ m.op \in MusicOps \ {"MODE"}
    BY <1>2 DEF Heard
  <2> QED BY <1>0, <2>1, SaysAppend
<1>3. Once(Append(q, m), "START")
  <2>1. q \in Seq(Messages) /\ Once(q, "START")
    BY HeardType DEF Heard
  <2>2. m.op = "START" => \A i \in 1..Len(q) : q[i].op # "START"
    <3> SUFFICES ASSUME m.op = "START" PROVE \A i \in 1..Len(q) : q[i].op # "START"
      OBVIOUS
    <3>1. q \in Seq(Says(MusicOps \ {"START"}))
      BY DEF Started
    <3>2. \A i \in 1..Len(q) : q[i].op \in MusicOps \ {"START"}
      BY <3>1, SaysType
    <3> QED BY <3>2
  <2> QED BY <2>1, <2>2, OnceAppend
<1>4. ASSUME Started(q), m.op # "START" PROVE Started(Append(q, m))
  <2>1. q \in Seq(Says(MusicOps \ {"START"})) /\ m.op \in MusicOps \ {"START"}
    BY <1>4 DEF Started
  <2>2. Append(q, m) \in Seq(Says(MusicOps \ {"START"}))
    BY <1>0, <2>1, SaysAppend
  <2> QED BY <2>2 DEF Started
<1> QED BY <1>1, <1>2, <1>3, <1>4 DEF Heard

LEMMA HeardOlder ==
  ASSUME NEW q, Heard(q)
  PROVE  Heard(Older(q)) /\ (Started(q) => Started(Older(q)))
<1>1. q \in Seq(Says(MusicOps)) /\ q \in Seq(Messages) /\ Once(q, "START")
  BY HeardType DEF Heard
<1>2. Older(q) \in Seq(Says(MusicOps)) /\ Once(Older(q), "START")
  BY <1>1, SaysOlder, OnceOlder
<1>3. "mode" \notin env => Older(q) \in Seq(Says(MusicOps \ {"MODE"}))
  BY SaysOlder DEF Heard
<1>4. Started(q) => Started(Older(q))
  BY SaysOlder DEF Started
<1> QED BY <1>2, <1>3, <1>4 DEF Heard

(* Of the keys a result posts, none starts the task or leaves it by MODE.   *)
Posted == {"QUIT", "AUTO_NEXT_DEV", "PREV", "NEXT"}

LEMMA DealPosts ==
  ASSUME NEW err, err \notin {"FILE_NOFOUND", "PARM"}, NEW q, Deal(err, q)
  PROVE  queue' = q \/ \E op \in Posted : queue' = Append(q, Key(op))
BY Zenon DEF Deal, DecodeFailed, NextDevice, Posted

LEMMA DealHeard ==
  ASSUME NEW err, err \notin {"FILE_NOFOUND", "PARM"}, NEW q, Heard(q), Deal(err, q)
  PROVE  Heard(queue') /\ (Started(q) => Started(queue'))
<1>1. CASE queue' = q
  BY <1>1
<1>2. ASSUME NEW op \in Posted, queue' = Append(q, Key(op)) PROVE Heard(queue') /\ (Started(q) => Started(queue'))
  <2>1. Key(op) \in Messages /\ Key(op).op = op
    BY KeyIsMessage, KeyOp DEF Posted, UserKeys, OwnKeys
  <2>2. op \in MusicOps /\ op # "MODE" /\ op # "START"
    BY DEF Posted, MusicOps
  <2> QED BY <1>2, <2>1, <2>2, HeardAppend
<1> QED BY <1>1, <1>2, DealPosts

-----------------------------------------------------------------------------
LEMMA PresentNext ==
  ASSUME Present, world' = world, list' = list, live' = live, dev' \in {None, Main},
         Heard(queue'), starting' \/ dev' = Main => Started(queue'),
         dev' = None => fsn' = NoScan /\ file_err_counter' = 0 /\ scan' = "none" /\ dec' = "none",
         dev' = Main => task' = "music" /\ ~ starting',
         fsn' # NoScan => fsn'.files = card[Main],
         scan' # "none" => fsn' = NoScan,
         "mode" \notin env => ~ broke',
         GoodCard /\ Main \in mounted' => Holding'
  PROVE  Present'
<1>1. env' = env /\ card' = card /\ seen' = seen
  BY DEF world
<1>2. Heard(queue)' /\ (Started(queue') <=> Started(queue)')
  BY <1>1 DEF Heard, Started
<1>3. GoodCard' <=> GoodCard
  BY <1>1 DEF GoodCard, FilesOf
<1>4. list' = <<Main>> /\ live' = {Main} /\ Main \in seen'
  BY <1>1 DEF Present
<1> QED BY <1>1, <1>2, <1>3, <1>4 DEF Present

(* A good card has a file, and two of them if one cannot be decoded, and no *)
(* two of those.                                                            *)
LEMMA GoodFiles ==
  ASSUME WorldOK, GoodCard
  PROVE  LET c == card[Main]
         IN  /\ c \in Seq({"good", "bad"}) /\ c # << >> /\ Len(c) \in Nat /\ Len(c) >= 1
             /\ \A i, j \in 1..Len(c) : c[i] = "bad" /\ c[j] = "bad" => i = j
             /\ \A i \in 1..Len(c) : c[i] = "bad" => Len(c) >= 2
<1> DEFINE c == card[Main]
           bads == {i \in 1..Len(c) : c[i] = "bad"}
<1>1. c \in Seq({"good", "bad"}) /\ DOMAIN c = 1..Len(c) /\ Len(c) \in Nat
  <2>1. c \in Cards
    BY DeviceAssumption DEF WorldOK
  <2>2. c \in Seq({"good", "bad"})
    BY <2>1, CardFiles
  <2> QED BY <2>2
<1>2. FilesOf(Main, "bad") = bads /\ FilesOf(Main, "good") = {i \in 1..Len(c) : c[i] = "good"}
  BY <1>1 DEF FilesOf
<1>3. PICK g \in 1..Len(c) : c[g] = "good"
  BY <1>2 DEF GoodCard
<1>4. ASSUME NEW i \in bads, NEW j \in bads, i # j PROVE FALSE
  <2>1. IsFiniteSet(bads) /\ Cardinality(bads) <= 1
    <3>1. IsFiniteSet(1..Len(c))
      BY <1>1, FS_Interval
    <3> QED BY <1>2, <3>1, FS_Subset DEF GoodCard
  <2>2. Cardinality({i, j}) = 2 /\ IsFiniteSet({i, j})
    <3>1. Cardinality({i}) = 1 /\ IsFiniteSet({i})
      BY FS_Singleton
    <3>2. Cardinality({i} \union {j}) = Cardinality({i}) + 1 /\ IsFiniteSet({i} \union {j})
      <4>1. j \notin {i}
        BY <1>4
      <4> QED BY <3>1, <4>1, FS_AddElement
    <3>3. {i} \union {j} = {i, j}
      OBVIOUS
    <3>4. 1 + 1 = 2
      OBVIOUS
    <3> QED BY <3>1, <3>2, <3>3, <3>4
  <2>3. {i, j} \subseteq bads
    OBVIOUS
  <2> HIDE DEF bads
  <2>4. Cardinality({i, j}) <= Cardinality(bads) /\ Cardinality(bads) \in Nat
    BY <2>1, <2>3, FS_Subset, FS_CardinalityType
  <2> QED BY <2>1, <2>2, <2>4
<1>5. Len(c) >= 1 /\ c # << >>
  BY <1>1, <1>3
<1>6. ASSUME NEW i \in 1..Len(c), c[i] = "bad" PROVE Len(c) >= 2
  <2>1. i # g
    BY <1>3, <1>6
  <2> QED BY <1>1, <1>3, <2>1
<1> QED BY <1>1, <1>4, <1>5, <1>6

(* The next file and the previous one are others, if there are two.         *)
LEMMA NextIsOther ==
  ASSUME NEW fs, Scanned(fs), fs.cur # 0, Len(fs.files) >= 2, NEW sel \in {"next", "prev"},
         NEW i \in Selected(fs, sel)
  PROVE  i # fs.cur
<1> DEFINE n == Len(fs.files)  c == fs.cur
<1>1. n \in Nat /\ n >= 2 /\ c \in 1..n
  BY DEF Scanned
<1>2. CASE sel = "next"
  <2>1. i = (c % n) + 1
    BY <1>2 DEF Selected
  <2> HIDE DEF n, c
  <2>2. CASE c = n
    <3>1. c % n = 0
      BY <1>1, <2>2, Z3
    <3> QED BY <1>1, <2>1, <2>2, <3>1 DEF c
  <2>3. CASE c < n
    <3>1. c % n = c
      BY <1>1, <2>3, Z3
    <3> QED BY <1>1, <2>1, <3>1 DEF c
  <2> QED BY <1>1, <2>2, <2>3
<1>3. CASE sel = "prev"
  <2>1. i = IF c <= 1 THEN n ELSE c - 1
    BY <1>3 DEF Selected
  <2> HIDE DEF n
  <2> QED BY <1>1, <2>1
<1> QED BY <1>2, <1>3

(* With the one device there is no other to go to.                          *)
LEMMA NoOther ==
  ASSUME NodesOK, list = <<Main>>, dev \in {None, Main}, NEW step
  PROVE  /\ Playable \subseteq {Main} /\ (Playable = {Main} <=> Main \in valid /\ Main \in mounted)
         /\ find_active = IF Playable = {} THEN None ELSE Main
         /\ ~ ManyPlayable /\ get_dev_flit(step) = None /\ find_neighbour(dev, step) = None
<1>1. ToSet(list) = {Main} /\ Len(list) = 1
  <2>1. DOMAIN list = {1} /\ list[1] = Main /\ Len(list) = 1
    OBVIOUS
  <2> QED BY <2>1 DEF ToSet
<1>2. Playable \subseteq {Main} /\ mounted \subseteq {Main}
      /\ (Playable = {Main} <=> Main \in valid /\ Main \in mounted)
  BY <1>1 DEF Playable, NodesOK
<1>3. find_active = IF Playable = {} THEN None ELSE Main
  <2>1. None # Main
    BY DeviceAssumption
  <2> QED BY <1>2, <2>1, FindActiveType
<1>4. ~ ManyPlayable /\ get_dev_flit(step) = None
  BY <1>2 DEF ManyPlayable, get_dev_flit
<1>5. find_neighbour(dev, step) = None
  <2>1. CASE dev = None
    BY <2>1 DEF find_neighbour
  <2>2. CASE dev = Main /\ Main \notin mounted
    <3>1. Playable = {}
      BY <1>2, <2>2
    <3> QED BY <1>3, <2>2, <3>1 DEF find_neighbour
  <2>3. CASE dev = Main /\ Main \in mounted
    <3>1. DOMAIN Around(dev, step) = {}
      <4>1. DOMAIN Around(dev, step) = 1..(Len(list) - 1)
        BY DEF Around
      <4> QED BY <1>1, <4>1
    <3>2. {k \in DOMAIN Around(dev, step) : Around(dev, step)[k] \in Playable} = {}
      BY <3>1
    <3>3. dev # None
      BY <2>3, DeviceAssumption
    <3> QED BY <2>3, <3>2, <3>3 DEF find_neighbour
  <2> QED BY <2>1, <2>2, <2>3
<1> QED BY <1>2, <1>3, <1>4, <1>5

(* What the results make of the one device.  Without a device, or without   *)
(* blame, its marks are kept.                                               *)
LEMMA DealMarks ==
  ASSUME NEW err, NEW q, Deal(err, q)
  PROVE  /\ valid' \subseteq valid /\ mounted' \subseteq mounted
         /\ dev' = None /\ None \notin mounted => valid' = valid /\ mounted' = mounted
         /\ err \in {"NULL", "SUCC"} \/ Interrupted(err) => UNCHANGED <<valid, mounted>> /\ queue' = q
         /\ err \in {"DEV_READ", "DEV_OFFLINE"} => mounted' = mounted \ Blamed
         /\ err \notin {"NULL", "DECODE_FAIL"} => file_err_counter' = 0
         /\ err = "NULL" => file_err_counter' = file_err_counter
         /\ broke' = (broke /\ err # "FSCAN")
<1>1. valid' \subseteq valid /\ mounted' \subseteq mounted
  BY DEF Deal, DecodeFailed, NotFound
<1>2. dev' = None /\ None \notin mounted => valid' = valid /\ mounted' = mounted
  BY DEF Deal, DecodeFailed, NotFound, Blamed, Logo
<1>3. err \in {"NULL", "SUCC"} \/ Interrupted(err) => UNCHANGED <<valid, mounted>> /\ queue' = q
  BY DEF Deal, Interrupted
<1>4. err \in {"DEV_READ", "DEV_OFFLINE"} => mounted' = mounted \ Blamed
  BY DEF Deal, Interrupted
<1>5. /\ err \notin {"NULL", "DECODE_FAIL"} => file_err_counter' = 0
      /\ err = "NULL" => file_err_counter' = file_err_counter
  BY DEF Deal, Cleared
<1>6. broke' = (broke /\ err # "FSCAN")
  BY DEF Deal
<1> QED BY <1>1, <1>2, <1>3, <1>4, <1>5, <1>6

LEMMA AloneNext ==
  ASSUME Alone, world' = world, bp' = bp \/ bp' = BreakPointSaved
  PROVE  Alone'
<1>1. inserted' = inserted /\ seen' = seen
  BY DEF world
<1>2. \A d \in Devices : bp'[d] # "foreign"
  <2>1. CASE bp' = bp
    BY <2>1 DEF Alone
  <2>2. CASE bp' = BreakPointSaved /\ bp' = [bp EXCEPT ![dev] = "mine"]
    <3>1. \A d \in Devices : bp'[d] = "mine" \/ bp'[d] = bp[d]
      BY <2>2
    <3> QED BY <3>1 DEF Alone
  <2> QED BY <2>1, <2>2 DEF BreakPointSaved
<1> QED BY <1>1, <1>2 DEF Alone

(* A file of the card is chosen, and not the one that failed before it.     *)
LEMMA FileKept ==
  ASSUME Types, Present, world' = world, NEW q, Heard(q), Started(q),
         NEW fs, Scanned(fs), fs.files = card[Main], NEW i \in 1..Len(fs.files),
         fsn' = [fs EXCEPT !.cur = i], music_player_decode_start(i, q), UNCHANGED <<list, live>>,
         dev = Main, dev' = Main, scan' = "none", task' = task, starting' = starting,
         GoodCard /\ Main \in mounted =>
           Main \in valid /\ (file_err_counter = 0 \/ (file_err_counter = 1 /\ fs.files[i] = "good"))
  PROVE  Present'
<1>0. Scanned(fsn') /\ fsn'.files = fs.files /\ fsn'.cur = i /\ i # 0
  BY DEF Scanned
<1>1. fsn' # NoScan
  BY <1>0, NoScanIsNone
<1>2. PICK err : /\ Deal(err, Older(q))
                 /\ (err = "SUCC" /\ fs.files[i] = "good") \/ (err = "DECODE_FAIL" /\ fs.files[i] = "bad")
  BY <1>0 DEF music_player_decode_start
<1>3. Heard(Older(q)) /\ Started(Older(q))
  BY HeardOlder
<1>4. Heard(queue') /\ Started(queue')
  BY <1>2, <1>3, DealHeard
<1>5. /\ mounted' \subseteq mounted /\ broke' = (broke /\ err # "FSCAN")
      /\ err = "SUCC" => valid' = valid /\ file_err_counter' = 0
  BY <1>2, DealMarks
<1>6. task = "music" /\ ~ starting /\ dev # None
  BY DeviceAssumption DEF Present
<1>7. ASSUME GoodCard, Main \in mounted' PROVE Holding'
  <2>1. Main \in mounted /\ Main \in valid
    BY <1>5, <1>7
  <2>2. CASE err = "SUCC"
    BY <1>1, <1>5, <2>1, <2>2 DEF Holding, OneFailure
  <2>3. CASE err = "DECODE_FAIL" /\ fs.files[i] = "bad"
    <3>1. file_err_counter = 0
      BY <1>7, <2>1, <2>3
    <3>2. ~ (0 >= Len(fsn'.files))
      BY <1>0 DEF Scanned
    <3>3. DecodeFailed(Older(q))
      BY <1>2, <2>3 DEF Deal
    <3>4. file_err_counter' = 1 /\ valid' = valid
      BY <3>1, <3>2, <3>3 DEF DecodeFailed, GivenUp
    <3> QED BY <1>0, <1>1, <2>1, <2>3, <3>4 DEF Holding, OneFailure
  <2> QED BY <1>2, <2>2, <2>3
<1>8. "mode" \notin env => ~ broke'
  BY <1>5 DEF Present
<1>9. /\ dev' \in {None, Main} /\ (starting' \/ dev' = Main => Started(queue')) /\ dev' # None
      /\ (dev' = Main => task' = "music" /\ ~ starting')
  BY <1>4, <1>6
<1> QED BY <1>0, <1>1, <1>4, <1>7, <1>8, <1>9, PresentNext

(* A failure of a device that is not good, or no longer read.               *)
LEMMA FailKept ==
  ASSUME Types, Present, world' = world, NEW q, Heard(q), Started(q),
         NEW err \in {"FSCAN", "DEV_OFFLINE"}, Fails(err, q), UNCHANGED <<list, live>>,
         fsn' = fsn, scan' = "none", dev = Main, dev' = Main, task' = task, starting' = starting,
         ~ (GoodCard /\ Main \in mounted)
  PROVE  Present'
<1>1. Deal(err, q)
  BY DEF Fails
<1>2. Heard(queue') /\ Started(queue')
  BY <1>1, DealHeard
<1>3. mounted' \subseteq mounted /\ broke' = (broke /\ err # "FSCAN")
  BY <1>1, DealMarks
<1>4. /\ dev' \in {None, Main} /\ (starting' \/ dev' = Main => Started(queue')) /\ dev' # None
      /\ (dev' = Main => task' = "music" /\ ~ starting')
  BY <1>2, DeviceAssumption DEF Present
<1>5. "mode" \notin env => ~ broke'
  BY <1>3 DEF Present
<1>6. (fsn' # NoScan => fsn'.files = card[Main]) /\ ~ (GoodCard /\ Main \in mounted')
  BY <1>3 DEF Present
<1> QED BY <1>2, <1>4, <1>5, <1>6, PresentNext

(* What a turn of the music task starts from, once a message is taken.      *)
Turn(m, q) ==
  /\ Types /\ Present /\ world' = world /\ scan = "none"
  /\ task = "music" /\ task' = task /\ starting' = starting
  /\ Heard(q) /\ m.op \in MusicOps
  /\ starting \/ dev = Main => Started(q) /\ m.op # "START"
  /\ m.op = "START" => Started(q)
  /\ GoodCard /\ Main \in mounted /\ "mode" \in env /\ fsn = NoScan =>
       m.op \in {"MODE", "START"} /\ q \in Seq(Says({"MODE", "START"}))

LEMMA HereKept ==
  ASSUME NEW m, NEW q, Turn(m, q), NEW sel \in {"next", "prev"}, m.op \notin {"START", "MODE"},
         dev = Main, PlayHere(sel, q)
  PROVE  Present'
<1>1. /\ Types /\ Present /\ world' = world /\ scan' = "none" /\ dev' = Main /\ task' = task
      /\ starting' = starting /\ Heard(q) /\ Started(q) /\ NodesOK /\ list = <<Main>> /\ live = {Main}
  BY DEF Turn, PlayHere, Present, Types
<1>2. Online(dev) <=> Main \in valid /\ Main \in mounted
  BY DEF Online, Playable
<1>3. GoodCard /\ Main \in mounted => Holding
  BY <1>1 DEF Present
<1>4. CASE ~ Online(dev)
  <2>1. Fails("DEV_OFFLINE", q) /\ UNCHANGED <<fsn, list, live>>
    BY <1>4 DEF PlayHere
  <2>2. ~ (GoodCard /\ Main \in mounted)
    BY <1>2, <1>3, <1>4 DEF Holding
  <2> QED BY <1>1, <2>1, <2>2, FailKept
<1>5. CASE Online(dev) /\ fsn = NoScan
  <2>1. fsn' = fsn /\ Fails("FSCAN", q) /\ UNCHANGED <<list, live>>
    BY <1>5 DEF PlayHere, PlayFrom
  <2>2. ~ (GoodCard /\ Main \in mounted)
    BY <1>3, <1>5 DEF Holding, Turn
  <2> QED BY <1>1, <2>1, <2>2, FailKept
<1>6. CASE Online(dev) /\ fsn # NoScan
  <2>1. /\ UNCHANGED <<list, live>>
        /\ \E i \in Selected(fsn, sel) : fsn' = [fsn EXCEPT !.cur = i] /\ music_player_decode_start(i, q)
    BY <1>1, <1>6 DEF PlayHere, PlayFrom
  <2>2. PICK i \in Selected(fsn, sel) : fsn' = [fsn EXCEPT !.cur = i] /\ music_player_decode_start(i, q)
    BY <2>1
  <2>3. Scanned(fsn) /\ fsn.files = card[Main]
    BY <1>1, <1>6 DEF Types, PlayerOK, Present
  <2>4. i \in 1..Len(fsn.files)
    BY <2>3, SelectedType DEF Selections
  <2>5. ASSUME GoodCard, Main \in mounted
        PROVE  Main \in valid /\ (file_err_counter = 0 \/ (file_err_counter = 1 /\ fsn.files[i] = "good"))
    <3>1. Main \in valid /\ OneFailure
      BY <1>3, <2>5 DEF Holding
    <3>2. ASSUME file_err_counter # 0 PROVE file_err_counter = 1 /\ fsn.files[i] = "good"
      <4>1. file_err_counter = 1 /\ fsn.cur # 0 /\ fsn.files[fsn.cur] = "bad"
        BY <3>1, <3>2 DEF OneFailure
      <4>2. fsn.cur \in 1..Len(fsn.files)
        BY <2>3, <4>1 DEF Scanned
      <4>3. /\ \A j, k \in 1..Len(fsn.files) : fsn.files[j] = "bad" /\ fsn.files[k] = "bad" => j = k
            /\ Len(fsn.files) >= 2
        BY <1>1, <2>3, <2>5, <4>1, <4>2, GoodFiles DEF Types
      <4>4. i # fsn.cur
        BY <2>3, <4>1, <4>3, NextIsOther
      <4>5. fsn.files[i] # "bad"
        BY <2>4, <4>1, <4>2, <4>3, <4>4
      <4>6. fsn.files[i] \in {"good", "bad"}
        BY <2>3, <2>4 DEF Scanned
      <4> QED BY <4>1, <4>5, <4>6
    <3> QED BY <3>1, <3>2
  <2> QED BY <1>1, <2>1, <2>2, <2>3, <2>4, <2>5, FileKept
<1> QED BY <1>4, <1>5, <1>6

(* Without a device nothing can be played, and no device is blamed.         *)
LEMMA NobodyKept ==
  ASSUME NEW m, NEW q, Turn(m, q), m.op \notin {"START", "MODE"}, dev = None, dev' = None,
         NEW err \in {"NULL", "DEV_READ", "DEV_OFFLINE"}, Deal(err, q),
         fsn' = NoScan, dec' = "none", scan' = "none", UNCHANGED <<list, live>>
  PROVE  Present'
<1>1. /\ Types /\ Present /\ world' = world /\ Heard(q) /\ starting' = starting
      /\ (starting => Started(q)) /\ fsn = NoScan /\ file_err_counter = 0 /\ dev # Main
  BY DeviceAssumption DEF Turn, Present
<1>2. None \notin mounted
  BY <1>1, ToSetOf, DeviceAssumption DEF Types, NodesOK
<1>3. /\ valid' = valid /\ mounted' = mounted /\ file_err_counter' = 0
      /\ broke' = (broke /\ err # "FSCAN")
  BY <1>1, <1>2, DealMarks
<1>4. Heard(queue') /\ (starting => Started(queue'))
  BY <1>1, DealHeard
<1>5. ASSUME GoodCard, Main \in mounted' PROVE Holding'
  <2>1. Main \in valid
    BY <1>1, <1>3, <1>5 DEF Present, Holding
  <2>2. "mode" \notin env /\ env' = env
    BY <1>1, <1>3, <1>5 DEF Turn, world
  <2> QED BY <1>1, <1>3, <2>1, <2>2 DEF Holding, OneFailure
<1>6. "mode" \notin env => ~ broke'
  BY <1>1, <1>3 DEF Present
<1>7. /\ dev' \in {None, Main} /\ (starting' \/ dev' = Main => Started(queue')) /\ dev' # Main
  BY <1>1, <1>4
<1> QED BY <1>1, <1>3, <1>4, <1>5, <1>6, <1>7, PresentNext

(* A result without a play function: the player goes on as it is.           *)
LEMMA NothingKept ==
  ASSUME NEW m, NEW q, Turn(m, q), m.op \notin {"START", "MODE"}, dev = Main,
         NEW err \in {"NULL", "DEV_READ"}, Nothing(err, q)
  PROVE  Present'
<1>1. /\ Types /\ Present /\ world' = world /\ Heard(q) /\ Started(q) /\ scan' = "none"
      /\ starting' = starting /\ task' = task /\ fsn' = fsn /\ dev' = Main /\ dev' # None
      /\ UNCHANGED <<list, live>> /\ Deal(err, q) /\ task = "music" /\ ~ starting
  BY DeviceAssumption DEF Turn, Present, Nothing
<1>2. /\ Heard(queue') /\ Started(queue')
  BY <1>1, DealHeard
<1>3. /\ mounted' \subseteq mounted /\ broke' = (broke /\ err # "FSCAN")
      /\ err = "NULL" => UNCHANGED <<valid, mounted>> /\ file_err_counter' = file_err_counter
      /\ err = "DEV_READ" => mounted' = mounted \ Blamed
  BY <1>1, DealMarks
<1>4. ASSUME GoodCard, Main \in mounted' PROVE Holding'
  <2>1. Holding /\ Main \in mounted
    BY <1>1, <1>3, <1>4 DEF Present
  <2>2. err # "DEV_READ"
    BY <1>1, <1>3, <1>4, <2>1 DEF Blamed, Logo, Holding
  <2>3. valid' = valid /\ file_err_counter' = file_err_counter /\ env' = env /\ scan = "none"
    BY <1>1, <1>3, <2>2 DEF Turn, world
  <2>4. ~ ("mode" \in env /\ fsn = NoScan)
    BY <1>4, <2>1 DEF Turn
  <2> QED BY <1>1, <2>1, <2>3, <2>4 DEF Holding, OneFailure
<1>5. "mode" \notin env => ~ broke'
  BY <1>1, <1>3 DEF Present
<1>6. /\ dev' \in {None, Main} /\ (starting' \/ dev' = Main => Started(queue'))
      /\ (dev' = Main => task' = "music" /\ ~ starting')
      /\ (fsn' # NoScan => fsn'.files = card[Main])
  BY <1>1, <1>2 DEF Present
<1> QED BY <1>1, <1>2, <1>4, <1>5, <1>6, PresentNext

(* START: the device that can be played is scanned.                         *)
LEMMA StartKept ==
  ASSUME NEW m, NEW q, Turn(m, q), m.op = "START", PlayerStart(q)
  PROVE  Present' /\ bp' = bp
<1>1. /\ Types /\ NodesOK /\ Present /\ world' = world /\ Heard(q) /\ Started(q) /\ scan = "none"
      /\ ~ starting /\ starting' = starting /\ task = "music" /\ task' = task /\ dev # Main
      /\ dev = None /\ fsn = NoScan /\ file_err_counter = 0 /\ dec = "none" /\ list = <<Main>>
      /\ live = {Main}
  <2>1. dev # Main
    BY DEF Turn
  <2>2. starting \in BOOLEAN /\ ~ starting
    BY DEF Turn, Types, PlayerOK
  <2> QED BY <2>1, <2>2 DEF Turn, Present, Types
<1>2. PlayOn(find_active, FromBreakPoint(find_active), q)
  BY <1>1 DEF PlayerStart, SameDevice
<1>3. /\ find_active = IF Playable = {} THEN None ELSE Main
      /\ Playable = {Main} <=> Main \in valid /\ Main \in mounted
      /\ Playable \subseteq {Main}
  BY <1>1, NoOther
<1>4. CASE find_active = None
  <2>1. PlayHere(FromBreakPoint(find_active), q)
    BY <1>2, <1>4 DEF PlayOn
  <2>2. ~ Online(dev)
    BY <1>1, <1>3, DeviceAssumption DEF Online
  <2>3. /\ UNCHANGED <<fsn, list, live, dev, scan>> /\ Fails("DEV_OFFLINE", q)
    BY <2>1, <2>2 DEF PlayHere
  <2>4. Deal("DEV_OFFLINE", q) /\ bp' = bp /\ dec' = "none"
    BY <2>3 DEF Fails, music_player_stop
  <2>5. None \notin mounted
    BY <1>1, ToSetOf, DeviceAssumption DEF NodesOK
  <2>6. /\ valid' = valid /\ mounted' = mounted /\ file_err_counter' = 0
        /\ broke' = (broke /\ "DEV_OFFLINE" # "FSCAN")
    BY <1>1, <2>3, <2>4, <2>5, DealMarks
  <2>7. Heard(queue') /\ Started(queue')
    BY <1>1, <2>4, DealHeard
  <2>8. ~ (GoodCard /\ Main \in mounted')
    <3>1. Main \notin valid \/ Main \notin mounted
      BY <1>3, <1>4, DeviceAssumption
    <3> QED BY <1>1, <2>6, <3>1 DEF Present, Holding
  <2>9. "mode" \notin env => ~ broke'
    BY <1>1, <2>6 DEF Present
  <2> QED BY <1>1, <2>3, <2>4, <2>6, <2>7, <2>8, <2>9, PresentNext
<1>5. CASE find_active # None
  <2>1. find_active = Main /\ bp' = bp /\ PlayDevice(Main, FromBreakPoint(Main), q)
    BY <1>2, <1>3, <1>5 DEF PlayOn
  <2>2. /\ dev' = Main /\ fsn' = NoScan /\ dec' = "none" /\ queue' = q
        /\ UNCHANGED <<list, recent, mounted, live, valid, wrapped, broke, file_err_counter>>
        /\ scan' = FromBreakPoint(Main)
    BY <2>1 DEF PlayDevice, music_player_stop, nodes
  <2>3. scan' # "none"
    BY <2>2, FromBreakPointType
  <2>4. ASSUME GoodCard, Main \in mounted' PROVE Holding'
    <3>1. Holding /\ env' = env
      BY <1>1, <2>2, <2>4 DEF Present, world
    <3>2. "mode" \in env => q \in Seq(Says({"MODE", "START"}))
      BY <1>1, <2>2, <2>4 DEF Turn
    <3> QED BY <1>1, <2>2, <2>3, <3>1, <3>2 DEF Holding, OneFailure
  <2>5. "mode" \notin env => ~ broke'
    BY <1>1, <2>2 DEF Present
  <2>6. dev' # None
    BY <2>2, DeviceAssumption
  <2> QED BY <1>1, <2>1, <2>2, <2>4, <2>5, <2>6, PresentNext
<1> QED BY <1>4, <1>5

LEMMA PlayedKept ==
  ASSUME NEW m, NEW q, Turn(m, q), m.op \in Plays, Played(m, q)
  PROVE  Present' /\ (bp' = bp \/ bp' = BreakPointSaved)
<1>1. /\ Types /\ NodesOK /\ Present /\ scan = "none" /\ list = <<Main>> /\ live = {Main}
      /\ dev \in {None, Main} /\ m.op \in MusicOps
  BY DEF Turn, Present, Types
<1>2. /\ ~ ManyPlayable /\ get_dev_flit("next") = None /\ find_neighbour(dev, "next") = None
      /\ Playable \subseteq {Main}
  BY <1>1, NoOther
<1>3. dev = None => dec = "none" /\ fsn = NoScan /\ ~ Online(dev)
  BY <1>1, <1>2, DeviceAssumption DEF Present, Online
<1>4. CASE m.op = "START"
  <2>1. PlayerStart(q)
    BY <1>4 DEF Played
  <2> QED BY <1>4, <2>1, StartKept
<1>5. ASSUME m.op # "START"
      PROVE  \/ PlayHere("next", q) \/ PlayHere("prev", q)
             \/ \E err \in {"NULL", "DEV_READ"} : Nothing(err, q) /\ (bp' = bp \/ bp' = BreakPointSaved)
  <2>1. m.op \in {"NEXT", "PREV", "AUTO_NEXT_DEV", "END"}
    BY <1>1, <1>5 DEF Plays, MusicOps
  <2>2. CASE m.op = "NEXT"
    <3>1. music_player_play_next(q)
      BY <2>2 DEF Played
    <3> QED BY <1>2, <3>1 DEF music_player_play_next
  <2>3. CASE m.op = "PREV"
    <3>1. music_player_play_prev(q)
      BY <2>3 DEF Played
    <3> QED BY <1>2, <3>1 DEF music_player_play_prev
  <2>4. CASE m.op = "AUTO_NEXT_DEV"
    <3>1. AutoNextDev(q)
      BY <2>4 DEF Played
    <3> QED BY <1>2, <3>1 DEF AutoNextDev
  <2>5. CASE m.op = "END"
    <3>1. music_player_end_deal(m, q)
      BY <2>5 DEF Played
    <3> QED BY <1>2, <3>1, Zenon DEF music_player_end_deal
  <2> QED BY <2>1, <2>2, <2>3, <2>4, <2>5
<1>6. ASSUME m.op # "START", NEW sel \in {"next", "prev"}, PlayHere(sel, q)
      PROVE  Present' /\ bp' = bp
  <2>0. m.op \notin {"START", "MODE"}
    BY <1>6 DEF Plays
  <2>1. bp' = bp
    BY <1>6 DEF PlayHere, PlayFrom, Fails, music_player_decode_start
  <2>2. CASE dev = Main
    BY <1>6, <2>0, <2>1, <2>2, HereKept
  <2>3. CASE dev = None
    <3>1. Fails("DEV_OFFLINE", q) /\ UNCHANGED <<dev, scan, fsn, list, live>>
      BY <1>3, <1>6, <2>3 DEF PlayHere
    <3>2. Deal("DEV_OFFLINE", q) /\ dec' = "none"
      BY <3>1 DEF Fails, music_player_stop
    <3> QED BY <1>1, <1>3, <2>0, <2>1, <2>3, <3>1, <3>2, NobodyKept
  <2> QED BY <1>1, <2>2, <2>3
<1>7. ASSUME m.op # "START", NEW err \in {"NULL", "DEV_READ"}, Nothing(err, q) PROVE Present'
  <2>0. m.op \notin {"START", "MODE"}
    BY <1>7 DEF Plays
  <2>1. CASE dev = Main
    BY <1>7, <2>0, <2>1, NothingKept
  <2>2. CASE dev = None
    <3>1. Deal(err, q) /\ UNCHANGED <<dev, fsn, dec, scan, list, live>>
      BY <1>7 DEF Nothing
    <3> QED BY <1>1, <1>3, <1>7, <2>0, <2>2, <3>1, NobodyKept
  <2> QED BY <1>1, <2>1, <2>2
<1> QED BY <1>4, <1>5, <1>6, <1>7

LEMMA HoldingQueue ==
  ASSUME Present, queue # << >>, GoodCard, Main \in mounted, "mode" \in env, fsn = NoScan
  PROVE  /\ queue[1].op \in {"MODE", "START"} /\ Tail(queue) \in Seq(Says({"MODE", "START"}))
         /\ queue \in Seq(Says({"MODE", "START"}))
<1>1. queue \in Seq(Says({"MODE", "START"}))
  BY DEF Present, Holding
<1> QED BY <1>1, SaysType

LEMMA KeyKept ==
  ASSUME Types, Alone, Present, music_key_event_opr
  PROVE  Present' /\ Alone'
<1> DEFINE m == queue[1]  q == Tail(queue)
<1>1. /\ task = "music" /\ scan = "none" /\ queue # << >> /\ m.op \in Plays /\ Played(m, q)
      /\ world' = world /\ task' = task /\ starting' = starting
  BY DEF music_key_event_opr, Take
<1>2. /\ Heard(q) /\ m.op \in MusicOps /\ (m.op = "START" => Started(q))
  BY <1>1, HeardTail DEF Present
<1>3. ASSUME starting \/ dev = Main PROVE Started(q) /\ m.op # "START"
  <2>1. queue \in Seq(Says(MusicOps \ {"START"}))
    BY <1>3 DEF Present, Started
  <2>2. q \in Seq(Says(MusicOps \ {"START"})) /\ m.op \in MusicOps \ {"START"}
    BY <1>1, <2>1, SaysType
  <2> QED BY <2>2 DEF Started
<1>4. GoodCard /\ Main \in mounted /\ "mode" \in env /\ fsn = NoScan =>
        m.op \in {"MODE", "START"} /\ q \in Seq(Says({"MODE", "START"}))
  BY <1>1, HoldingQueue
<1>5. Turn(m, q)
  BY <1>1, <1>2, <1>3, <1>4 DEF Turn
<1> HIDE DEF m, q
<1>6. Present' /\ (bp' = bp \/ bp' = BreakPointSaved)
  BY <1>1, <1>5, PlayedKept
<1> QED BY <1>1, <1>6, AloneNext

(* The keys that are cleared when the task is left or entered: no card can  *)
(* come any more, so that nothing is left in the queue.                     *)
LEMMA Emptied ==
  ASSUME NEW O, O \intersect DeviceEvents = {}, NEW q \in Seq(Says(O))
  PROVE  \A P : KeysCleared(q) \in Seq(Says(P)) /\ Once(KeysCleared(q), "START")
<1>1. q \in Seq(Messages) /\ \A i \in 1..Len(q) : q[i].op \in O
  BY SaysType
<1> DEFINE r == KeysCleared(q)
<1>2. r \in Seq({x \in ToSet(q) : x.op \in DeviceEvents})
  BY <1>1, KeysClearedType
<1>3. {x \in ToSet(q) : x.op \in DeviceEvents} = {}
  BY <1>1, ToSetOf
<1> HIDE DEF r
<1>4. r \in Seq({})
  BY <1>2, <1>3
<1>5. r = << >>
  BY <1>4, EmptySeq
<1>6. \A P : r \in Seq(Says(P))
  BY <1>5
<1>7. Once(r, "START")
  BY <1>5 DEF Once
<1> QED BY <1>6, <1>7 DEF r

LEMMA EmptiedHeard ==
  ASSUME NEW q, Heard(q)
  PROVE  /\ Heard(KeysCleared(q)) /\ Started(KeysCleared(q))
         /\ KeysCleared(q) \in Seq(Says({"MODE", "START"}))
<1>1. MusicOps \intersect DeviceEvents = {} /\ q \in Seq(Says(MusicOps))
  BY DEF MusicOps, DeviceEvents, Heard
<1>2. \A P : KeysCleared(q) \in Seq(Says(P)) /\ Once(KeysCleared(q), "START")
  BY <1>1, Emptied
<1> HIDE DEF MusicOps
<1> QED BY <1>2 DEF Heard, Started

LEMMA QuitKept ==
  ASSUME Types, Alone, Present, MusicQuit
  PROVE  Present' /\ Alone'
<1>1. /\ task = "music" /\ scan = "none" /\ queue # << >> /\ world' = world /\ starting' = FALSE
      /\ queue' = KeysCleared(Tail(queue)) /\ dev' = None /\ fsn' = NoScan /\ dec' = "none"
      /\ broke' = FALSE /\ file_err_counter' = 0 /\ bp' = BreakPointSaved
      /\ UNCHANGED <<list, recent, mounted, live, valid, scan>>
  BY DEF MusicQuit, music_task_close, music_player_stop, Take, nodes
<1>2. Heard(Tail(queue))
  BY <1>1, HeardTail DEF Present
<1>3. Heard(queue') /\ Started(queue') /\ queue' \in Seq(Says({"MODE", "START"}))
  BY <1>1, <1>2, EmptiedHeard
<1>4. dev' # Main
  BY <1>1, DeviceAssumption
<1>5. ASSUME GoodCard, Main \in mounted' PROVE Holding'
  <2>1. Main \in valid'
    BY <1>1, <1>5 DEF Present, Holding
  <2> QED BY <1>1, <1>3, <1>4, <2>1 DEF Holding, OneFailure
<1>6. Present'
  BY <1>1, <1>3, <1>4, <1>5, PresentNext
<1> QED BY <1>1, <1>6, AloneNext

LEMMA NotEvent ==
  ASSUME Present, Take({"in"}) \/ Take({"out"})
  PROVE  FALSE
<1>1. queue # << >> /\ queue[1].op \in DeviceEvents
  BY DEF Take, DeviceEvents
<1>2. queue[1].op \in MusicOps
  BY <1>1, HeardTail DEF Present
<1> QED BY <1>1, <1>2 DEF MusicOps, DeviceEvents

LEMMA OtherKeyKept ==
  ASSUME Types, Alone, Present, OtherKey
  PROVE  Present' /\ Alone'
<1>1. /\ task = "other" /\ scan = "none" /\ queue # << >>
      /\ UNCHANGED <<world, nodes, player, control>>
      /\ music_task_start(Tail(queue)) \/ (queue' = Tail(queue) /\ UNCHANGED <<task, starting>>)
  BY DEF OtherKey, Take
<1>2. /\ UNCHANGED <<dev, fsn, dec, scan, bp, broke, file_err_counter>>
      /\ UNCHANGED <<list, recent, mounted, live, valid>> /\ world' = world
  BY <1>1 DEF player, control, nodes
<1>3. dev # Main /\ dev = None
  BY <1>1 DEF Present
<1>4. Heard(Tail(queue))
  BY <1>1, HeardTail DEF Present
<1>5. /\ Heard(queue') /\ (starting' => Started(queue'))
      /\ GoodCard /\ Main \in mounted /\ "mode" \in env /\ fsn = NoScan =>
           queue' \in Seq(Says({"MODE", "START"}))
  <2>1. CASE music_task_start(Tail(queue))
    <3>1. queue' = KeysCleared(Tail(queue))
      BY <2>1 DEF music_task_start
    <3> QED BY <1>4, <3>1, EmptiedHeard
  <2>2. CASE queue' = Tail(queue) /\ UNCHANGED <<task, starting>>
    <3>1. ~ starting'
      BY <1>1, <2>2 DEF Types, PlayerOK
    <3> QED BY <1>1, <1>4, <2>2, <3>1, HoldingQueue
  <2> QED BY <1>1, <2>1, <2>2
<1>6. ASSUME GoodCard, Main \in mounted' PROVE Holding'
  <2>1. Holding /\ env' = env
    BY <1>2, <1>6 DEF Present, world
  <2> QED BY <1>2, <1>3, <1>5, <1>6, <2>1 DEF Holding, OneFailure
<1>7. Present'
  BY <1>2, <1>3, <1>5, <1>6, PresentNext DEF Present
<1> QED BY <1>2, <1>7, AloneNext

(* A message is posted, and nothing else that is looked at here changes.    *)
LEMMA PostedKept ==
  ASSUME Types, Alone, Present, NEW m \in Messages, queue' = Append(queue, m), m.op \in MusicOps,
         "mode" \notin env => m.op # "MODE", m.op = "START" => starting /\ ~ starting',
         m.op \in {"MODE", "START"} \/ "mode" \notin env \/ fsn # NoScan,
         starting' => starting,
         UNCHANGED <<world, nodes, task, dev, fsn, scan, bp, broke, file_err_counter>>,
         dec' = "none" \/ dev # None
  PROVE  Present' /\ Alone'
<1>1. UNCHANGED <<list, recent, mounted, live, valid>> /\ world' = world
  BY DEF nodes
<1>2. Heard(queue) /\ (starting \/ dev = Main => Started(queue)) /\ (dev = Main => ~ starting)
  BY DEF Present
<1>3. Heard(queue') /\ (starting' \/ dev' = Main => Started(queue'))
  BY <1>2, HeardAppend
<1>4. ASSUME GoodCard, Main \in mounted' PROVE Holding'
  <2>1. Holding /\ env' = env
    BY <1>1, <1>4 DEF Present, world
  <2>2. "mode" \in env /\ fsn = NoScan => queue' \in Seq(Says({"MODE", "START"}))
    <3> SUFFICES ASSUME "mode" \in env, fsn = NoScan PROVE queue' \in Seq(Says({"MODE", "START"}))
      OBVIOUS
    <3>1. queue \in Seq(Says({"MODE", "START"})) /\ m.op \in {"MODE", "START"} /\ m.op # "in"
      BY <2>1 DEF Holding
    <3> QED BY <3>1, SaysAppend
  <2> QED BY <1>1, <2>1, <2>2 DEF Holding, OneFailure
<1>5. dev' = Main => task' = "music" /\ ~ starting'
  BY <1>2 DEF Present
<1>6. dev' = None => fsn' = NoScan /\ file_err_counter' = 0 /\ scan' = "none" /\ dec' = "none"
  BY DEF Present
<1>7. /\ dev' \in {None, Main} /\ (fsn' # NoScan => fsn'.files = card[Main])
      /\ (scan' # "none" => fsn' = NoScan) /\ ("mode" \notin env => ~ broke')
  BY DEF Present
<1>8. Present'
  BY <1>1, <1>3, <1>4, <1>5, <1>6, <1>7, PresentNext
<1> QED BY <1>1, <1>8, AloneNext

LEMMA ToneEndKept ==
  ASSUME Types, Alone, Present, ToneEnd
  PROVE  Present' /\ Alone'
<1>1. /\ starting /\ starting' = FALSE /\ queue' = Append(queue, Key("START"))
      /\ UNCHANGED <<world, nodes, task, dev, fsn, dec, scan, bp, broke, file_err_counter>>
  BY DEF ToneEnd, Post, player, control
<1>2. Key("START") \in Messages /\ Key("START").op = "START" /\ "START" \in MusicOps
  BY KeyIsMessage, KeyOp DEF OwnKeys, MusicOps
<1>3. dec' = "none" \/ dev # None
  BY <1>1 DEF Present
<1> QED BY <1>1, <1>2, <1>3, PostedKept

LEMMA EndsKept ==
  ASSUME Types, Alone, Present, NEW err \in BOOLEAN, Ends(err)
  PROVE  Present' /\ Alone'
<1>1. /\ dec = "play" /\ dec' = "ended" /\ queue' = Append(queue, End(err))
      /\ UNCHANGED <<world, nodes, task, starting, dev, fsn, scan, bp, broke, file_err_counter>>
  BY DEF Ends, Post, control
<1>2. End(err) \in Messages /\ End(err).op = "END" /\ "END" \in MusicOps
  BY KeyIsMessage DEF End, MusicOps
<1>3. dev # None /\ fsn # NoScan
  BY <1>1 DEF Present, Types, PlayerOK
<1> QED BY <1>1, <1>2, <1>3, PostedKept

LEMMA PressKept ==
  ASSUME Types, Alone, Present, OneDisturbance, NEW k \in UserKeys, Press(k)
  PROVE  Present' /\ Alone'
<1>1. /\ IF k = "MODE" THEN "mode" \in env ELSE "skip" \in env
      /\ queue' = Append(queue, Key(k))
      /\ UNCHANGED <<world, nodes, task, starting, dev, fsn, dec, scan, bp, broke, file_err_counter>>
  BY DEF Press, Post, player, control
<1>2. Key(k) \in Messages /\ Key(k).op = k /\ k \in MusicOps /\ k # "START"
  BY KeyIsMessage, KeyOp DEF UserKeys, MusicOps
<1>3. ("mode" \notin env => k # "MODE") /\ (k \in {"MODE", "START"} \/ "mode" \notin env)
  BY <1>1 DEF OneDisturbance
<1>4. dec' = "none" \/ dev # None
  BY <1>1 DEF Present
<1> QED BY <1>1, <1>2, <1>3, <1>4, PostedKept

LEMMA BreakKept ==
  ASSUME Types, Alone, Present, music_player_scandisk_break
  PROVE  Present' /\ Alone'
<1>1. /\ scan # "none" /\ queue # << >> /\ broke' = Breaks(queue[1])
      /\ queue' = IF broke' THEN Append(Tail(queue), queue[1]) ELSE Tail(queue)
      /\ IF ~ broke' /\ queue[1].op = "out" THEN dev_manager_del(queue[1].dev) ELSE UNCHANGED nodes
      /\ UNCHANGED <<world, task, starting, dev, fsn, dec, scan, bp, file_err_counter>>
  BY DEF music_player_scandisk_break, player
<1>2. /\ Heard(Tail(queue)) /\ queue[1].op \in MusicOps /\ queue[1] \in Messages
      /\ ("mode" \notin env => queue[1].op # "MODE") /\ dev = Main /\ Started(queue)
      /\ task = "music" /\ ~ starting /\ fsn = NoScan /\ dev # None
  <2>1. Heard(queue) /\ dev # None
    BY <1>1 DEF Present
  <2>2. dev = Main
    BY <2>1 DEF Present
  <2>3. queue \in Seq(Messages)
    BY <2>1, HeardType
  <2> QED BY <1>1, <2>1, <2>2, <2>3, HeardTail, TailType DEF Present
<1>3. Started(Tail(queue)) /\ queue[1].op \in MusicOps \ {"START"}
  <2>1. queue \in Seq(Says(MusicOps \ {"START"}))
    BY <1>2 DEF Started
  <2>2. Tail(queue) \in Seq(Says(MusicOps \ {"START"})) /\ queue[1].op \in MusicOps \ {"START"}
    BY <1>1, <2>1, SaysType
  <2> QED BY <2>2 DEF Started
<1>4. /\ UNCHANGED <<list, recent, mounted, live, valid>>
      /\ broke' => queue[1].op = "MODE"
  <2>1. queue[1].op # "out" /\ queue[1].op # "in"
    BY <1>2 DEF MusicOps
  <2> QED BY <1>1, <2>1 DEF nodes, Breaks
<1>5. Heard(queue') /\ Started(queue')
  <2>1. CASE broke'
    BY <1>1, <1>2, <1>3, <2>1, HeardAppend
  <2>2. CASE ~ broke'
    BY <1>1, <1>2, <1>3, <2>2
  <2> QED BY <2>1, <2>2
<1>6. ASSUME GoodCard, Main \in mounted' PROVE Holding'
  <2>1. Holding /\ env' = env
    BY <1>1, <1>4, <1>6 DEF Present, world
  <2>2. "mode" \in env => queue' \in Seq(Says({"MODE", "START"}))
    <3> SUFFICES ASSUME "mode" \in env PROVE queue' \in Seq(Says({"MODE", "START"}))
      OBVIOUS
    <3>1. queue[1].op \in {"MODE", "START"} /\ Tail(queue) \in Seq(Says({"MODE", "START"}))
      BY <1>1, <1>2, <1>4, <1>6, HoldingQueue
    <3>2. queue[1].op # "in"
      BY <3>1
    <3> QED BY <1>1, <1>2, <3>1, <3>2, SaysAppend
  <2> QED BY <1>1, <1>2, <1>4, <2>1, <2>2 DEF Holding, OneFailure
<1>7. Present'
  <2>1. "mode" \notin env => ~ broke'
    BY <1>2, <1>4
  <2> QED BY <1>1, <1>2, <1>4, <1>5, <1>6, <2>1, PresentNext
<1> QED BY <1>1, <1>7, AloneNext

LEMMA ScanEndKept ==
  ASSUME Types, Alone, Present, ScanEnd
  PROVE  Present' /\ Alone'
<1> DEFINE found == ~ broke /\ dev \in live /\ card[dev] # << >>
           fs == IF found THEN [files |-> card[dev], cur |-> 0] ELSE NoScan
<1>1. /\ scan # "none" /\ scan' = "none" /\ UNCHANGED <<world, task, starting, dev, backward>>
      /\ dev = Main /\ dev # None /\ live = {Main} /\ task = "music" /\ ~ starting /\ fsn = NoScan
      /\ Heard(queue) /\ Started(queue)
  <2>1. dev # None /\ scan # "none"
    BY DEF Present, ScanEnd
  <2>2. dev = Main
    BY <2>1 DEF Present
  <2> QED BY <2>1, <2>2 DEF ScanEnd, Present
<1>2. PlayFrom(fs, scan, queue)
  <2>1. ~ (found /\ bp[dev] = "foreign")
    BY <1>1, DeviceAssumption DEF Alone
  <2> QED BY <2>1 DEF ScanEnd
<1>3. bp' = bp /\ UNCHANGED <<list, live>>
  BY <1>2 DEF PlayFrom, Fails, music_player_decode_start
<1>4. GoodCard /\ Main \in mounted => Holding
  BY DEF Present
<1>5. CASE found
  <2>1. card[Main] \in Cards /\ card[Main] # << >>
    BY <1>1, <1>5, DeviceAssumption DEF Types, WorldOK
  <2>2. Scanned(fs) /\ fs.files = card[Main] /\ fs # NoScan
    BY <1>1, <1>5, <2>1, CardFiles, NoScanIsNone
  <2> HIDE DEF fs, found
  <2>3. PICK i \in Selected(fs, scan) : fsn' = [fs EXCEPT !.cur = i] /\ music_player_decode_start(i, queue)
    BY <1>1, <1>2, <2>2 DEF PlayFrom
  <2>4. i \in 1..Len(fs.files)
    BY <1>1, <2>2, SelectedType DEF Selections, Types, PlayerOK
  <2>5. GoodCard /\ Main \in mounted => Main \in valid /\ file_err_counter = 0
    BY <1>1, <1>4 DEF Holding, OneFailure
  <2>6. Present'
    BY <1>1, <1>3, <2>2, <2>3, <2>4, <2>5, FileKept
  <2> QED BY <1>1, <1>3, <2>6, AloneNext
<1>6. CASE ~ found
  <2>1. fsn' = fsn /\ Fails("FSCAN", queue)
    BY <1>1, <1>2, <1>6 DEF PlayFrom
  <2>2. CASE ~ (GoodCard /\ Main \in mounted)
    <3>1. Present'
      BY <1>1, <1>3, <2>1, <2>2, FailKept
    <3> QED BY <1>1, <1>3, <3>1, AloneNext
  <2>3. CASE GoodCard /\ Main \in mounted
    <3>1. card[Main] # << >>
      BY <2>3, GoodFiles DEF Types
    <3>2. broke /\ "mode" \in env
      BY <1>1, <1>6, <3>1 DEF Present, Types, MiscOK
    <3>3. Deal("FSCAN", queue) /\ Interrupted("FSCAN")
      BY <2>1, <3>2 DEF Fails, Interrupted
    <3>4. valid' = valid /\ mounted' = mounted /\ queue' = queue /\ file_err_counter' = 0
      BY <3>3, DealMarks
    <3>5. Holding'
      <4>1. env' = env
        BY <1>1 DEF world
      <4> QED BY <1>1, <1>4, <2>1, <2>3, <3>2, <3>4, <4>1 DEF Holding, OneFailure
    <3>6. Present'
      BY <1>1, <1>3, <2>1, <3>2, <3>4, <3>5, PresentNext
    <3> QED BY <1>1, <1>3, <3>6, AloneNext
  <2> QED BY <2>2, <2>3
<1> QED BY <1>5, <1>6

LEMMA NotMoved ==
  ASSUME OneDisturbance, Alone, NEW d \in Used, PutIn(d) \/ PullOut(d) \/ Detect(d)
  PROVE  d = Main /\ Main \in inserted /\ Main \notin seen /\ Detect(Main)
<1>1. Used = {Main} /\ Moved = {}
  BY DEF OneDisturbance, Used, Moved
<1>2. d = Main /\ Detect(Main)
  BY <1>1 DEF PutIn, PullOut
<1>3. Main \in inserted <=> Main \notin seen
  BY <1>2 DEF Detect, Unnoticed
<1> QED BY <1>2, <1>3 DEF Alone

LEMMA PresentKept ==
  ASSUME Types, OneDisturbance, Alone, Present, Next
  PROVE  Present' /\ Alone'
<1>1. CASE music_key_event_opr BY <1>1, KeyKept
<1>2. CASE MusicQuit BY <1>2, QuitKept
<1>3. CASE DeviceOut BY <1>3, NotEvent DEF DeviceOut
<1>4. CASE DeviceIn BY <1>4, NotEvent DEF DeviceIn
<1>5. CASE OtherDeviceIn BY <1>5, NotEvent DEF OtherDeviceIn
<1>6. CASE OtherKey BY <1>6, OtherKeyKept
<1>7. CASE ToneEnd BY <1>7, ToneEndKept
<1>8. CASE music_player_scandisk_break BY <1>8, BreakKept
<1>9. CASE ScanEnd BY <1>9, ScanEndKept
<1>10. CASE FileEnds BY <1>10, EndsKept DEF FileEnds
<1>11. CASE ReadFails BY <1>11, EndsKept DEF ReadFails
<1>12. ASSUME NEW d \in Used, PutIn(d) \/ PullOut(d) \/ Detect(d) PROVE FALSE
  BY <1>12, NotMoved DEF Present
<1>13. ASSUME NEW k \in UserKeys, Press(k) PROVE Present' /\ Alone'
  BY <1>13, PressKept
<1> QED
  BY <1>1, <1>2, <1>3, <1>4, <1>5, <1>6, <1>7, <1>8, <1>9, <1>10, <1>11, <1>12, <1>13 DEF Next

(* Before the card is noticed the music task cannot begin, and the first    *)
(* message that a card has come finds an empty list.                        *)
LEMMA WaitingNext ==
  ASSUME Waiting, UNCHANGED <<env, list, task, dev, fsn, file_err_counter, broke>>,
         seen' = seen, queue' \in Seq(Says({"in", "MODE"})), Once(queue', "in"),
         "mode" \notin env => queue' \in Seq(Says({"in"})),
         Main \notin seen => queue' \in Seq(Says({"MODE"}))
  PROVE  Waiting'
BY DEF Waiting

LEMMA WaitingTail ==
  ASSUME Waiting, queue # << >>
  PROVE  /\ queue[1] \in Messages /\ queue[1].op \in {"in", "MODE"} /\ (queue[1].op = "in" => queue[1].dev = Main)
         /\ queue[1].op = "in" => Main \in seen
         /\ Tail(queue) \in Seq(Says({"in", "MODE"})) /\ Once(Tail(queue), "in")
         /\ "mode" \notin env => Tail(queue) \in Seq(Says({"in"})) /\ queue[1].op = "in"
         /\ Main \notin seen => Tail(queue) \in Seq(Says({"MODE"}))
         /\ queue[1].op = "in" => Tail(queue) \in Seq(Says({"MODE"}))
         /\ queue[1].op = "in" /\ "mode" \notin env => Tail(queue) \in Seq(Says({}))
<1>1. queue \in Seq(Says({"in", "MODE"})) /\ Once(queue, "in") /\ queue \in Seq(Messages)
  BY SaysType DEF Waiting
<1>2. /\ queue[1] \in Messages /\ queue[1].op \in {"in", "MODE"} /\ (queue[1].op = "in" => queue[1].dev = Main)
      /\ Tail(queue) \in Seq(Says({"in", "MODE"}))
  BY <1>1, SaysType
<1>3. /\ Once(Tail(queue), "in")
      /\ queue[1].op = "in" => \A i \in 1..Len(Tail(queue)) : Tail(queue)[i].op # "in"
  BY <1>1, OnceTail
<1>4. ASSUME "mode" \notin env PROVE Tail(queue) \in Seq(Says({"in"})) /\ queue[1].op = "in"
  <2>1. queue \in Seq(Says({"in"}))
    BY <1>4 DEF Waiting
  <2>2. Tail(queue) \in Seq(Says({"in"})) /\ queue[1].op \in {"in"}
    BY <2>1, SaysType
  <2> QED BY <2>2
<1>5. ASSUME Main \notin seen PROVE Tail(queue) \in Seq(Says({"MODE"})) /\ queue[1].op = "MODE"
  <2>1. queue \in Seq(Says({"MODE"}))
    BY <1>5 DEF Waiting
  <2>2. Tail(queue) \in Seq(Says({"MODE"})) /\ queue[1].op \in {"MODE"}
    BY <2>1, SaysType
  <2> QED BY <2>2
<1>6. ASSUME queue[1].op = "in" PROVE Tail(queue) \in Seq(Says({"MODE"}))
  <2>1. \A i \in 1..Len(Tail(queue)) : Tail(queue)[i].op \in {"MODE"}
    BY <1>2, <1>3, <1>6, SaysType
  <2> QED BY <1>2, <2>1, SaysEach
<1>7. ASSUME queue[1].op = "in", "mode" \notin env PROVE Tail(queue) \in Seq(Says({}))
  <2>1. \A i \in 1..Len(Tail(queue)) : Tail(queue)[i].op \in {}
    <3>1. \A i \in 1..Len(Tail(queue)) : Tail(queue)[i].op \in {"in"}
      BY <1>4, <1>7, SaysType
    <3> QED BY <1>3, <1>7, <3>1
  <2> QED BY <1>2, <2>1, SaysEach
<1> QED BY <1>1, <1>2, <1>3, <1>4, <1>5, <1>6, <1>7

(* The card is found: the list has its node, and the music task may begin.  *)
LEMMA CardFound ==
  ASSUME Types, Alone, Waiting, OtherDeviceIn
  PROVE  Present' /\ Alone'
<1> DEFINE q == Tail(queue)
<1>1. /\ task = "other" /\ scan = "none" /\ queue # << >> /\ queue[1].op = "in"
      /\ dev_manager_add(queue[1].dev) /\ UNCHANGED <<world, player, control>>
      /\ music_task_start(q) \/ (queue' = q /\ UNCHANGED <<task, starting>>)
  BY DEF OtherDeviceIn, Take
<1>2. UNCHANGED <<dev, fsn, dec, scan, bp, broke, file_err_counter, env, inserted, card, seen>>
  BY <1>1 DEF player, control, world
<1>3. /\ queue[1].dev = Main /\ Main \in seen /\ Main \in inserted
      /\ q \in Seq(Says({"MODE"})) /\ ("mode" \notin env => q \in Seq(Says({})))
  BY <1>1, WaitingTail DEF Alone
<1> HIDE DEF q
<1>4. /\ list' = <<Main>> /\ live' = {Main} /\ Main \in valid'
  <2>1. list = << >> /\ ~ \E i \in DOMAIN list : list[i] = Main
    BY DEF Waiting
  <2>2. ToSet(list) = {}
    BY <2>1 DEF ToSet
  <2>3. live = {} /\ Append(list, Main) = <<Main>>
    BY <2>1, <2>2 DEF Types, NodesOK
  <2> QED BY <1>1, <1>3, <2>1, <2>3 DEF dev_manager_add
<1>5. /\ \A O : {"MODE"} \subseteq O => q \in Seq(Says(O))
      /\ "mode" \notin env => \A O : q \in Seq(Says(O))
  BY <1>3, SaysSubset
<1>6. Once(q, "START") /\ Heard(q) /\ Started(q) /\ q \in Seq(Says({"MODE", "START"}))
  <2>1. Once(q, "START")
    <3>1. \A i \in 1..Len(q) : q[i].op \in {"MODE"}
      BY <1>3, SaysType
    <3> QED BY <3>1 DEF Once
  <2>2. {"MODE"} \subseteq MusicOps /\ {"MODE"} \subseteq MusicOps \ {"START"}
    BY DEF MusicOps
  <2> HIDE DEF MusicOps
  <2> QED BY <1>5, <2>1, <2>2 DEF Heard, Started
<1>7. Heard(queue') /\ Started(queue') /\ queue' \in Seq(Says({"MODE", "START"}))
  <2>1. CASE music_task_start(q)
    BY <1>6, <2>1, EmptiedHeard DEF music_task_start
  <2>2. CASE queue' = q
    BY <1>6, <2>2
  <2> QED BY <1>1, <2>1, <2>2
<1>8. /\ dev' = None /\ dev' # Main /\ fsn' = NoScan /\ file_err_counter' = 0 /\ scan' = "none" /\ dec' = "none"
      /\ ~ broke'
  BY <1>1, <1>2, DeviceAssumption DEF Waiting, Types, PlayerOK
<1>9. Holding'
  BY <1>4, <1>7, <1>8 DEF Holding, OneFailure
<1>10. Heard(queue)' /\ Started(queue)'
  BY <1>2, <1>7 DEF Heard, Started
<1>11. Present'
  BY <1>2, <1>3, <1>4, <1>8, <1>9, <1>10 DEF Present
<1>12. Alone'
  BY <1>1, <1>2, AloneNext
<1> QED BY <1>11, <1>12

LEMMA WaitingOtherKey ==
  ASSUME Types, Alone, Waiting, OtherKey
  PROVE  Waiting' /\ Alone'
<1>1. /\ queue # << >> /\ UNCHANGED <<world, nodes, player, control>>
      /\ music_task_start(Tail(queue)) \/ (queue' = Tail(queue) /\ UNCHANGED <<task, starting>>)
  BY DEF OtherKey, Take
<1>2. UNCHANGED <<dev, fsn, bp, broke, file_err_counter, env, inserted, card, seen, list, mounted, valid>>
  BY <1>1 DEF player, control, world, nodes
<1>3. ~ music_task_start(Tail(queue))
  <2>1. ToSet(list) = {}
    BY DEF Waiting, ToSet
  <2> QED BY <1>2, <2>1 DEF Types, NodesOK, music_task_start
<1>4. Waiting'
  BY <1>1, <1>2, <1>3, WaitingTail, WaitingNext
<1> QED BY <1>1, <1>2, <1>4, AloneNext

LEMMA WaitingPress ==
  ASSUME Types, Alone, Waiting, NEW k \in UserKeys, Press(k)
  PROVE  Waiting' /\ Alone'
<1>1. /\ k = "MODE" /\ "mode" \in env /\ queue' = Append(queue, Key("MODE"))
      /\ UNCHANGED <<world, nodes, task, starting, player, control>>
  BY DEF Press, Post, Waiting
<1>2. UNCHANGED <<dev, fsn, bp, broke, file_err_counter, env, inserted, card, seen, list>>
  BY <1>1 DEF player, control, world, nodes
<1>3. Key("MODE") \in Messages /\ Key("MODE").op = "MODE"
  BY KeyIsMessage, KeyOp DEF UserKeys
<1>4. queue' \in Seq(Says({"in", "MODE"})) /\ (Main \notin seen => queue' \in Seq(Says({"MODE"})))
  BY <1>1, <1>3, SaysAppend DEF Waiting
<1>5. Once(queue', "in")
  <2>1. queue \in Seq(Messages) /\ Once(queue, "in")
    BY SaysType DEF Waiting
  <2> QED BY <1>1, <1>3, <2>1, OnceAppend
<1>6. Waiting'
  BY <1>1, <1>2, <1>4, <1>5, WaitingNext
<1> QED BY <1>1, <1>2, <1>6, AloneNext

LEMMA WaitingDetect ==
  ASSUME Types, Alone, Waiting, Main \in inserted, Main \notin seen, Detect(Main)
  PROVE  Waiting' /\ Alone'
<1>1. /\ seen' = seen \union {Main} /\ queue' = Append(queue, Arrives(Main))
      /\ UNCHANGED <<env, inserted, card, nodes, task, starting, player, control>>
  BY DEF Detect
<1>2. UNCHANGED <<dev, fsn, bp, broke, file_err_counter, list>>
  BY <1>1 DEF player, control, nodes
<1>3. Arrives(Main) \in Messages /\ Arrives(Main).op = "in" /\ Arrives(Main).dev = Main
  BY KeyIsMessage, DeviceAssumption DEF Arrives
<1>4. queue \in Seq(Says({"MODE"})) /\ queue \in Seq(Says({"in", "MODE"})) /\ Once(queue, "in")
      /\ ("mode" \notin env => queue \in Seq(Says({"in"})))
  BY DEF Waiting
<1>5. /\ queue' \in Seq(Says({"in", "MODE"}))
      /\ ("mode" \notin env => queue' \in Seq(Says({"in"})))
  BY <1>1, <1>3, <1>4, SaysAppend
<1>6. Once(queue', "in")
  <2>1. queue \in Seq(Messages) /\ \A i \in 1..Len(queue) : queue[i].op # "in"
    BY <1>4, SaysType
  <2> QED BY <1>1, <1>3, <1>4, <2>1, OnceAppend
<1>7. Waiting'
  BY <1>1, <1>2, <1>5, <1>6 DEF Waiting
<1>8. Alone'
  BY <1>1, <1>2 DEF Alone
<1> QED BY <1>7, <1>8

LEMMA WaitingKept ==
  ASSUME Types, OneDisturbance, Alone, Waiting, Next
  PROVE  (Waiting' \/ Present') /\ Alone'
<1>0. task = "other" /\ dec = "none" /\ scan = "none" /\ ~ starting
  BY DEF Waiting, Types, PlayerOK
<1>1. CASE music_key_event_opr BY <1>0, <1>1 DEF music_key_event_opr
<1>2. CASE MusicQuit BY <1>0, <1>2 DEF MusicQuit
<1>3. CASE DeviceOut
  <2>1. queue # << >> /\ queue[1].op = "out"
    BY <1>3 DEF DeviceOut, Take
  <2> QED BY <2>1, WaitingTail
<1>4. CASE DeviceIn BY <1>0, <1>4 DEF DeviceIn
<1>5. CASE OtherDeviceIn BY <1>5, CardFound
<1>6. CASE OtherKey BY <1>6, WaitingOtherKey
<1>7. CASE ToneEnd BY <1>0, <1>7 DEF ToneEnd
<1>8. CASE music_player_scandisk_break BY <1>0, <1>8 DEF music_player_scandisk_break
<1>9. CASE ScanEnd BY <1>0, <1>9 DEF ScanEnd
<1>10. CASE FileEnds BY <1>0, <1>10 DEF FileEnds, Ends
<1>11. CASE ReadFails BY <1>0, <1>11 DEF ReadFails, Ends
<1>12. ASSUME NEW d \in Used, PutIn(d) \/ PullOut(d) \/ Detect(d) PROVE Waiting' /\ Alone'
  BY <1>12, NotMoved, WaitingDetect
<1>13. ASSUME NEW k \in UserKeys, Press(k) PROVE Waiting' /\ Alone'
  BY <1>13, WaitingPress
<1> QED
  BY <1>1, <1>2, <1>3, <1>4, <1>5, <1>6, <1>7, <1>8, <1>9, <1>10, <1>11, <1>12, <1>13 DEF Next

LEMMA EnvKept == ASSUME [Next]_vars PROVE env' = env
BY DEF Next, vars, world, music_key_event_opr, MusicQuit, music_task_close, DeviceOut, DeviceIn,
  OtherDeviceIn, OtherKey, ToneEnd, music_player_scandisk_break, ScanEnd, FileEnds, ReadFails, Ends,
  PutIn, PullOut, Detect, Press

LEMMA InitSteady == Init => Steady
<1> SUFFICES ASSUME Init, OneDisturbance PROVE Alone /\ Waiting
  BY DEF Steady
<1>1. inserted \subseteq {Main} /\ seen = {} /\ bp = [d \in Devices |-> "none"]
  BY DEF Init, OneDisturbance, Used
<1>2. \A O : queue \in Seq(Says(O))
  BY DEF Init
<1>3. Once(queue, "in")
  BY DEF Init, Once
<1> QED BY <1>1, <1>2, <1>3 DEF Init, Alone, Waiting

LEMMA StepSteady == ASSUME Types, Steady, [Next]_vars PROVE Steady'
<1> SUFFICES ASSUME OneDisturbance' PROVE Alone' /\ (Waiting' \/ Present')
  BY DEF Steady
<1>1. OneDisturbance
  BY EnvKept DEF OneDisturbance
<1>2. Alone /\ (Waiting \/ Present)
  BY <1>1 DEF Steady
<1>3. CASE Next /\ Waiting
  BY <1>1, <1>2, <1>3, WaitingKept
<1>4. CASE Next /\ Present
  BY <1>1, <1>2, <1>4, PresentKept
<1>5. CASE UNCHANGED vars
  <2>1. UNCHANGED <<env, inserted, card, seen, list, mounted, live, valid, queue, task, starting, dev,
                    fsn, dec, scan, bp, broke, file_err_counter>>
    BY <1>5 DEF vars, world, nodes, player, control
  <2>2. Alone'
    BY <1>2, <2>1 DEF Alone
  <2>3. ASSUME Waiting PROVE Waiting'
    BY <2>1, <2>3 DEF Waiting
  <2>4. ASSUME Present PROVE Present'
    BY <2>1, <2>4 DEF Present, Heard, Started, GoodCard, FilesOf, Holding, OneFailure
  <2> QED BY <1>2, <2>2, <2>3, <2>4
<1> QED BY <1>2, <1>3, <1>4, <1>5

(* A card that is not moved is not given up when all but one of its files   *)
(* at most can be decoded, whatever keys are pressed and however they come  *)
(* between the messages the music task posts to itself; for any cards.      *)
THEOREM GoodDeviceIsKept == Spec => []GoodDeviceKept
<1>1. Spec => []Types
  BY InitTypes, StepTypes, PTL DEF Spec
<1>2. Spec => []Steady
  BY <1>1, InitSteady, StepSteady, PTL DEF Spec
<1>3. ASSUME Types, Steady PROVE GoodDeviceKept
  <2> SUFFICES ASSUME OneDisturbance, NEW d \in live \intersect mounted,
                      FilesOf(d, "good") # {}, Cardinality(FilesOf(d, "bad")) <= 1
               PROVE  d \in valid
    BY DEF GoodDeviceKept
  <2>1. Waiting \/ Present
    BY <1>3 DEF Steady
  <2>2. CASE Waiting
    <3>1. ToSet(list) = {}
      BY <2>2 DEF Waiting, ToSet
    <3> QED BY <1>3, <3>1 DEF Types, NodesOK
  <2>3. CASE Present
    <3>1. d = Main /\ Main \in mounted
      BY <2>3 DEF Present
    <3>2. Holding
      BY <2>3, <3>1 DEF Present, GoodCard
    <3> QED BY <3>1, <3>2 DEF Holding
  <2> QED BY <2>1, <2>2, <2>3
<1> QED BY <1>1, <1>2, <1>3, PTL
=============================================================================
