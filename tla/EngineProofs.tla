---------------------------- MODULE EngineProofs ----------------------------
(***************************************************************************)
(* Facts about the operators on the conversation log, for every log: that  *)
(* Repair returns the messages it keeps, in their order, that what it      *)
(* returns is well formed, and which messages may follow such a log.  Then *)
(* what a turn of the engine guarantees for every registry of tools, every *)
(* log, every reply, every bound on the rounds and every size of the pool: *)
(* calls executed once, the barrier, a well formed log, and that the turn  *)
(* implements ToolLoop.                                                    *)
(***************************************************************************)
EXTENDS AgentEngine, FiniteSetTheorems, SequenceTheorems, TLAPS

-----------------------------------------------------------------------------
(* The operators on the conversation log                                   *)

\* A nonempty set of naturals has a least member.
LEMMA LeastNat ==
  ASSUME NEW T \in SUBSET Nat, T # {}
  PROVE  \E x \in T : \A y \in T : x <= y
<1> DEFINE R == OpToRel(<, Nat)
<1>1. IsWellFoundedOn(R, Nat)
  BY NatLessThanWellFounded
<1> HIDE DEF R
<1>2. \E x \in T : \A y \in T : ~(<<y, x>> \in R)
  BY <1>1, WFMin
<1>3. PICK x \in T : \A y \in T : ~(<<y, x>> \in R)
  BY <1>2
<1>4. ASSUME NEW y \in T PROVE x <= y
  <2>1. x \in Nat /\ y \in Nat
    OBVIOUS
  <2>2. ~(<<y, x>> \in R)
    BY <1>3
  <2> QED BY <2>1, <2>2 DEF R, OpToRel
<1> QED BY <1>4

\* A set of positions of a log is finite.
LEMMA Positions ==
  ASSUME NEW n \in Nat, NEW K \in SUBSET (1..n)
  PROVE  /\ IsFiniteSet(K) /\ Cardinality(K) \in Nat
         /\ \A j \in K : j \in Nat /\ 1 <= j /\ j <= n
<1>1. IsFiniteSet(1..n)
  BY FS_Interval
<1>2. IsFiniteSet(K)
  BY <1>1, FS_Subset
<1>3. Cardinality(K) \in Nat
  BY <1>2, FS_CardinalityType
<1> QED BY <1>2, <1>3

\* A finite set of positive numbers has a k-th smallest member, for every k up
\* to its size: the CHOOSE of Nth chooses it.
LEMMA NthMember ==
  ASSUME NEW n \in Nat, NEW K \in SUBSET (1..n), NEW k \in 1..Cardinality(K)
  PROVE  /\ Nth(K, k) \in K
         /\ Cardinality({j \in K : j <= Nth(K, k)}) = k
<1> DEFINE Below(m) == {j \in K : j <= m}
<1>1. IsFiniteSet(K) /\ Cardinality(K) \in Nat
  BY Positions
<1>2. \A j \in K : j \in Nat /\ 1 <= j /\ j <= n
  BY Positions
<1>3. k \in Nat /\ 1 <= k /\ k <= Cardinality(K)
  BY <1>1
<1>4. ASSUME NEW m \in Nat
      PROVE  IsFiniteSet(Below(m)) /\ Cardinality(Below(m)) \in Nat
  <2>1. Below(m) \in SUBSET K
    OBVIOUS
  <2>2. IsFiniteSet(Below(m))
    BY <1>1, <2>1, FS_Subset
  <2> QED BY <2>2, FS_CardinalityType
<1>5. Below(n) = K
  BY <1>2
<1>6. Below(0) = {}
  <2>1. \A j \in K : ~(j <= 0)
    BY <1>2
  <2> QED BY <2>1
<1>7. ASSUME NEW m \in Nat, m + 1 \in K
      PROVE  Below(m + 1) = Below(m) \cup {m + 1} /\ m + 1 \notin Below(m)
  <2>1. \A j \in K : j <= m + 1 <=> j <= m \/ j = m + 1
    BY <1>2
  <2>2. ~(m + 1 <= m)
    OBVIOUS
  <2> QED BY <2>1, <2>2, <1>7
<1>8. ASSUME NEW m \in Nat, m + 1 \notin K
      PROVE  Below(m + 1) = Below(m)
  <2>1. \A j \in K : j <= m + 1 <=> j <= m
    BY <1>2, <1>8
  <2> QED BY <2>1
<1> HIDE DEF Below
<1> DEFINE T == {m \in Nat : Cardinality(Below(m)) >= k}
<1>9. n \in T
  BY <1>5, <1>3, <1>1
<1>10. PICK m \in T : \A y \in T : m <= y
  <2>1. T \in SUBSET Nat /\ T # {}
    BY <1>9
  <2> HIDE DEF T
  <2> QED BY <2>1, LeastNat
<1>11. m \in Nat /\ Cardinality(Below(m)) >= k
  OBVIOUS
<1>12. m # 0
  BY <1>11, <1>6, <1>3, FS_EmptySet
<1>13. PICK p \in Nat : m = p + 1
  <2>1. m - 1 \in Nat /\ m = (m - 1) + 1
    BY <1>11, <1>12
  <2> QED BY <2>1
<1>14. Cardinality(Below(p)) < k
  <2>1. p \notin T
    BY <1>10, <1>11, <1>13
  <2> QED BY <2>1, <1>4, <1>3
<1>15. m \in K
  BY <1>8, <1>13, <1>14, <1>11, <1>3, <1>4
<1>16. Cardinality(Below(m)) = Cardinality(Below(p)) + 1
  BY <1>4, <1>7, <1>13, <1>15, FS_AddElement
<1>17. Cardinality(Below(m)) = k
  BY <1>16, <1>14, <1>11, <1>3, <1>4
<1> QED BY <1>15, <1>17 DEF Nth, Below

\* The constructor builds messages.
LEMMA MessageType ==
  ASSUME NEW homes, NEW role \in Roles, NEW ids \in Seq(Nat), NEW id \in Nat,
         NEW home \in homes
  PROVE  Message(role, ids, id, home) \in Messages(homes)
BY DEF Message, Messages

\* Repair returns a log over the same messages: it invents and alters none.
LEMMA RepairType ==
  ASSUME NEW S, NEW h \in Seq(S)
  PROVE  Repair(h) \in Seq(S)
<1> DEFINE K == {i \in DOMAIN h : Keeps(h, i)}
<1>1. Len(h) \in Nat /\ DOMAIN h = 1..Len(h)
  OBVIOUS
<1>2. K \in SUBSET (1..Len(h))
  BY <1>1
<1>3. Cardinality(K) \in Nat
  BY <1>1, <1>2, Positions
<1> HIDE DEF K
<1>4. ASSUME NEW k \in 1..Cardinality(K) PROVE h[Nth(K, k)] \in S
  <2>1. Nth(K, k) \in K
    BY <1>1, <1>2, NthMember
  <2>2. Nth(K, k) \in 1..Len(h)
    BY <2>1, <1>2
  <2> HIDE DEF Nth
  <2> QED BY <2>2
<1>5. [k \in 1..Cardinality(K) |-> h[Nth(K, k)]] \in Seq(S)
  BY <1>3, <1>4, IsASeq
<1> QED BY <1>5 DEF Repair, K

\* Repair keeps the order of the messages: of two kept messages the later one
\* comes from a later position of the log.
LEMMA RepairKeepsOrder ==
  ASSUME NEW S, NEW h \in Seq(S), NEW k \in DOMAIN Repair(h),
         NEW l \in DOMAIN Repair(h), k < l
  PROVE  \E i, j \in DOMAIN h :
           /\ i < j /\ Keeps(h, i) /\ Keeps(h, j)
           /\ Repair(h)[k] = h[i] /\ Repair(h)[l] = h[j]
<1> DEFINE K == {i \in DOMAIN h : Keeps(h, i)}
<1>1. Len(h) \in Nat /\ DOMAIN h = 1..Len(h)
  OBVIOUS
<1>2. K \in SUBSET (1..Len(h))
  BY <1>1
<1>3. IsFiniteSet(K) /\ Cardinality(K) \in Nat
  BY <1>1, <1>2, Positions
<1>4. DOMAIN Repair(h) = 1..Cardinality(K)
  BY DEF Repair
<1>5. Repair(h)[k] = h[Nth(K, k)] /\ Repair(h)[l] = h[Nth(K, l)]
  BY <1>4 DEF Repair
<1> HIDE DEF K
<1> DEFINE i == Nth(K, k)
           j == Nth(K, l)
<1>6. i \in K /\ Cardinality({x \in K : x <= i}) = k
  BY <1>1, <1>2, <1>4, NthMember
<1>7. j \in K /\ Cardinality({x \in K : x <= j}) = l
  BY <1>1, <1>2, <1>4, NthMember
<1> HIDE DEF i, j
<1>8. i < j
  <2> SUFFICES ASSUME j <= i PROVE FALSE
    BY <1>2, <1>6, <1>7
  <2>0. \A x \in K : x <= j => x <= i
    BY <1>1, <1>2, <1>6, <1>7, Positions
  <2>1. {x \in K : x <= j} \in SUBSET {x \in K : x <= i}
    BY <2>0
  <2>2. {x \in K : x <= i} \in SUBSET K
    OBVIOUS
  <2>3. IsFiniteSet({x \in K : x <= i})
    BY <2>2, <1>3, FS_Subset
  <2>4. Cardinality({x \in K : x <= j}) <= Cardinality({x \in K : x <= i})
    BY <2>1, <2>3, FS_Subset
  <2>5. k \in Nat /\ l \in Nat
    BY <1>3, <1>4
  <2> QED BY <2>4, <2>5, <1>6, <1>7
<1> QED BY <1>5, <1>6, <1>7, <1>8 DEF K, i, j

\* Of two members of K, the smaller one has fewer members up to it.
LEMMA CountGrows ==
  ASSUME NEW n \in Nat, NEW K \in SUBSET (1..n), NEW i \in K, NEW j \in K, i < j
  PROVE  /\ Cardinality({x \in K : x <= i}) \in Nat
         /\ Cardinality({x \in K : x <= j}) \in Nat
         /\ Cardinality({x \in K : x <= i}) < Cardinality({x \in K : x <= j})
<1> DEFINE I == {x \in K : x <= i}
           J == {x \in K : x <= j}
<1>1. IsFiniteSet(K) /\ \A x \in K : x \in Nat
  BY Positions
<1>a. i \in Nat /\ j \in Nat
  BY <1>1
<1>b. \A x \in K : x <= i => x <= j
  BY <1>1, <1>a
<1>c. j <= j /\ ~(j <= i)
  BY <1>a
<1>2. I \in SUBSET J /\ J \in SUBSET K /\ j \in J /\ j \notin I
  BY <1>b, <1>c
<1> HIDE DEF I, J
<1>3. IsFiniteSet(J) /\ Cardinality(J) \in Nat
  BY <1>1, <1>2, FS_Subset, FS_CardinalityType
<1>4. IsFiniteSet(I) /\ Cardinality(I) \in Nat /\ Cardinality(I) <= Cardinality(J)
  BY <1>2, <1>3, FS_Subset, FS_CardinalityType
<1>5. Cardinality(I) # Cardinality(J)
  BY <1>2, <1>3, FS_Subset
<1> QED BY <1>3, <1>4, <1>5 DEF I, J

\* Nth enumerates a finite set of positive numbers upwards.
LEMMA NthEnumerates ==
  ASSUME NEW n \in Nat, NEW K \in SUBSET (1..n)
  PROVE  /\ Cardinality(K) \in Nat
         /\ \A k \in 1..Cardinality(K) : Nth(K, k) \in K
         /\ \A k, l \in 1..Cardinality(K) : k < l <=> Nth(K, k) < Nth(K, l)
         /\ \A i \in K : \E k \in 1..Cardinality(K) : Nth(K, k) = i
<1> DEFINE C == Cardinality(K)
           N(i) == Cardinality({x \in K : x <= i})
<1>1. C \in Nat /\ IsFiniteSet(K) /\ \A i \in K : i \in Nat
  BY Positions
<1>2. \A i, j \in K : i < j => N(i) < N(j) /\ N(i) \in Nat /\ N(j) \in Nat
  BY CountGrows
<1>3. \A k \in 1..C : Nth(K, k) \in K /\ N(Nth(K, k)) = k
  BY NthMember
<1>4. ASSUME NEW i \in K PROVE N(i) \in 1..C
  <2> DEFINE I == {x \in K : x <= i}
  <2>1. I \in SUBSET K /\ i \in I
    BY <1>1
  <2> HIDE DEF I
  <2>2. IsFiniteSet(I) /\ Cardinality(I) \in Nat /\ Cardinality(I) <= C
    BY <1>1, <2>1, FS_Subset, FS_CardinalityType
  <2>3. Cardinality(I) # 0
    BY <2>1, <2>2, FS_EmptySet
  <2> QED BY <1>1, <2>2, <2>3 DEF I
<1> HIDE DEF N, C
<1>5. ASSUME NEW k \in 1..C, NEW l \in 1..C PROVE k < l <=> Nth(K, k) < Nth(K, l)
  <2> DEFINE a == Nth(K, k)
             b == Nth(K, l)
  <2>1. a \in K /\ b \in K /\ N(a) = k /\ N(b) = l
    BY <1>3
  <2>2. a \in Nat /\ b \in Nat
    BY <1>1, <2>1
  <2> HIDE DEF a, b
  <2>3. k \in Int /\ l \in Int
    BY <1>1
  <2>4. a < b => k < l
    BY <1>2, <2>1
  <2>5. b < a => l < k
    BY <1>2, <2>1
  <2>6. a = b => k = l
    BY <2>1
  <2>7. k < l <=> a < b
    BY <2>2, <2>3, <2>4, <2>5, <2>6
  <2> QED BY <2>7 DEF a, b
<1>6. ASSUME NEW i \in K PROVE Nth(K, N(i)) = i
  <2> DEFINE a == Nth(K, N(i))
  <2>1. a \in K /\ N(a) = N(i)
    BY <1>3, <1>4
  <2> HIDE DEF a
  <2>2. a \in Nat /\ i \in Nat
    BY <1>1, <2>1
  <2>3. ~(a < i) /\ ~(i < a)
    BY <1>2, <2>1
  <2>4. a = i
    BY <2>2, <2>3
  <2> QED BY <2>4 DEF a
<1> QED BY <1>1, <1>3, <1>4, <1>5, <1>6 DEF C

\* What the code relies on when it sends the log: a repaired log is well formed,
\* whatever log it was made from (remove_incomplete_tool_groups).
THEOREM RepairWellFormed ==
  ASSUME NEW S, NEW h \in Seq(S)
  PROVE  WellFormed(Repair(h))
<1> DEFINE K == {i \in DOMAIN h : Keeps(h, i)}
           C == Cardinality(K)
           f(k) == Nth(K, k)
           r == Repair(h)
<1>1. Len(h) \in Nat /\ DOMAIN h = 1..Len(h)
  OBVIOUS
<1>2. K \in SUBSET (1..Len(h)) /\ \A i \in K : i \in DOMAIN h /\ Keeps(h, i) /\ i \in Int
  BY <1>1
<1>3. \A i \in DOMAIN h : Keeps(h, i) => i \in K
  OBVIOUS
<1>4. DOMAIN r = 1..C /\ \A k \in 1..C : r[k] = h[f(k)]
  BY DEF Repair
<1> HIDE DEF K, r
<1>5. /\ C \in Nat /\ \A k \in 1..C : f(k) \in K
      /\ \A k, l \in 1..C : k < l <=> f(k) < f(l)
      /\ \A i \in K : \E k \in 1..C : f(k) = i
  BY <1>1, <1>2, NthEnumerates
<1> HIDE DEF C, f
\* Outputs of a complete group stay, and are the outputs of its image.
<1>6. ASSUME NEW k \in 1..C, IsCall(h, f(k)), Complete(h, f(k)), NEW l \in 1..C
      PROVE  l \in Outputs(r, k) <=> f(l) \in Outputs(h, f(k))
  <2>1. f(k) \in K /\ f(l) \in K /\ f(k) \in Int /\ f(l) \in Int
    BY <1>2, <1>5
  <2>2. k \in Int /\ l \in Int
    BY <1>5
  <2>3. ASSUME f(l) \in Outputs(h, f(k)) PROVE l \in Outputs(r, k)
    <3>1. f(l) > f(k) /\ \A x \in (f(k) + 1)..f(l) : h[x].role = "tool"
      BY <2>3 DEF Outputs
    <3>2. l > k
      BY <1>5, <3>1
    <3>3. ASSUME NEW m \in (k + 1)..l PROVE r[m].role = "tool"
      <4>1. m \in 1..C /\ k < m /\ (m < l \/ m = l)
        BY <1>5
      <4>2. f(k) < f(m) /\ (f(m) < f(l) \/ f(m) = f(l)) /\ f(m) \in Int
        BY <1>2, <1>5, <4>1
      <4>3. f(m) \in (f(k) + 1)..f(l)
        BY <2>1, <4>2
      <4> QED BY <1>4, <3>1, <4>1, <4>3
    <3> QED BY <1>4, <3>2, <3>3 DEF Outputs
  <2>4. ASSUME l \in Outputs(r, k) PROVE f(l) \in Outputs(h, f(k))
    <3>1. l > k /\ \A m \in (k + 1)..l : r[m].role = "tool"
      BY <2>4 DEF Outputs
    <3>2. f(k) < f(l) /\ f(l) \in DOMAIN h
      BY <1>2, <1>5, <2>1, <2>2, <3>1
    <3>3. h[f(l)].role = "tool"
      <4>1. l \in (k + 1)..l
        BY <2>2, <3>1
      <4> QED BY <1>4, <3>1, <4>1
    <3>4. PICK g \in DOMAIN h : IsCall(h, g) /\ f(l) \in Outputs(h, g) /\ Complete(h, g)
      BY <1>2, <2>1, <3>3 DEF Keeps, Answers
    <3>5. h[g].role = "assistant" /\ g < f(l) /\ \A x \in (g + 1)..f(l) : h[x].role = "tool"
      BY <3>4 DEF IsCall, Outputs
    <3>6. g \in K /\ g \in Int
      BY <1>1, <1>3, <3>4, <3>5 DEF Keeps
    <3>7. PICK m \in 1..C : f(m) = g
      BY <1>5, <3>6
    <3>8. ~(f(k) < g)
      <4> SUFFICES ASSUME f(k) < g PROVE FALSE
        OBVIOUS
      <4>1. k < m /\ m < l
        BY <1>5, <3>5, <3>7
      <4>2. m \in (k + 1)..l
        BY <1>5, <2>2, <4>1
      <4>3. r[m].role = "tool" /\ r[m] = h[g]
        BY <1>4, <3>1, <3>7, <4>2
      <4> QED BY <3>5, <4>3
    <3>9. ASSUME NEW x \in (f(k) + 1)..f(l) PROVE h[x].role = "tool"
      <4>1. x \in (g + 1)..f(l)
        BY <2>1, <3>6, <3>8
      <4> QED BY <3>5, <4>1
    <3> QED BY <3>2, <3>9 DEF Outputs
  <2> QED BY <2>3, <2>4
<1>7. ASSUME NEW k \in 1..C, IsCall(h, f(k)), Complete(h, f(k))
      PROVE  IsCall(r, k) /\ Complete(r, k)
  <2>1. r[k] = h[f(k)] /\ f(k) \in DOMAIN h
    BY <1>2, <1>4, <1>5
  <2>2. \A l \in Outputs(r, k) : l \in 1..C /\ f(l) \in Outputs(h, f(k)) /\ r[l] = h[f(l)]
    BY <1>4, <1>6, <1>7 DEF Outputs
  <2>3. ASSUME NEW j \in Outputs(h, f(k)) PROVE \E l \in Outputs(r, k) : f(l) = j
    <3>1. j \in DOMAIN h /\ h[j].role = "tool"
      BY <1>1, <2>1, <2>3 DEF Outputs
    <3>2. j \in K
      BY <1>3, <1>7, <2>1, <2>3, <3>1 DEF Keeps, Answers
    <3>3. PICK l \in 1..C : f(l) = j
      BY <1>5, <3>2
    <3> QED BY <1>6, <1>7, <2>3, <3>3
  <2>4. \A i, j \in Outputs(r, k) : i # j => f(i) # f(j)
    <3>1. \A i, j \in 1..C : i < j \/ j < i \/ i = j
      BY <1>5
    <3>2. \A i \in 1..C : f(i) \in Int
      BY <1>2, <1>5
    <3> QED BY <1>5, <2>2, <3>1, <3>2
  <2>5. \A i, j \in Outputs(r, k) : i # j => r[i].id # r[j].id
    BY <1>7, <2>2, <2>4 DEF Complete
  <2>6. {r[l].id : l \in Outputs(r, k)} = {h[j].id : j \in Outputs(h, f(k))}
    BY <2>2, <2>3
  <2>7. IsCall(r, k)
    BY <1>7, <2>1 DEF IsCall
  <2>8. /\ \A m, n \in DOMAIN h[f(k)].calls :
             m # n => h[f(k)].calls[m] # h[f(k)].calls[n]
        /\ \A n \in DOMAIN h[f(k)].calls : h[f(k)].calls[n] # NoId
        /\ {h[j].id : j \in Outputs(h, f(k))}
             = {h[f(k)].calls[n] : n \in DOMAIN h[f(k)].calls}
    BY <1>7 DEF Complete
  <2>9. {r[l].id : l \in Outputs(r, k)} = {r[k].calls[n] : n \in DOMAIN r[k].calls}
    BY <2>1, <2>6, <2>8
  <2>10. /\ \A m, n \in DOMAIN r[k].calls : m # n => r[k].calls[m] # r[k].calls[n]
         /\ \A n \in DOMAIN r[k].calls : r[k].calls[n] # NoId
    BY <2>1, <2>8
  <2>11. Complete(r, k)
    BY <2>5, <2>9, <2>10, Zenon DEF Complete
  <2> QED BY <2>7, <2>11
<1>8. ASSUME NEW k \in DOMAIN r PROVE Keeps(r, k)
  <2>1. k \in 1..C /\ r[k] = h[f(k)] /\ f(k) \in DOMAIN h /\ Keeps(h, f(k))
    BY <1>2, <1>4, <1>5
  <2>2. CASE r[k].role = "tool"
    <3>1. PICK g \in DOMAIN h : IsCall(h, g) /\ f(k) \in Outputs(h, g) /\ Complete(h, g)
      BY <2>1, <2>2 DEF Keeps, Answers
    <3>2. g \in K
      BY <1>3, <3>1 DEF Keeps, IsCall
    <3>3. PICK m \in 1..C : f(m) = g
      BY <1>5, <3>2
    <3>4. k \in Outputs(r, m) /\ IsCall(r, m) /\ Complete(r, m)
      BY <1>6, <1>7, <2>1, <3>1, <3>3
    <3> QED BY <1>4, <2>2, <3>3, <3>4 DEF Keeps, Answers
  <2>3. CASE r[k].role # "tool"
    <3>1. IsCall(r, k) => IsCall(h, f(k)) /\ Complete(h, f(k))
      BY <2>1, <2>3 DEF Keeps, IsCall
    <3> QED BY <1>7, <2>1, <2>3, <3>1 DEF Keeps
  <2> QED BY <2>2, <2>3
<1> QED BY <1>8 DEF WellFormed, r

\* What follows a log on a message that is no output leaves its groups alone.
LEMMA PrefixKeeps ==
  ASSUME NEW S, NEW h \in Seq(S), NEW g \in Seq(S), Len(h) < Len(g),
         \A i \in 1..Len(h) : g[i] = h[i], g[Len(h) + 1].role # "tool",
         WellFormed(h)
  PROVE  \A i \in 1..Len(h) : Keeps(g, i)
<1>1. Len(h) \in Nat /\ Len(g) \in Nat /\ DOMAIN h = 1..Len(h) /\ DOMAIN g = 1..Len(g)
  OBVIOUS
<1>2. ASSUME NEW i \in 1..Len(h) PROVE Outputs(g, i) = Outputs(h, i)
  <2>1. ASSUME NEW j \in Outputs(g, i) PROVE j \in Outputs(h, i)
    <3>1. j \in 1..Len(g) /\ j > i /\ \A k \in (i + 1)..j : g[k].role = "tool"
      BY <1>1 DEF Outputs
    <3>2. j <= Len(h)
      <4> SUFFICES ASSUME j > Len(h) PROVE FALSE
        BY <1>1, <3>1
      <4>1. Len(h) + 1 \in (i + 1)..j
        BY <1>1, <3>1
      <4> QED BY <3>1, <4>1
    <3>3. \A k \in (i + 1)..j : k \in 1..Len(h)
      BY <1>1, <3>1, <3>2
    <3> QED BY <1>1, <3>1, <3>2, <3>3 DEF Outputs
  <2>2. ASSUME NEW j \in Outputs(h, i) PROVE j \in Outputs(g, i)
    <3>1. j \in 1..Len(h) /\ j > i /\ \A k \in (i + 1)..j : h[k].role = "tool"
      BY <1>1 DEF Outputs
    <3>2. \A k \in (i + 1)..j : k \in 1..Len(h)
      BY <1>1, <3>1
    <3>3. j \in DOMAIN g
      BY <1>1, <3>1
    <3> QED BY <1>1, <3>1, <3>2, <3>3 DEF Outputs
  <2> QED BY <2>1, <2>2
<1>3. ASSUME NEW i \in 1..Len(h) PROVE Complete(g, i) <=> Complete(h, i)
  <2> DEFINE Calls(x) == /\ \A m, n \in DOMAIN x[i].calls :
                              m # n => x[i].calls[m] # x[i].calls[n]
                         /\ \A n \in DOMAIN x[i].calls : x[i].calls[n] # NoId
             Outs(x)  == \A j, k \in Outputs(x, i) : j # k => x[j].id # x[k].id
             Given(x) == {x[j].id : j \in Outputs(x, i)}
             Asked(x) == {x[i].calls[n] : n \in DOMAIN x[i].calls}
  <2>1. Complete(g, i) <=> Calls(g) /\ Outs(g) /\ Given(g) = Asked(g)
    BY Zenon DEF Complete
  <2>2. Complete(h, i) <=> Calls(h) /\ Outs(h) /\ Given(h) = Asked(h)
    BY Zenon DEF Complete
  <2>3. Outputs(g, i) = Outputs(h, i) /\ g[i] = h[i]
    BY <1>2
  <2>4. \A j \in Outputs(h, i) : g[j] = h[j]
    BY <1>1 DEF Outputs
  <2>5. Given(g) = Given(h)
    BY <2>3, <2>4
  <2>6. Outs(g) <=> Outs(h)
    BY <2>3, <2>4
  <2>7. (Calls(g) <=> Calls(h)) /\ Asked(g) = Asked(h)
    BY <2>3
  <2> HIDE DEF Calls, Outs, Given, Asked
  <2> QED BY <2>1, <2>2, <2>5, <2>6, <2>7
<1>4. ASSUME NEW i \in 1..Len(h) PROVE Keeps(g, i)
  <2>1. Keeps(h, i) /\ g[i] = h[i]
    BY <1>1 DEF WellFormed
  <2>2. CASE h[i].role = "tool"
    <3>1. PICK c \in 1..Len(h) : IsCall(h, c) /\ i \in Outputs(h, c) /\ Complete(h, c)
      BY <1>1, <2>1, <2>2 DEF Keeps, Answers
    <3>2. c \in DOMAIN g /\ IsCall(g, c) /\ i \in Outputs(g, c) /\ Complete(g, c)
      BY <1>1, <1>2, <1>3, <3>1 DEF IsCall
    <3> QED BY <2>1, <2>2, <3>2 DEF Keeps, Answers
  <2>3. CASE h[i].role # "tool"
    BY <1>3, <2>1, <2>3 DEF Keeps, IsCall
  <2> QED BY <2>2, <2>3
<1> QED BY <1>4

\* A message that is neither an output nor a call may follow.
LEMMA AppendWellFormed ==
  ASSUME NEW S, NEW h \in Seq(S), NEW e \in S, WellFormed(h),
         e.role # "tool", e.calls = << >>
  PROVE  WellFormed(Append(h, e))
<1> DEFINE g == Append(h, e)
<1>1. /\ g \in Seq(S) /\ Len(g) = Len(h) + 1 /\ Len(h) \in Nat
      /\ \A i \in 1..Len(h) : g[i] = h[i]
      /\ g[Len(h) + 1] = e
  BY AppendProperties
<1>2. DOMAIN g = 1..Len(h) \cup {Len(h) + 1}
  BY <1>1
<1> HIDE DEF g
<1>3. \A i \in 1..Len(h) : Keeps(g, i)
  BY <1>1, PrefixKeeps
<1>4. Keeps(g, Len(h) + 1)
  BY <1>1 DEF Keeps, IsCall
<1>5. WellFormed(g)
  BY <1>2, <1>3, <1>4 DEF WellFormed
<1> QED BY <1>5 DEF g

\* A call and one output for each of its ids, in order, may follow.
LEMMA GroupWellFormed ==
  ASSUME NEW S, NEW h \in Seq(S), NEW g \in Seq(S), WellFormed(h),
         \A i \in 1..Len(h) : g[i] = h[i],
         NEW n \in Nat \ {0}, Len(g) = Len(h) + 1 + n,
         IsCall(g, Len(h) + 1), DOMAIN g[Len(h) + 1].calls = 1..n,
         \A j \in 1..n : /\ g[Len(h) + 1 + j].role = "tool"
                         /\ g[Len(h) + 1 + j].id = g[Len(h) + 1].calls[j]
                         /\ g[Len(h) + 1].calls[j] # NoId,
         \A j, k \in 1..n : j # k => g[Len(h) + 1].calls[j] # g[Len(h) + 1].calls[k]
  PROVE  WellFormed(g)
<1> DEFINE c   == Len(h) + 1
           ids == g[c].calls
<1>1. Len(h) \in Nat /\ c \in Nat /\ DOMAIN g = 1..Len(g) /\ c \in DOMAIN g
  OBVIOUS
<1>2. g[c].role # "tool"
  BY DEF IsCall
<1>3. \A i \in 1..Len(h) : Keeps(g, i)
  <2>1. Len(h) < Len(g)
    BY <1>1
  <2> QED BY <2>1, <1>2, PrefixKeeps
<1>4. \A i \in (c + 1)..(c + n) : i - c \in 1..n /\ i = c + (i - c) /\ i \in DOMAIN g
  BY <1>1
<1>5. \A j \in 1..n : c + j \in (c + 1)..(c + n) /\ g[c + j].id = ids[j]
  BY <1>1
<1>6. \A i \in (c + 1)..(c + n) : g[i].role = "tool" /\ g[i].id = ids[i - c]
  BY <1>4
<1> HIDE DEF ids
<1>7. Outputs(g, c) = (c + 1)..(c + n)
  <2>1. \A j \in (c + 1)..(c + n) : j > c /\ \A k \in (c + 1)..j : k \in (c + 1)..(c + n)
    BY <1>1
  <2>2. \A j \in DOMAIN g : j > c => j \in (c + 1)..(c + n)
    BY <1>1
  <2> QED BY <1>4, <1>6, <2>1, <2>2 DEF Outputs
<1>8. {g[j].id : j \in Outputs(g, c)} = {ids[k] : k \in 1..n}
  <2>1. ASSUME NEW j \in Outputs(g, c) PROVE g[j].id \in {ids[k] : k \in 1..n}
    <3>1. j - c \in 1..n /\ g[j].id = ids[j - c]
      BY <1>4, <1>6, <1>7
    <3> QED BY <3>1
  <2>2. ASSUME NEW k \in 1..n PROVE ids[k] \in {g[j].id : j \in Outputs(g, c)}
    BY <1>5, <1>7
  <2> QED BY <2>1, <2>2
<1>9. \A j, k \in Outputs(g, c) : j # k => g[j].id # g[k].id
  <2>1. \A j, k \in (c + 1)..(c + n) : j # k => j - c # k - c
    BY <1>1
  <2>2. \A j, k \in 1..n : j # k => ids[j] # ids[k]
    BY DEF ids
  <2> QED BY <1>4, <1>6, <1>7, <2>1, <2>2
<1>10. (\A j, k \in 1..n : j # k => ids[j] # ids[k]) /\ \A j \in 1..n : ids[j] # NoId
  BY DEF ids
<1>11. Complete(g, c)
  BY <1>8, <1>9, <1>10, Zenon DEF Complete, ids
<1>12. Keeps(g, c)
  BY <1>2, <1>11 DEF Keeps
<1>13. ASSUME NEW i \in (c + 1)..(c + n) PROVE Keeps(g, i)
  BY <1>1, <1>6, <1>7, <1>11 DEF Keeps, Answers
<1>14. \A i \in DOMAIN g : i \in 1..Len(h) \/ i = c \/ i \in (c + 1)..(c + n)
  BY <1>1
<1> QED BY <1>3, <1>12, <1>13, <1>14 DEF WellFormed

-----------------------------------------------------------------------------
(* Typing of the parts                                                     *)

Call == [name : Tools, id : Nat]

LEMMA ExceptInSeq ==
  ASSUME NEW S, NEW s \in Seq(S), NEW i, NEW v \in S
  PROVE  /\ [s EXCEPT ![i] = v] \in Seq(S)
         /\ DOMAIN [s EXCEPT ![i] = v] = DOMAIN s
         /\ \A j \in DOMAIN s : [s EXCEPT ![i] = v][j] = IF j = i THEN v ELSE s[j]
<1>1. PICK n \in Nat : s \in [1..n -> S]
  BY SeqDef
<1>2. [s EXCEPT ![i] = v] \in [1..n -> S]
  BY <1>1
<1>3. [s EXCEPT ![i] = v] \in Seq(S)
  BY <1>2, SeqDef
<1> QED BY <1>1, <1>2, <1>3

LEMMA GroupType ==
  ASSUME NEW c \in Seq(Call)
  PROVE  CallIds(c) \in Seq(Nat) /\ Group(c) \in Messages({ThisHome})
<1>1. ASSUME NEW i \in 1..Len(c) PROVE c[i].id \in Nat
  <2>1. c[i] \in Call
    BY ElementOfSeq
  <2> QED BY <2>1 DEF Call
<1>2. Len(c) \in Nat /\ DOMAIN c = 1..Len(c)
  OBVIOUS
<1>3. [i \in 1..Len(c) |-> c[i].id] \in Seq(Nat)
  BY <1>1, <1>2, IsASeq
<1>4. CallIds(c) \in Seq(Nat)
  BY <1>2, <1>3 DEF CallIds
<1> QED BY <1>4, MessageType DEF Group, Roles, NoId

LEMMA OutputType ==
  ASSUME NEW id \in Nat
  PROVE  Output(id) \in Messages({ThisHome})
<1>1. << >> \in Seq(Nat)
  OBVIOUS
<1> QED BY <1>1, MessageType DEF Output, Roles

LEMMA AnswerType ==
  Message("assistant", << >>, NoId, ThisHome) \in Messages({ThisHome})
<1>1. << >> \in Seq(Nat)
  OBVIOUS
<1> QED BY <1>1, MessageType DEF Roles, NoId

\* The calls that enter the log all have a name of the registry and an id.
LEMMA AcceptedCalls ==
  ASSUME NEW reply \in Replies, NEW r \in Nat,
         \A i \in DOMAIN reply : reply[i].name \in Tools
  PROVE  [i \in DOMAIN reply |->
            IF reply[i].id = NoId THEN [reply[i] EXCEPT !.id = MadeId(r, i)]
                                  ELSE reply[i]] \in Seq(Call)
<1>1. reply \in Seq([name : Tools \cup {Unknown}, id : Nat])
  BY EngineAssumption
<1>2. Len(reply) \in Nat /\ DOMAIN reply = 1..Len(reply)
  BY <1>1
<1>3. ASSUME NEW i \in 1..Len(reply)
      PROVE  (IF reply[i].id = NoId THEN [reply[i] EXCEPT !.id = MadeId(r, i)]
                                    ELSE reply[i]) \in Call
  <2>1. reply[i] \in [name : Tools \cup {Unknown}, id : Nat]
    BY <1>1, ElementOfSeq
  <2>2. reply[i].name \in Tools
    BY <1>2
  <2>3. MadeId(r, i) \in Nat
    BY <1>2 DEF MadeId
  <2> HIDE DEF MadeId
  <2> QED BY <2>1, <2>2, <2>3 DEF Call
<1>4. [i \in 1..Len(reply) |->
         IF reply[i].id = NoId THEN [reply[i] EXCEPT !.id = MadeId(r, i)]
                               ELSE reply[i]] \in Seq(Call)
  BY <1>2, <1>3, IsASeq
<1> QED BY <1>2, <1>4

-----------------------------------------------------------------------------
(* The invariant of a batch                                                *)

Active == {"waiting", "asking", "running"}

\* Everything TypeOK says but the typing of the trace, whose results are
\* outcomes only because a batch is recorded after all of it has settled.
Typed ==
  /\ pc \in {"start", "ask", "execute", "record", "done", "failed"}
  /\ messages \in Seq(Messages({ThisHome}))
  /\ round \in Nat /\ spoke \in BOOLEAN
  /\ calls \in Seq(Call) /\ base \in Nat
  /\ next \in Nat \ {0} /\ at \in [Threads -> Nat]
  /\ stage \in Seq(Stages)
  /\ index \in Nat \ {0}
  /\ trace \in Seq(Records)

\* Every index below the counter is settled or held by exactly one thread of
\* the pool, and only a gated call asks.
Held ==
  /\ DOMAIN stage = DOMAIN calls /\ next <= Len(calls) + 1
  /\ \A t \in Threads : at[t] # 0 =>
       t \in Pool /\ at[t] < next /\ stage[at[t]] \in Active
  /\ \A t, u \in Threads : t # u /\ at[t] # 0 => at[t] # at[u]
  /\ \A i \in DOMAIN calls :
       /\ i >= next => stage[i] = "waiting"
       /\ i < next /\ stage[i] \in Active => \E t \in Threads : at[t] = i
       /\ stage[i] = "asking" => calls[i].name \in Gated

\* When the results are recorded nothing is left to do.
AllSettled ==
  /\ next = Len(calls) + 1
  /\ \A i \in DOMAIN calls : stage[i] \in Settled

BatchInv ==
  /\ Typed
  /\ pc \in {"execute", "record"} => Held
  /\ pc = "record" => AllSettled

LEMMA InitBatch == Init => BatchInv
BY EngineAssumption DEF Init, BatchInv, Typed, Threads

LEMMA NextBatch == BatchInv /\ [Next]_vars => BatchInv'
<1> SUFFICES ASSUME BatchInv, [Next]_vars PROVE BatchInv'
  OBVIOUS
<1> USE EngineAssumption
<1>0. Typed
  BY DEF BatchInv
<1>1. CASE Start
  <2>1. Repair(messages) \in Seq(Messages({ThisHome}))
    BY <1>0, RepairType DEF Typed
  <2> QED BY <1>0, <1>1, <2>1 DEF Start, BatchInv, Typed, batchVars, poolVars
<1>2. CASE Delta
  BY <1>0, <1>2 DEF Delta, BatchInv, Typed, batchVars, poolVars
<1>3. CASE ProviderThrows
  BY <1>0, <1>3 DEF ProviderThrows, BatchInv, Typed, batchVars, poolVars
<1>4. CASE Answer
  <2>1. messages' \in Seq(Messages({ThisHome}))
    BY <1>0, <1>4, AnswerType, AppendProperties DEF Answer, Typed
  <2> QED BY <1>0, <1>4, <2>1 DEF Answer, BatchInv, Typed, batchVars, poolVars
<1>5. ASSUME NEW reply \in Replies, RejectReply(reply) PROVE BatchInv'
  BY <1>0, <1>5 DEF RejectReply, BatchInv, Typed, batchVars, poolVars
<1>6. ASSUME NEW reply \in Replies, AcceptReply(reply) PROVE BatchInv'
  <2>1. reply \in Seq([name : Tools \cup {Unknown}, id : Nat])
    OBVIOUS
  <2>2. Len(reply) \in Nat /\ DOMAIN reply = 1..Len(reply)
    BY <2>1
  <2>3. calls' \in Seq(Call) /\ DOMAIN calls' = DOMAIN reply
    BY <1>0, <1>6, AcceptedCalls DEF AcceptReply, Typed
  <2>4. messages' \in Seq(Messages({ThisHome}))
    <3>1. messages' = Append(messages, Group(calls'))
      BY <1>6 DEF AcceptReply
    <3> QED BY <1>0, <2>3, <3>1, GroupType, AppendProperties DEF Typed
  <2>5. stage' = [i \in 1..Len(reply) |-> "waiting"]
    BY <1>6, <2>2 DEF AcceptReply
  <2>6. stage' \in Seq(Stages)
    BY <2>2, <2>5, IsASeq DEF Stages
  <2>7. Len(calls') = Len(reply)
    BY <2>2, <2>3
  <2>8. /\ pc' = "execute" /\ base' = Len(messages)
        /\ at' = [t \in Threads |-> 0] /\ next' = 1 /\ index' = 1
        /\ UNCHANGED <<round, spoke, trace>>
    BY <1>6 DEF AcceptReply
  <2>9. Typed'
    <3>1. base' \in Nat
      BY <1>0, <2>8 DEF Typed
    <3>2. at' \in [Threads -> Nat]
      BY <2>8
    <3> QED BY <1>0, <2>3, <2>4, <2>6, <2>8, <3>1, <3>2 DEF Typed
  <2>10. Held'
    BY <2>2, <2>3, <2>5, <2>7, <2>8 DEF Held
  <2> QED BY <2>8, <2>9, <2>10 DEF BatchInv
<1>7. ASSUME NEW t \in Threads, Take(t) PROVE BatchInv'
  <2>1. Typed'
    BY <1>0, <1>7 DEF Take, Typed, batchVars
  <2>2. Held
    BY <1>7 DEF Take, BatchInv
  <2>3. next \in DOMAIN calls
    BY <1>0, <1>7 DEF Take, Typed
  <2>4. /\ at \in [Threads -> Nat] /\ at' = [at EXCEPT ![t] = next]
        /\ next' = next + 1 /\ UNCHANGED <<calls, stage>> /\ Pool' = Pool
    BY <1>0, <1>7 DEF Take, Typed, batchVars, Pool, Serial, AnyExclusive
  <2>5. /\ DOMAIN stage' = DOMAIN calls' /\ next' <= Len(calls') + 1
    BY <1>0, <2>2, <2>3, <2>4 DEF Held, Typed
  <2>6. \A u \in Threads : at'[u] # 0 =>
          u \in Pool' /\ at'[u] < next' /\ stage'[at'[u]] \in Active
    <3> SUFFICES ASSUME NEW u \in Threads, at'[u] # 0
                 PROVE  u \in Pool' /\ at'[u] < next' /\ stage'[at'[u]] \in Active
      OBVIOUS
    <3>1. CASE u = t
      BY <1>0, <1>7, <2>2, <2>3, <2>4, <3>1 DEF Take, Held, Active, Typed
    <3>2. CASE u # t
      <4>1. at'[u] = at[u]
        BY <2>4, <3>2
      <4>2. at[u] \in Nat /\ next \in Nat
        BY <1>0 DEF Typed
      <4> QED BY <2>2, <2>4, <4>1, <4>2 DEF Held
    <3> QED BY <3>1, <3>2
  <2>7. \A u, v \in Threads : u # v /\ at'[u] # 0 => at'[u] # at'[v]
    <3>1. next \in Nat /\ next # 0 /\ \A u \in Threads : at[u] \in Nat
      BY <1>0 DEF Typed
    <3>2. \A u \in Threads : at[u] # next
      BY <2>2, <3>1 DEF Held
    <3> QED BY <2>2, <2>4, <3>1, <3>2 DEF Held
  <2>8. \A i \in DOMAIN calls' :
          /\ i >= next' => stage'[i] = "waiting"
          /\ i < next' /\ stage'[i] \in Active => \E u \in Threads : at'[u] = i
          /\ stage'[i] = "asking" => calls'[i].name \in Gated
    <3> SUFFICES ASSUME NEW i \in DOMAIN calls
                 PROVE  /\ i >= next' => stage[i] = "waiting"
                        /\ i < next' /\ stage[i] \in Active =>
                             \E u \in Threads : at'[u] = i
                        /\ stage[i] = "asking" => calls[i].name \in Gated
      BY <2>4
    <3>1. i \in Nat /\ next \in Nat
      BY <1>0 DEF Typed
    <3>2. ASSUME i < next', stage[i] \in Active
          PROVE  \E u \in Threads : at'[u] = i
      <4>1. CASE i = next
        BY <2>4, <4>1
      <4>2. CASE i # next
        <5>1. PICK u \in Threads : at[u] = i
          BY <2>2, <2>4, <3>1, <3>2, <4>2 DEF Held
        <5>2. u # t
          BY <1>0, <1>7, <5>1 DEF Take, Typed
        <5> QED BY <2>4, <5>1, <5>2
      <4> QED BY <4>1, <4>2
    <3> QED BY <2>2, <2>4, <3>1, <3>2 DEF Held
  <2>9. Held'
    BY <2>5, <2>6, <2>7, <2>8 DEF Held
  <2> QED BY <1>7, <2>1, <2>9 DEF Take, BatchInv
<1>8. ASSUME NEW t \in Threads, NEW v \in Stages,
             pc = "execute", at[t] # 0,
             v = "asking" => calls[at[t]].name \in Gated,
             stage' = [stage EXCEPT ![at[t]] = v],
             at' = IF v \in Active THEN at ELSE [at EXCEPT ![t] = 0],
             UNCHANGED <<pc, messages, round, spoke, batchVars, next, index, trace>>
      PROVE  BatchInv'
  <2> DEFINE i == at[t]
  <2>1. Held
    BY <1>8 DEF BatchInv
  <2>2. i \in Nat /\ i < next /\ i \in DOMAIN calls /\ i \in DOMAIN stage
    BY <1>0, <1>8, <2>1 DEF Held, Typed
  <2>3. /\ stage' \in Seq(Stages) /\ DOMAIN stage' = DOMAIN stage
        /\ \A j \in DOMAIN stage : stage'[j] = IF j = i THEN v ELSE stage[j]
    BY <1>0, <1>8, ExceptInSeq DEF Typed
  <2>4. /\ at' \in [Threads -> Nat]
        /\ \A u \in Threads : at'[u] = IF u = t /\ v \notin Active THEN 0 ELSE at[u]
    BY <1>0, <1>8 DEF Typed
  <2>5. UNCHANGED <<calls, next>> /\ Pool' = Pool
    BY <1>8 DEF batchVars, Pool, Serial, AnyExclusive
  <2>6. Typed'
    BY <1>0, <1>8, <2>3, <2>4 DEF Typed, batchVars
  <2>7. DOMAIN stage' = DOMAIN calls' /\ next' <= Len(calls') + 1
    BY <2>1, <2>3, <2>5 DEF Held
  <2>8. ASSUME NEW u \in Threads, at'[u] # 0
        PROVE  u \in Pool' /\ at'[u] < next' /\ stage'[at'[u]] \in Active
    <3>1. at'[u] = at[u] /\ at[u] # 0
      BY <2>4, <2>8
    <3>2. u \in Pool /\ at[u] < next /\ stage[at[u]] \in Active
      BY <2>1, <3>1 DEF Held
    <3>3. at[u] \in DOMAIN stage
      BY <1>0, <2>1, <3>1, <3>2 DEF Held, Typed
    <3>4. stage'[at[u]] \in Active
      <4>1. CASE u = t
        BY <2>3, <2>4, <2>8, <3>3, <4>1
      <4>2. CASE u # t
        BY <2>1, <2>3, <3>1, <3>2, <3>3, <4>2 DEF Held
      <4> QED BY <4>1, <4>2
    <3> QED BY <2>5, <3>1, <3>2, <3>4
  <2>9. \A u, w \in Threads : u # w /\ at'[u] # 0 => at'[u] # at'[w]
    BY <2>1, <2>4 DEF Held
  <2>10. ASSUME NEW j \in DOMAIN calls
         PROVE  /\ j >= next => stage'[j] = "waiting"
                /\ j < next /\ stage'[j] \in Active => \E u \in Threads : at'[u] = j
                /\ stage'[j] = "asking" => calls[j].name \in Gated
    <3>1. j \in Nat /\ next \in Nat /\ j \in DOMAIN stage
      BY <1>0, <2>1 DEF Typed, Held
    <3>2. CASE j = i
      <4>1. stage'[j] = v /\ ~(j >= next)
        BY <2>2, <2>3, <3>1, <3>2
      <4>2. v \in Active => at'[t] = j
        BY <2>4, <3>2
      <4> QED BY <1>8, <3>2, <4>1, <4>2
    <3>3. CASE j # i
      <4>1. stage'[j] = stage[j]
        BY <2>3, <3>1, <3>3
      <4>2. ASSUME j < next, stage[j] \in Active
            PROVE  \E u \in Threads : at'[u] = j
        <5>1. PICK u \in Threads : at[u] = j
          BY <2>1, <4>2 DEF Held
        <5>2. at'[u] = j
          BY <2>4, <3>3, <5>1
        <5> QED BY <5>2
      <4> QED BY <2>1, <4>1, <4>2 DEF Held
    <3> QED BY <3>2, <3>3
  <2>11. Held'
    BY <2>5, <2>7, <2>8, <2>9, <2>10 DEF Held
  <2> QED BY <1>8, <2>6, <2>11 DEF BatchInv
<1>9. ASSUME NEW t \in Threads, Enter(t) PROVE BatchInv'
  <2> DEFINE v == IF calls[at[t]].name \in Gated THEN "asking" ELSE "running"
  <2>1. v \in Stages /\ v \in Active /\ (v = "asking" => calls[at[t]].name \in Gated)
    BY DEF Stages, Active
  <2>2. stage' = [stage EXCEPT ![at[t]] = v]
    BY <1>9 DEF Enter
  <2> HIDE DEF v
  <2> QED BY <1>8, <1>9, <2>1, <2>2 DEF Enter
<1>10. ASSUME NEW t \in Threads, NEW allowed \in BOOLEAN, Decide(t, allowed)
       PROVE  BatchInv'
  <2>1. "running" \in Stages /\ "running" \in Active
    BY DEF Stages, Active
  <2>2. "denied" \in Stages /\ "denied" \notin Active
    BY DEF Stages, Settled, Active
  <2>3. CASE allowed
    BY <1>8, <1>10, <2>1, <2>3 DEF Decide
  <2>4. CASE ~allowed
    BY <1>8, <1>10, <2>2, <2>4 DEF Decide
  <2> QED BY <2>3, <2>4
<1>11. ASSUME NEW t \in Threads, NEW outcome \in {"ok", "failed"},
              Return(t, outcome)
       PROVE  BatchInv'
  <2>1. outcome \in Stages /\ outcome \notin Active /\ outcome # "asking"
    BY DEF Stages, Settled, Active
  <2> QED BY <1>8, <1>11, <2>1 DEF Return
<1>12. CASE JoinAll
  <2>1. Typed' /\ Held
    BY <1>0, <1>12 DEF JoinAll, Typed, BatchInv, batchVars, poolVars
  <2>2. Held'
    BY <1>12, <2>1
       DEF JoinAll, Held, batchVars, poolVars, Pool, Serial, AnyExclusive
  <2>3. next = Len(calls) + 1
    BY <1>0, <1>12, <2>1 DEF JoinAll, Held, Typed
  <2>4. ASSUME NEW i \in DOMAIN calls PROVE stage[i] \in Settled
    <3>1. i < next /\ i # 0
      BY <1>0, <2>3 DEF Typed
    <3>2. ~ \E t \in Threads : at[t] = i
      BY <1>12, <2>1, <3>1 DEF JoinAll, Held
    <3>3. stage[i] \notin Active
      BY <2>1, <3>1, <3>2 DEF Held
    <3>4. stage[i] \in Stages
      BY <1>0, <2>1 DEF Held, Typed
    <3> QED BY <3>3, <3>4 DEF Stages, Active
  <2>5. AllSettled'
    BY <1>12, <2>3, <2>4 DEF JoinAll, AllSettled, batchVars, poolVars
  <2> QED BY <2>1, <2>2, <2>5 DEF BatchInv
<1>13. CASE Record
  <2>1. Held /\ AllSettled /\ UNCHANGED <<pc, round, spoke, calls, base, next, at, stage>>
    BY <1>13 DEF Record, BatchInv, batchVars, poolVars
  <2>2. index \in DOMAIN calls
    BY <1>0, <1>13 DEF Record, Typed
  <2>3. calls[index] \in Call
    BY <1>0, <2>2 DEF Typed
  <2>4. messages' \in Seq(Messages({ThisHome}))
    BY <1>0, <1>13, <2>3, OutputType, AppendProperties DEF Record, Typed, Call
  <2>5. trace' \in Seq(Records)
    <3>1. stage[index] \in Settled
      BY <2>1, <2>2 DEF AllSettled
    <3>2. [id |-> calls[index].id, name |-> calls[index].name,
           result |-> stage[index]] \in Records
      BY <2>3, <3>1 DEF Call, Records
    <3> QED BY <1>0, <1>13, <3>2, AppendProperties DEF Record, Typed
  <2>6. Typed'
    <3>1. index' \in Nat \ {0}
      BY <1>0, <1>13 DEF Record, Typed
    <3> QED BY <1>0, <2>1, <2>4, <2>5, <3>1 DEF Typed
  <2>7. Held' /\ AllSettled'
    BY <2>1 DEF Held, AllSettled, Pool, Serial, AnyExclusive
  <2> QED BY <2>6, <2>7 DEF BatchInv
<1>14. CASE NextRound
  <2>1. pc' \in {"ask", "failed"}
    BY <1>14 DEF NextRound
  <2>2. round' = round + 1 /\ spoke' = FALSE
    BY <1>14 DEF NextRound
  <2>3. round' \in Nat
    <3>1. round \in Nat
      BY <1>0 DEF Typed
    <3> QED BY <2>2, <3>1
  <2>4. UNCHANGED <<messages, batchVars, poolVars, index, trace>>
    BY <1>14 DEF NextRound
  <2>5. Typed'
    BY <1>0, <2>1, <2>2, <2>3, <2>4 DEF Typed, batchVars, poolVars
  <2> QED BY <2>1, <2>5 DEF BatchInv
<1>15. CASE UNCHANGED vars
  BY <1>15 DEF vars, BatchInv, Typed, Held, AllSettled, Pool, Serial, AnyExclusive
<1> QED
  BY <1>1, <1>2, <1>3, <1>4, <1>5, <1>6, <1>7, <1>9, <1>10, <1>11, <1>12,
     <1>13, <1>14, <1>15 DEF Next, Turn, Execute, Over

-----------------------------------------------------------------------------
(* Theorems                                                                *)

\* BatchInv is an invariant.
LEMMA AlwaysBatch == Spec => []BatchInv
<1> QED BY InitBatch, NextBatch, PTL DEF Spec

\* Every variable of a turn keeps its type; in particular no record of the
\* trace ever has a result that is not an outcome.
THEOREM EngineTypeOK == Spec => []TypeOK
<1>1. BatchInv => TypeOK
  BY DEF BatchInv, Typed, TypeOK, Call
<1> QED BY <1>1, AlwaysBatch, PTL

\* No call of a batch is executed twice or left out, whatever the threads do.
THEOREM EngineEachCallOnce == Spec => []EachCallOnce
<1>1. BatchInv => EachCallOnce
  <2> SUFFICES ASSUME BatchInv, pc \in {"execute", "record"}
               PROVE  /\ \A t, u \in Threads : t # u /\ at[t] # 0 => at[t] # at[u]
                      /\ \A i \in DOMAIN calls :
                           IF i < next
                           THEN stage[i] \in Settled <=> \A t \in Threads : at[t] # i
                           ELSE stage[i] = "waiting" /\ \A t \in Threads : at[t] # i
    BY DEF EachCallOnce
  <2>1. Typed /\ Held
    BY DEF BatchInv
  <2>2. ASSUME NEW i \in DOMAIN calls
        PROVE  IF i < next
               THEN stage[i] \in Settled <=> \A t \in Threads : at[t] # i
               ELSE stage[i] = "waiting" /\ \A t \in Threads : at[t] # i
    <3>1. /\ i \in Nat /\ i # 0 /\ next \in Nat /\ stage[i] \in Stages
          /\ \A t \in Threads : at[t] \in Nat
      BY <2>1 DEF Typed, Held
    <3>2. ASSUME NEW t \in Threads, at[t] = i
          PROVE  i < next /\ stage[i] \in Active
      BY <2>1, <3>1, <3>2 DEF Held
    <3>3. Active \cap Settled = {} /\ Stages = Active \cup Settled
      BY DEF Active, Settled, Stages
    <3>4. CASE i < next
      BY <2>1, <3>1, <3>2, <3>3, <3>4 DEF Held
    <3>5. CASE ~(i < next)
      BY <2>1, <3>1, <3>2, <3>5 DEF Held
    <3> QED BY <3>4, <3>5
  <2> QED BY <2>1, <2>2 DEF Held
<1> QED BY <1>1, AlwaysBatch, PTL

\* An active call of a batch is held by a thread of the pool.
LEMMA ActiveIsHeld ==
  ASSUME BatchInv, pc = "execute", NEW i \in DOMAIN calls,
         stage[i] \in {"asking", "running"}
  PROVE  \E t \in Pool : t \in Threads /\ at[t] = i
<1>1. Typed /\ Held
  BY DEF BatchInv
<1>2. i \in Nat /\ i # 0 /\ next \in Nat
  BY <1>1 DEF Typed
<1>3. i < next /\ stage[i] \in Active
  BY <1>1, <1>2 DEF Held, Active
<1>4. PICK t \in Threads : at[t] = i
  BY <1>1, <1>3 DEF Held
<1>5. t \in Pool
  BY <1>1, <1>2, <1>4 DEF Held
<1> QED BY <1>4, <1>5

\* An exclusive tool runs alone, an approval is awaited while nothing runs, and
\* it is asked for on the thread of run (the serial branch of run).
THEOREM EngineBarrier == Spec => []Barrier
<1>1. BatchInv /\ pc = "execute" => Alone
  <2> SUFFICES ASSUME BatchInv, pc = "execute",
                      NEW i \in DOMAIN calls, NEW j \in DOMAIN calls, i # j,
                      calls[i].name \in Exclusive,
                      stage[i] \in {"asking", "running"},
                      stage[j] \in {"asking", "running"}
               PROVE  FALSE
    BY DEF Alone
  <2>1. Pool = {0}
    BY DEF Pool, Serial, AnyExclusive
  <2>2. at[0] = i /\ at[0] = j
    BY <2>1, ActiveIsHeld
  <2> QED BY <2>2
<1>2. BatchInv /\ pc = "execute" => AsksOnRunThread
  <2> SUFFICES ASSUME BatchInv, pc = "execute", NEW t \in Threads, at[t] # 0,
                      stage[at[t]] = "asking"
               PROVE  t = 0
    BY DEF AsksOnRunThread
  <2>1. Typed /\ Held
    BY DEF BatchInv
  <2>2. t \in Pool /\ at[t] \in DOMAIN calls
    BY <2>1 DEF Held, Typed
  <2>3. calls[at[t]].name \in Gated
    BY <2>1, <2>2 DEF Held
  <2>4. Pool = {0}
    BY <2>2, <2>3, EngineAssumption DEF Pool, Serial, AnyExclusive
  <2> QED BY <2>2, <2>4
<1>3. BatchInv => Barrier
  BY <1>1, <1>2 DEF Barrier
<1> QED BY <1>3, AlwaysBatch, PTL
-----------------------------------------------------------------------------
(* The log between two requests                                            *)

\* What the API promises of the ids it gives: within a reply no two calls share
\* one, and none looks like an id that run makes.
IdsGiven ==
  \A reply \in Replies : \A i, j \in DOMAIN reply :
    /\ reply[i].id < 1000
    /\ i # j /\ reply[i].id # NoId => reply[i].id # reply[j].id

\* The calls of an assistant message can be told apart by their ids.
Distinct(c) ==
  /\ c # << >>
  /\ \A i \in DOMAIN c : c[i].id # NoId
  /\ \A i, j \in DOMAIN c : i # j => c[i].id # c[j].id

\* While a batch is open the log ends with the message with the calls and the
\* outputs recorded so far, and the trace with their records.
Shape ==
  /\ calls # << >>
  /\ index <= Len(calls) + 1 /\ (pc = "execute" => index = 1)
  /\ Len(messages) = base + index
  /\ messages[base + 1] = Group(calls)
  /\ \A j \in 1..(index - 1) : messages[base + 1 + j] = Output(calls[j].id)
  /\ index - 1 <= Len(trace)
  /\ \A j \in 1..(index - 1) : trace[Len(trace) - (index - 1) + j].id = calls[j].id

ShapeInv ==
  /\ Open => Shape
  /\ pc \in {"ask", "execute", "record"} => round < MaxRounds
  /\ pc = "start" => round = 0

\* What came before the open batch is well formed, and its calls can be told
\* apart.
LogInv ==
  /\ WellFormedOutside
  /\ Open => Distinct(calls) /\ WellFormed(SubSeq(messages, 1, base))

\* A log is not changed by what is appended to it.
LEMMA BeforeAppend ==
  ASSUME NEW S, NEW h \in Seq(S), NEW e \in S, NEW b \in 0..Len(h)
  PROVE  /\ SubSeq(Append(h, e), 1, b) = SubSeq(h, 1, b)
         /\ SubSeq(h, 1, b) \in Seq(S) /\ Len(SubSeq(h, 1, b)) = b
         /\ \A i \in 1..b : SubSeq(h, 1, b)[i] = h[i]
         /\ Append(h, e) \in Seq(S) /\ Len(Append(h, e)) = Len(h) + 1
         /\ \A i \in 1..Len(h) : Append(h, e)[i] = h[i]
         /\ Append(h, e)[Len(h) + 1] = e
<1>1. Len(h) \in Nat /\ b \in Nat /\ b <= Len(h)
  OBVIOUS
<1>2. /\ Append(h, e) \in Seq(S) /\ Len(Append(h, e)) = Len(h) + 1
      /\ \A i \in 1..Len(h) : Append(h, e)[i] = h[i]
      /\ Append(h, e)[Len(h) + 1] = e
  BY AppendProperties
<1>3. \A i \in 1..b : i \in 1..Len(h)
  BY <1>1
<1>4. SubSeq(h, 1, b) = [i \in 1..b |-> h[i]]
  BY <1>1
<1>5. SubSeq(Append(h, e), 1, b) = [i \in 1..b |-> Append(h, e)[i]]
  BY <1>1, <1>2
<1>6. SubSeq(h, 1, b) \in Seq(S) /\ Len(SubSeq(h, 1, b)) = b
  BY <1>1
<1> QED BY <1>2, <1>3, <1>4, <1>5, <1>6

\* The whole of a log is that log.
LEMMA WholeLog ==
  ASSUME NEW S, NEW h \in Seq(S)
  PROVE  SubSeq(h, 1, Len(h)) = h
BY SubSeqProperties

\* The calls of a reply with the ids they enter the log with.
Named(reply, r) ==
  [i \in DOMAIN reply |->
     IF reply[i].id = NoId THEN [reply[i] EXCEPT !.id = MadeId(r, i)] ELSE reply[i]]

\* The ids that enter the log with a reply are distinct.
LEMMA AcceptedIds ==
  ASSUME IdsGiven, NEW reply \in Replies, NEW r \in Nat,
         \A i \in DOMAIN reply : reply[i].name \in Tools
  PROVE  Distinct(Named(reply, r))
<1> DEFINE c == Named(reply, r)
<1>1. reply \in Seq([name : Tools \cup {Unknown}, id : Nat]) /\ reply # << >>
  BY EngineAssumption
<1>2. Len(reply) \in Nat /\ DOMAIN reply = 1..Len(reply) /\ Len(reply) # 0
  BY <1>1
<1>3. \A i \in DOMAIN reply : i \in Nat /\ i >= 1
  BY <1>2
<1>4. ASSUME NEW i \in DOMAIN reply
      PROVE  /\ reply[i].id \in Nat
             /\ c[i].id = IF reply[i].id = NoId THEN MadeId(r, i) ELSE reply[i].id
  <2>1. reply[i] \in [name : Tools \cup {Unknown}, id : Nat]
    BY <1>1, <1>2, ElementOfSeq
  <2>2. c[i] = IF reply[i].id = NoId THEN [reply[i] EXCEPT !.id = MadeId(r, i)]
                                     ELSE reply[i]
    BY DEF Named
  <2> HIDE DEF c
  <2> QED BY <2>1, <2>2
<1>5. DOMAIN c = DOMAIN reply /\ c # << >>
  <2>1. DOMAIN c = DOMAIN reply
    BY DEF Named
  <2>2. 1 \in DOMAIN reply /\ DOMAIN << >> = {}
    BY <1>2
  <2> HIDE DEF c
  <2> QED BY <2>1, <2>2
<1> HIDE DEF c
<1>6. \A i \in DOMAIN reply : MadeId(r, i) \in Nat /\ MadeId(r, i) > 1000
  BY <1>3 DEF MadeId
<1>7. \A i, j \in DOMAIN reply : i # j => MadeId(r, i) # MadeId(r, j)
  BY <1>3 DEF MadeId
<1>8. \A i \in DOMAIN c : c[i].id # NoId
  BY <1>4, <1>5, <1>6 DEF NoId
<1>9. ASSUME NEW i \in DOMAIN reply, NEW j \in DOMAIN reply, i # j
      PROVE  c[i].id # c[j].id
  <2>1. reply[i].id < 1000 /\ reply[j].id < 1000
    BY DEF IdsGiven
  <2>2. reply[i].id # NoId => reply[i].id # reply[j].id
    BY <1>9 DEF IdsGiven
  <2>3. /\ reply[i].id \in Nat /\ reply[j].id \in Nat
        /\ MadeId(r, i) \in Nat /\ MadeId(r, i) > 1000
        /\ MadeId(r, j) \in Nat /\ MadeId(r, j) > 1000
        /\ MadeId(r, i) # MadeId(r, j)
    BY <1>4, <1>6, <1>7, <1>9
  <2> QED BY <1>4, <2>1, <2>2, <2>3
<1> QED BY <1>5, <1>8, <1>9 DEF c, Distinct

\* Append, seen by its elements.
LEMMA AppendParts ==
  ASSUME NEW S, NEW h \in Seq(S), NEW e \in S
  PROVE  /\ Append(h, e) \in Seq(S) /\ Len(Append(h, e)) = Len(h) + 1
         /\ \A i \in 1..Len(h) : Append(h, e)[i] = h[i]
         /\ Append(h, e)[Len(h) + 1] = e
BY AppendProperties

LEMMA InitShape == Init => ShapeInv
BY EngineAssumption DEF Init, ShapeInv, Open

\* The steps that leave the log, the batch, the index and the trace alone.
LEMMA SameShape ==
  ASSUME ShapeInv, UNCHANGED <<pc, messages, batchVars, index, trace, round>>
  PROVE  ShapeInv'
BY DEF ShapeInv, Open, Shape, batchVars

\* A reply is accepted.
LEMMA AcceptShape ==
  ASSUME Typed, ShapeInv, NEW reply \in Replies, AcceptReply(reply)
  PROVE  /\ ShapeInv' /\ calls' = Named(reply, round)
         /\ SubSeq(messages', 1, base') = messages /\ messages \in Seq(Messages({ThisHome}))
<1>1. /\ messages \in Seq(Messages({ThisHome})) /\ round \in Nat
      /\ Len(messages) \in Nat /\ trace \in Seq(Records) /\ Len(trace) \in Nat
  BY DEF Typed
<1>2. /\ pc' = "execute" /\ base' = Len(messages) /\ index' = 1 /\ pc = "ask"
      /\ messages' = Append(messages, Group(calls')) /\ UNCHANGED <<trace, round>>
  BY DEF AcceptReply
<1>3. calls' \in Seq(Call)
  BY <1>1, AcceptedCalls DEF AcceptReply
<1>4. calls' = Named(reply, round) /\ DOMAIN calls' = DOMAIN reply
  BY DEF AcceptReply, Named
<1>5. calls' # << >>
  <2>1. reply \in Seq([name : Tools \cup {Unknown}, id : Nat]) /\ reply # << >>
    BY EngineAssumption
  <2>2. Len(reply) \in Nat /\ Len(reply) # 0 /\ DOMAIN reply = 1..Len(reply)
    BY <2>1
  <2> QED BY <1>4, <2>2
<1>6. /\ Len(messages') = Len(messages) + 1
      /\ SubSeq(messages', 1, Len(messages)) = messages
      /\ messages'[Len(messages) + 1] = Group(calls')
  <2>1. Group(calls') \in Messages({ThisHome})
    BY <1>3, GroupType
  <2>2. Len(messages) \in 0..Len(messages)
    BY <1>1
  <2> QED BY <1>1, <1>2, <2>1, <2>2, BeforeAppend, WholeLog
<1>7. Shape'
  <2>1. Len(messages') = base' + index' /\ 1..(index' - 1) = {}
    BY <1>1, <1>2, <1>6
  <2>2. messages'[base' + 1] = Group(calls')
    BY <1>1, <1>2, <1>6
  <2>3. Len(calls') \in Nat /\ index' = 1
    BY <1>2, <1>3
  <2>4. index' <= Len(calls') + 1 /\ index' - 1 <= Len(trace')
    BY <1>1, <1>2, <2>3
  <2> QED BY <1>5, <2>1, <2>2, <2>3, <2>4 DEF Shape
<1>8. round' < MaxRounds
  BY <1>2 DEF ShapeInv
<1>9. ShapeInv'
  BY <1>2, <1>7, <1>8 DEF ShapeInv, Open
<1> QED BY <1>1, <1>2, <1>4, <1>6, <1>9

\* A result is recorded.
LEMMA RecordShape ==
  ASSUME BatchInv, ShapeInv, Record
  PROVE  /\ ShapeInv'
         /\ SubSeq(messages', 1, base') = SubSeq(messages, 1, base)
         /\ Len(trace') = Len(trace) + 1 /\ index - 1 <= Len(trace)
         /\ \A i \in 1..Len(trace) : trace'[i] = trace[i]
<1>1. /\ messages \in Seq(Messages({ThisHome})) /\ calls \in Seq(Call)
      /\ base \in Nat /\ index \in Nat \ {0} /\ Len(calls) \in Nat
      /\ trace \in Seq(Records) /\ Len(trace) \in Nat /\ Len(messages) \in Nat
  BY DEF BatchInv, Typed
<1>2. /\ Shape /\ index <= Len(calls) /\ UNCHANGED <<pc, calls, base, round>>
      /\ pc = "record" /\ index' = index + 1
      /\ messages' = Append(messages, Output(calls[index].id))
  BY DEF Record, batchVars, ShapeInv, Open
<1>3. Output(calls[index].id) \in Messages({ThisHome})
  <2>1. calls[index] \in Call
    BY <1>1, <1>2, ElementOfSeq
  <2> QED BY <2>1, OutputType DEF Call
<1>4. /\ Len(messages) = base + index /\ base \in 0..Len(messages)
      /\ index - 1 <= Len(trace)
  BY <1>1, <1>2 DEF Shape
<1>5. /\ SubSeq(messages', 1, base) = SubSeq(messages, 1, base)
      /\ Len(messages') = Len(messages) + 1
      /\ \A i \in 1..Len(messages) : messages'[i] = messages[i]
      /\ messages'[Len(messages) + 1] = Output(calls[index].id)
  <2> DEFINE e == Output(calls[index].id)
  <2>1. e \in Messages({ThisHome}) /\ messages' = Append(messages, e)
    BY <1>2, <1>3
  <2> HIDE DEF e
  <2>2. /\ SubSeq(Append(messages, e), 1, base) = SubSeq(messages, 1, base)
        /\ Len(Append(messages, e)) = Len(messages) + 1
        /\ \A i \in 1..Len(messages) : Append(messages, e)[i] = messages[i]
        /\ Append(messages, e)[Len(messages) + 1] = e
    BY <1>1, <1>4, <2>1, BeforeAppend
  <2> QED BY <2>1, <2>2 DEF e
<1>6. messages'[base + 1] = Group(calls)
  BY <1>1, <1>2, <1>4, <1>5 DEF Shape
<1>7. ASSUME NEW j \in 1..index
      PROVE  messages'[base + 1 + j] = Output(calls[j].id)
  <2>1. CASE j = index
    BY <1>1, <1>4, <1>5, <2>1
  <2>2. CASE j # index
    <3>1. j \in 1..(index - 1) /\ base + 1 + j \in 1..Len(messages)
      BY <1>1, <1>4, <2>2
    <3> QED BY <1>2, <1>5, <3>1 DEF Shape
  <2> QED BY <2>1, <2>2
<1>8. /\ trace' \in Seq(Records) /\ Len(trace') = Len(trace) + 1
      /\ \A i \in 1..Len(trace) : trace'[i] = trace[i]
      /\ trace'[Len(trace) + 1].id = calls[index].id
  <2> DEFINE e == [id |-> calls[index].id, name |-> calls[index].name,
                   result |-> stage[index]]
  <2>1. e \in Records
    <3>1. calls[index] \in Call /\ stage[index] \in Settled
      BY <1>1, <1>2, ElementOfSeq DEF BatchInv, AllSettled
    <3> QED BY <3>1 DEF Call, Records
  <2>2. trace' = Append(trace, e) /\ e.id = calls[index].id
    BY DEF Record
  <2> HIDE DEF e
  <2> QED BY <1>1, <2>1, <2>2, AppendParts
<1>9. ASSUME NEW j \in 1..index
      PROVE  trace'[Len(trace) + 1 - index + j].id = calls[j].id
  <2>1. CASE j = index
    BY <1>1, <1>8, <2>1
  <2>2. CASE j # index
    <3>1. /\ j \in 1..(index - 1)
          /\ Len(trace) + 1 - index + j = Len(trace) - (index - 1) + j
          /\ Len(trace) - (index - 1) + j \in 1..Len(trace)
      BY <1>1, <1>4, <2>2
    <3>2. trace[Len(trace) - (index - 1) + j].id = calls[j].id
      BY <1>2, <3>1 DEF Shape
    <3> QED BY <1>8, <3>1, <3>2
  <2> QED BY <2>1, <2>2
<1>10. Shape'
  <2>1. index' - 1 = index /\ index' <= Len(calls') + 1
    BY <1>1, <1>2
  <2>2. Len(messages') = base' + index'
    BY <1>1, <1>2, <1>4, <1>5
  <2>3. /\ index' - 1 <= Len(trace')
        /\ Len(trace') - (index' - 1) = Len(trace) + 1 - index
    <3>1. Len(trace') = Len(trace) + 1 /\ index' = index + 1
      BY <1>2, <1>8
    <3> QED BY <1>1, <1>4, <3>1
  <2>4. calls' = calls /\ base' = base /\ calls' # << >> /\ pc' # "execute"
    BY <1>2 DEF Shape
  <2>5. messages'[base' + 1] = Group(calls')
    BY <1>6, <2>4
  <2>6. \A j \in 1..(index' - 1) : messages'[base' + 1 + j] = Output(calls'[j].id)
    BY <1>7, <2>1, <2>4
  <2>7. \A j \in 1..(index' - 1) :
          trace'[Len(trace') - (index' - 1) + j].id = calls'[j].id
    BY <1>9, <2>1, <2>3, <2>4
  <2> QED BY <2>1, <2>2, <2>3, <2>4, <2>5, <2>6, <2>7 DEF Shape
<1>11. ShapeInv'
  BY <1>2, <1>10 DEF ShapeInv, Open
<1> QED BY <1>2, <1>4, <1>5, <1>8, <1>11

LEMMA NextShape == ASSUME BatchInv, ShapeInv, [Next]_vars PROVE ShapeInv'
<1>1. CASE Start
  BY <1>1, EngineAssumption DEF Start, ShapeInv, Open
<1>2. CASE Delta
  BY <1>2, SameShape DEF Delta
<1>3. CASE ProviderThrows
  BY <1>3 DEF ProviderThrows, ShapeInv, Open
<1>4. CASE Answer
  BY <1>4 DEF Answer, ShapeInv, Open
<1>5. ASSUME NEW reply \in Replies, RejectReply(reply) PROVE ShapeInv'
  BY <1>5 DEF RejectReply, ShapeInv, Open
<1>6. ASSUME NEW reply \in Replies, AcceptReply(reply) PROVE ShapeInv'
  BY <1>6, AcceptShape DEF BatchInv
<1>7. ASSUME NEW t \in Threads, Execute(t) PROVE ShapeInv'
  BY <1>7, SameShape DEF Execute, Take, Enter, Decide, Return
<1>8. CASE JoinAll
  BY <1>8 DEF JoinAll, ShapeInv, Open, Shape, batchVars
<1>9. CASE Record
  BY <1>9, RecordShape
<1>10. CASE NextRound
  BY <1>10 DEF NextRound, ShapeInv, Open
<1>11. CASE UNCHANGED vars
  BY <1>11, SameShape DEF vars, batchVars
<1> QED
  BY <1>1, <1>2, <1>3, <1>4, <1>5, <1>6, <1>7, <1>8, <1>9, <1>10, <1>11
     DEF Next, Turn, Over

LEMMA AlwaysShape == Spec => []ShapeInv
<1> QED BY InitShape, NextShape, AlwaysBatch, PTL DEF Spec

-----------------------------------------------------------------------------
(* Whole exchanges                                                         *)

\* Once all its outputs are recorded the batch has appended a complete group.
LEMMA ClosedLog ==
  ASSUME Typed, Shape, index > Len(calls), Distinct(calls),
         WellFormed(SubSeq(messages, 1, base))
  PROVE  WellFormed(messages)
<1> DEFINE n == Len(calls)
           h == SubSeq(messages, 1, base)
<1>1. /\ messages \in Seq(Messages({ThisHome})) /\ base \in Nat /\ index \in Nat
      /\ calls \in Seq(Call) /\ n \in Nat /\ DOMAIN calls = 1..n
  BY DEF Typed
<1>2. n # 0 /\ index = n + 1 /\ Len(messages) = base + 1 + n
  <2>1. /\ calls # << >> /\ index <= n + 1 /\ index > n
        /\ Len(messages) = base + index
    BY DEF Shape
  <2>2. n # 0
    BY <1>1, <2>1
  <2> HIDE DEF n
  <2> QED BY <1>1, <2>1, <2>2
<1>3. h \in Seq(Messages({ThisHome})) /\ Len(h) = base /\ WellFormed(h)
      /\ \A i \in 1..base : h[i] = messages[i]
  <2>1. base \in 0..Len(messages)
    BY <1>1, <1>2
  <2>2. WellFormed(h)
    BY DEF Shape
  <2>3. messages # << >> /\ messages[1] \in Messages({ThisHome})
    BY <1>1, <1>2, ElementOfSeq
  <2> QED BY <1>1, <2>1, <2>2, <2>3, BeforeAppend
<1>4. messages[base + 1].calls = CallIds(calls) /\ IsCall(messages, base + 1)
      /\ DOMAIN CallIds(calls) = 1..n
  <2>1. messages[base + 1] = Group(calls)
    BY DEF Shape
  <2>2. DOMAIN CallIds(calls) = 1..n
    BY <1>1 DEF CallIds
  <2>3. CallIds(calls) # << >>
    BY <1>1, <1>2, <2>2
  <2> QED BY <2>1, <2>2, <2>3 DEF Group, Message, IsCall
<1>5. ASSUME NEW j \in 1..n
      PROVE  /\ messages[base + 1 + j].role = "tool"
             /\ messages[base + 1 + j].id = messages[base + 1].calls[j]
             /\ messages[base + 1].calls[j] # NoId
  <2>1. messages[base + 1 + j] = Output(calls[j].id)
    BY <1>1, <1>2 DEF Shape
  <2>2. CallIds(calls)[j] = calls[j].id /\ calls[j].id # NoId
    BY <1>1 DEF CallIds, Shape, Distinct
  <2> QED BY <1>4, <2>1, <2>2 DEF Output, Message
<1>6. ASSUME NEW j \in 1..n, NEW k \in 1..n, j # k
      PROVE  messages[base + 1].calls[j] # messages[base + 1].calls[k]
  <2>1. calls[j].id # calls[k].id
    BY <1>1, <1>6 DEF Shape, Distinct
  <2>2. CallIds(calls)[j] = calls[j].id /\ CallIds(calls)[k] = calls[k].id
    BY <1>1 DEF CallIds
  <2> QED BY <1>4, <2>1, <2>2
<1>7. n \in Nat \ {0}
  BY <1>1, <1>2
<1> HIDE DEF n, h
<1>8. /\ Len(messages) = Len(h) + 1 + n /\ IsCall(messages, Len(h) + 1)
      /\ DOMAIN messages[Len(h) + 1].calls = 1..n
      /\ \A i \in 1..Len(h) : messages[i] = h[i]
  BY <1>2, <1>3, <1>4
<1>9. \A j \in 1..n : /\ messages[Len(h) + 1 + j].role = "tool"
                      /\ messages[Len(h) + 1 + j].id = messages[Len(h) + 1].calls[j]
                      /\ messages[Len(h) + 1].calls[j] # NoId
  BY <1>3, <1>5
<1>10. \A j, k \in 1..n :
         j # k => messages[Len(h) + 1].calls[j] # messages[Len(h) + 1].calls[k]
  BY <1>3, <1>6
<1> QED BY <1>1, <1>3, <1>7, <1>8, <1>9, <1>10, GroupWellFormed

LEMMA InitLog == Init => LogInv
BY DEF Init, LogInv, WellFormedOutside, Open

\* The steps that leave the log and the batch alone.
LEMMA SameLog ==
  ASSUME LogInv, UNCHANGED <<pc, messages, batchVars>>
  PROVE  LogInv'
BY DEF LogInv, WellFormedOutside, Open, batchVars

LEMMA NextLog ==
  ASSUME IdsGiven, BatchInv, ShapeInv, LogInv, [Next]_vars
  PROVE  LogInv'
<1> USE DEF LogInv
<1>0. Typed
  BY DEF BatchInv
<1>1. CASE Start
  <2>1. WellFormed(messages')
    BY <1>0, <1>1, RepairWellFormed DEF Start, Typed
  <2> QED BY <1>1, <2>1 DEF Start, WellFormedOutside, Open
<1>2. CASE Delta
  BY <1>2, SameLog DEF Delta
<1>3. CASE ProviderThrows
  BY <1>3 DEF ProviderThrows, WellFormedOutside, Open
<1>4. CASE Answer
  <2> DEFINE e == Message("assistant", << >>, NoId, ThisHome)
  <2>1. WellFormed(messages) /\ messages \in Seq(Messages({ThisHome}))
    BY <1>0, <1>4 DEF Answer, WellFormedOutside, Typed
  <2>2. e.role # "tool" /\ e.calls = << >>
    BY DEF Message
  <2>3. WellFormed(Append(messages, e))
    BY <2>1, <2>2, AnswerType, AppendWellFormed
  <2>4. WellFormed(messages') /\ pc' = "done"
    BY <1>4, <2>1, <2>3 DEF Answer
  <2> QED BY <2>4 DEF WellFormedOutside, Open
<1>5. ASSUME NEW reply \in Replies, RejectReply(reply) PROVE LogInv'
  BY <1>5 DEF RejectReply, WellFormedOutside, Open
<1>6. ASSUME NEW reply \in Replies, AcceptReply(reply) PROVE LogInv'
  <2>1. WellFormed(messages) /\ round \in Nat /\ pc' = "execute"
    BY <1>0, <1>6 DEF AcceptReply, WellFormedOutside, Typed
  <2>2. \A i \in DOMAIN reply : reply[i].name \in Tools
    BY <1>6 DEF AcceptReply
  <2>3. Distinct(calls')
    BY <1>0, <1>6, <2>1, <2>2, AcceptShape, AcceptedIds
  <2>4. WellFormed(SubSeq(messages', 1, base'))
    BY <1>0, <1>6, <2>1, AcceptShape
  <2> QED BY <2>1, <2>3, <2>4 DEF WellFormedOutside, Open
<1>7. ASSUME NEW t \in Threads, Execute(t) PROVE LogInv'
  BY <1>7, SameLog DEF Execute, Take, Enter, Decide, Return
<1>8. CASE JoinAll
  BY <1>8 DEF JoinAll, WellFormedOutside, Open, batchVars
<1>9. CASE Record
  <2>1. pc' = "record" /\ calls' = calls /\ Distinct(calls)
        /\ WellFormed(SubSeq(messages, 1, base))
    BY <1>9 DEF Record, batchVars, Open
  <2>2. WellFormed(SubSeq(messages', 1, base'))
    BY <1>9, <2>1, RecordShape
  <2> QED BY <2>1, <2>2 DEF WellFormedOutside, Open
<1>10. CASE NextRound
  <2>1. WellFormed(messages)
    BY <1>0, <1>10, ClosedLog DEF NextRound, ShapeInv, Open
  <2>2. messages' = messages /\ pc' \in {"ask", "failed"}
    BY <1>10 DEF NextRound
  <2> QED BY <2>1, <2>2 DEF WellFormedOutside, Open
<1>11. CASE UNCHANGED vars
  BY <1>11, SameLog DEF vars, batchVars
<1> QED
  BY <1>1, <1>2, <1>3, <1>4, <1>5, <1>6, <1>7, <1>8, <1>9, <1>10, <1>11
     DEF Next, Turn, Over

\* Every log the model is sent and every log the caller gets back is well
\* formed, whatever log run was called with and on every exit, as long as the
\* API tells the calls of one reply apart (run, remove_incomplete_tool_groups).
THEOREM EngineWellFormed ==
  ASSUME IdsGiven
  PROVE  Spec => []WellFormedOutside
<1>1. Init => LogInv
  BY InitLog
<1>2. BatchInv /\ ShapeInv /\ LogInv /\ [Next]_vars => LogInv'
  BY NextLog
<1>3. LogInv => WellFormedOutside
  BY DEF LogInv
<1> QED BY <1>1, <1>2, <1>3, AlwaysBatch, AlwaysShape, PTL DEF Spec

-----------------------------------------------------------------------------
(* The turn as its owner sees it                                           *)

\* Two parts that follow each other are the concatenation.
LEMMA ConcatParts ==
  ASSUME NEW S, NEW s \in Seq(S), NEW t \in Seq(S), NEW u \in Seq(S),
         Len(u) = Len(s) + Len(t),
         \A i \in 1..Len(s) : u[i] = s[i],
         \A i \in 1..Len(t) : u[Len(s) + i] = t[i]
  PROVE  u = s \o t
<1>1. /\ s \o t \in Seq(S) /\ Len(s \o t) = Len(s) + Len(t)
      /\ \A i \in 1..Len(s) + Len(t) :
           (s \o t)[i] = IF i <= Len(s) THEN s[i] ELSE t[i - Len(s)]
  BY ConcatProperties
<1>2. Len(s) \in Nat /\ Len(t) \in Nat
  OBVIOUS
<1>3. ASSUME NEW i \in 1..Len(u) PROVE u[i] = (s \o t)[i]
  <2>1. CASE i <= Len(s)
    BY <1>1, <1>2, <2>1
  <2>2. CASE i > Len(s)
    <3>1. i - Len(s) \in 1..Len(t) /\ i = Len(s) + (i - Len(s))
      BY <1>2, <2>2
    <3>2. u[i] = t[i - Len(s)]
      BY <3>1
    <3>3. i \in 1..Len(s) + Len(t) /\ ~(i <= Len(s))
      BY <1>2, <2>2
    <3> QED BY <1>1, <3>2, <3>3
  <2> QED BY <1>2, <2>1, <2>2
<1> QED BY <1>1, <1>3, SeqEqual

\* The ids of records are a sequence of ids.
LEMMA RecordIds ==
  ASSUME NEW t \in Seq(Records), NEW m \in 0..Len(t)
  PROVE  /\ [k \in 1..m |-> t[k].id] \in Seq(Nat)
         /\ Len([k \in 1..m |-> t[k].id]) = m
<1>1. m \in Nat /\ Len(t) \in Nat /\ m <= Len(t)
  OBVIOUS
<1>2. ASSUME NEW k \in 1..m PROVE t[k].id \in Nat
  <2>1. t[k] \in Records
    BY <1>1, ElementOfSeq
  <2> QED BY <2>1 DEF Records
<1> QED BY <1>1, <1>2, IsASeq

\* A recorded batch becomes visible as an exchange.
LEMMA RoundIsExchange ==
  ASSUME BatchInv, ShapeInv, NextRound
  PROVE  Loop!Exchange
<1> DEFINE n == Len(calls)
           h == SubSeq(messages, 1, base)
           m == Len(trace) - n
           ids == CallIds(calls)
<1>1. /\ messages \in Seq(Messages({ThisHome})) /\ calls \in Seq(Call)
      /\ base \in Nat /\ index \in Nat \ {0} /\ n \in Nat /\ Len(messages) \in Nat
      /\ trace \in Seq(Records) /\ Len(trace) \in Nat /\ round \in Nat
      /\ DOMAIN calls = 1..n
  BY DEF BatchInv, Typed
<1>2. /\ Shape /\ index > n /\ round < MaxRounds /\ pc = "record"
      /\ round' = round + 1
      /\ pc' = IF round + 1 < MaxRounds THEN "ask" ELSE "failed"
      /\ UNCHANGED <<messages, trace>>
  BY DEF NextRound, ShapeInv, Open
<1>3. /\ index = n + 1 /\ n # 0 /\ n <= Len(trace)
      /\ Len(messages) = base + 1 + n
      /\ messages[base + 1] = Group(calls)
  <2>1. /\ calls # << >> /\ index <= n + 1 /\ Len(messages) = base + index
        /\ index - 1 <= Len(trace) /\ messages[base + 1] = Group(calls)
    BY <1>2 DEF Shape
  <2>2. n # 0
    BY <1>1, <2>1
  <2>3. index > n
    BY <1>2
  <2> HIDE DEF n
  <2> QED BY <1>1, <2>1, <2>2, <2>3
<1>4. ASSUME NEW j \in 1..n
      PROVE  messages[base + 1 + j] = Output(calls[j].id) /\ trace[m + j].id = calls[j].id
  <2>1. index - 1 = n
    BY <1>1, <1>3
  <2> QED BY <1>2, <2>1 DEF Shape
<1>5. /\ ids \in Seq(Nat) /\ Group(calls) \in Messages({ThisHome})
      /\ DOMAIN ids = 1..n /\ Len(ids) = n /\ ids # << >>
      /\ \A j \in 1..n : ids[j] = calls[j].id /\ ids[j] \in Nat
  <2>1. ids \in Seq(Nat) /\ Group(calls) \in Messages({ThisHome})
    BY <1>1, GroupType
  <2>2. DOMAIN ids = 1..n /\ \A j \in 1..n : ids[j] = calls[j].id
    BY <1>1 DEF CallIds
  <2> HIDE DEF ids, n
  <2>3. Len(ids) \in Nat /\ 1..Len(ids) = 1..n
    BY <2>1, <2>2
  <2>4. Len(ids) = n
    BY <1>1, <2>3
  <2>5. \A j \in 1..n : ids[j] \in Nat
    BY <2>1, <2>2, <2>3, ElementOfSeq
  <2> QED BY <1>3, <2>1, <2>2, <2>4, <2>5
<1>6. Group(calls).role = "assistant" /\ Group(calls).calls = ids
  BY DEF Group, Message
<1>7. /\ h \in Seq(Messages({ThisHome})) /\ Len(h) = base
      /\ \A i \in 1..base : h[i] = messages[i]
  <2>1. base \in 0..Len(messages)
    BY <1>1, <1>3
  <2> QED BY <1>1, <1>5, <2>1, BeforeAppend
<1> HIDE DEF h, n, ids
\* What the owner sees before and after the step.
<1>8. SeenLog = h /\ SeenLog' = messages
  BY <1>2 DEF SeenLog, Open, h
<1>9. SeenState = "open" /\ SeenState' = IF round' = MaxRounds THEN "closed" ELSE "open"
  <2>1. MaxRounds \in Nat
    BY EngineAssumption
  <2> QED BY <1>1, <1>2, <2>1 DEF SeenState
<1>10. m \in 0..Len(trace) /\ m + n = Len(trace) /\ Len(trace) - 0 = Len(trace)
       /\ Len(trace) - (index - 1) = m
  BY <1>1, <1>3 DEF n
<1>11. SeenIds = [k \in 1..m |-> trace[k].id]
  BY <1>2, <1>10 DEF SeenIds, Open
<1>12. SeenIds' = [k \in 1..Len(trace) |-> trace[k].id]
  BY <1>2, <1>10 DEF SeenIds, Open
<1> HIDE DEF m
\* The log grows by the group and its outputs.
<1>13. messages = Append(h, Group(calls)) \o [k \in DOMAIN ids |-> Output(ids[k])]
  <2> DEFINE s == Append(h, Group(calls))
             t == [k \in 1..n |-> Output(ids[k])]
  <2>1. /\ s \in Seq(Messages({ThisHome})) /\ Len(s) = base + 1
        /\ \A i \in 1..base : s[i] = h[i] /\ s[base + 1] = Group(calls)
    BY <1>5, <1>7, AppendParts
  <2>2. t \in Seq(Messages({ThisHome})) /\ Len(t) = n
    <3>1. \A k \in 1..n : Output(ids[k]) \in Messages({ThisHome})
      BY <1>5, OutputType
    <3>2. n \in Nat
      BY <1>1 DEF n
    <3>3. t \in Seq(Messages({ThisHome}))
      BY <3>1, <3>2, IsASeq
    <3> QED BY <3>2, <3>3
  <2>3. \A i \in 1..n : messages[base + 1 + i] = t[i]
    BY <1>4, <1>5
  <2> HIDE DEF s, t
  <2>4. s[base + 1] = Group(calls)
    BY <1>5, <1>7, AppendParts DEF s
  <2>5. \A i \in 1..(base + 1) : messages[i] = s[i]
    <3> TAKE i \in 1..(base + 1)
    <3>1. i \in 1..base \/ i = base + 1
      BY <1>1
    <3> QED BY <1>3, <1>7, <2>1, <2>4, <3>1
  <2>6. Len(messages) = Len(s) + Len(t)
    BY <1>3, <2>1, <2>2
  <2>7. /\ messages \in Seq(Messages({ThisHome}))
        /\ \A i \in 1..Len(s) : messages[i] = s[i]
        /\ \A i \in 1..Len(t) : messages[Len(s) + i] = t[i]
    BY <1>1, <2>1, <2>2, <2>3, <2>5
  <2>8. messages = s \o t
    BY <2>1, <2>2, <2>6, <2>7, ConcatParts
  <2> QED BY <1>5, <2>8 DEF s, t
\* So do the recorded ids.
<1>14. SeenIds' = SeenIds \o ids
  <2> DEFINE s == [k \in 1..m |-> trace[k].id]
             u == [k \in 1..Len(trace) |-> trace[k].id]
  <2>1. s \in Seq(Nat) /\ Len(s) = m
    BY <1>1, <1>10, RecordIds
  <2>2. u \in Seq(Nat) /\ Len(u) = Len(trace)
    BY <1>1, RecordIds
  <2>3. m \in Nat /\ n \in Nat /\ m + n = Len(trace)
    BY <1>1, <1>10
  <2>4. \A i \in 1..m : u[i] = s[i]
    BY <1>1, <2>3
  <2>5. \A i \in 1..n : u[m + i] = ids[i]
    <3> TAKE i \in 1..n
    <3>1. m + i \in 1..Len(trace)
      BY <2>3
    <3>2. trace[m + i].id = ids[i]
      BY <1>4, <1>5
    <3> QED BY <3>1, <3>2
  <2> HIDE DEF s, u
  <2>6. /\ ids \in Seq(Nat) /\ Len(u) = Len(s) + Len(ids)
        /\ \A i \in 1..Len(s) : u[i] = s[i]
        /\ \A i \in 1..Len(ids) : u[Len(s) + i] = ids[i]
    BY <1>5, <2>1, <2>2, <2>3, <2>4, <2>5
  <2>7. u = s \o ids
    BY <2>1, <2>2, <2>6, ConcatParts
  <2> QED BY <1>11, <1>12, <2>7 DEF s, u
<1>15. Len(SeenLog') > Len(SeenLog) /\ SeenLog'[Len(SeenLog) + 1] = Group(calls)
  BY <1>1, <1>3, <1>7, <1>8
<1> QED
  BY <1>2, <1>5, <1>6, <1>8, <1>9, <1>13, <1>14, <1>15 DEF Loop!Exchange

\* A result that is recorded shows nothing: the batch is still open.
LEMMA RecordIsHidden ==
  ASSUME BatchInv, ShapeInv, Record
  PROVE  UNCHANGED Loop!vars
<1>1. /\ pc = "record" /\ pc' = "record" /\ round' = round /\ index' = index + 1
  BY DEF Record
<1>2. /\ index \in Nat \ {0} /\ Len(trace) \in Nat /\ Len(trace') = Len(trace) + 1
      /\ \A i \in 1..Len(trace) : trace'[i] = trace[i]
      /\ SubSeq(messages', 1, base') = SubSeq(messages, 1, base)
  <2>1. index \in Nat \ {0} /\ Len(trace) \in Nat
    BY DEF BatchInv, Typed
  <2> QED BY <2>1, RecordShape
<1>3. SeenLog' = SeenLog /\ SeenState' = SeenState
  BY <1>1, <1>2 DEF SeenLog, SeenState, Open
<1>4. SeenIds' = SeenIds
  <2>1. Len(trace') - (index' - 1) = Len(trace) - (index - 1)
    BY <1>1, <1>2
  <2>2. \A k \in 1..(Len(trace) - (index - 1)) : trace'[k] = trace[k]
    BY <1>2
  <2> QED BY <1>1, <2>1, <2>2 DEF SeenIds, Open
<1> QED BY <1>1, <1>3, <1>4 DEF Loop!vars

\* So is a reply that is accepted.
LEMMA AcceptIsHidden ==
  ASSUME BatchInv, ShapeInv, NEW reply \in Replies, AcceptReply(reply)
  PROVE  UNCHANGED Loop!vars
<1>1. /\ pc = "ask" /\ pc' = "execute" /\ index' = 1 /\ UNCHANGED <<trace, round>>
  BY DEF AcceptReply
<1>2. SubSeq(messages', 1, base') = messages
  BY AcceptShape DEF BatchInv
<1>3. SeenLog' = SeenLog /\ SeenState' = SeenState
  BY <1>1, <1>2 DEF SeenLog, SeenState, Open
<1>4. SeenIds' = SeenIds
  <2>1. index' - 1 = 0
    BY <1>1
  <2> QED BY <1>1, <2>1 DEF SeenIds, Open
<1> QED BY <1>1, <1>3, <1>4 DEF Loop!vars

\* The steps that leave what the owner sees alone.
LEMMA Hidden ==
  ASSUME UNCHANGED <<messages, base, index, trace, round>>,
         pc' = pc \/ (Open /\ Open')
  PROVE  UNCHANGED Loop!vars
<1>1. UNCHANGED Open /\ UNCHANGED SeenState /\ (pc = "start") = (pc' = "start")
  BY DEF Open, SeenState
<1> QED BY <1>1 DEF Loop!vars, SeenLog, SeenIds

\* The ends of a turn.
LEMMA EndIsClose ==
  ASSUME BatchInv, ProviderThrows \/ Answer \/ \E reply \in Replies : RejectReply(reply)
  PROVE  Loop!Close
<1> DEFINE e == Message("assistant", << >>, NoId, ThisHome)
<1>1. /\ pc = "ask" /\ pc' \in {"done", "failed"} /\ UNCHANGED <<trace, round, index>>
      /\ messages' = messages \/ messages' = Append(messages, e)
  BY DEF ProviderThrows, Answer, RejectReply
<1>2. SeenLog = messages /\ SeenLog' = messages'
  BY <1>1 DEF SeenLog, Open
<1>3. SeenState = "open" /\ SeenState' = "closed" /\ SeenIds' = SeenIds
  BY <1>1 DEF SeenState, SeenIds, Open
<1>4. CASE messages' = messages
  BY <1>1, <1>2, <1>3, <1>4 DEF Loop!Close
<1>5. CASE messages' = Append(messages, e)
  <2>1. e.role = "assistant" /\ e.calls = << >>
    BY DEF Message
  <2>2. e \in Messages({ThisHome}) /\ messages \in Seq(Messages({ThisHome}))
    BY AnswerType DEF BatchInv, Typed
  <2> HIDE DEF e
  <2>3. Len(messages') = Len(messages) + 1 /\ messages'[Len(messages) + 1] = e
    BY <1>5, <2>2, AppendParts
  <2> QED BY <1>1, <1>2, <1>3, <1>5, <2>1, <2>3 DEF Loop!Close
<1> QED BY <1>1, <1>4, <1>5

\* A step of the turn is a step of the loop or shows nothing.
LEMMA StepOfLoop ==
  ASSUME BatchInv, ShapeInv, [Next]_vars
  PROVE  [Loop!Next]_(Loop!vars)
<1> USE DEF Loop!Next
<1>1. CASE Start
  <2>1. Loop!Begin
    BY <1>1 DEF Loop!Begin, Start, ShapeInv, SeenLog, SeenIds, SeenState, Open
  <2> QED BY <2>1
<1>2. CASE Delta
  BY <1>2, Hidden DEF Delta, batchVars
<1>3. CASE ProviderThrows \/ Answer \/ \E reply \in Replies : RejectReply(reply)
  BY <1>3, EndIsClose
<1>4. CASE \E reply \in Replies : AcceptReply(reply)
  BY <1>4, AcceptIsHidden
<1>5. ASSUME NEW t \in Threads, Execute(t) PROVE UNCHANGED Loop!vars
  BY <1>5, Hidden DEF Execute, Take, Enter, Decide, Return, batchVars
<1>6. CASE JoinAll
  BY <1>6, Hidden DEF JoinAll, batchVars, Open
<1>7. CASE Record
  BY <1>7, RecordIsHidden
<1>8. CASE NextRound
  BY <1>8, RoundIsExchange
<1>9. CASE UNCHANGED vars
  BY <1>9, Hidden DEF vars
<1> QED
  BY <1>1, <1>2, <1>3, <1>4, <1>5, <1>6, <1>7, <1>8, <1>9 DEF Next, Turn, Over

\* Whatever tools run side by side and in whatever order they return, the owner
\* of the log sees it repaired once and then grow by whole exchanges in the
\* order of the calls, at most MaxRounds of them, and by the answer; the trace
\* names the same calls in the same order (run, agent.cpp:195).
THEOREM EngineImplementsToolLoop == Spec => ImplementsToolLoop
<1>1. Init => Loop!Init
  BY DEF Init, Loop!Init, SeenState
<1>2. BatchInv /\ ShapeInv /\ [Next]_vars => [Loop!Next]_(Loop!vars)
  BY StepOfLoop
<1> QED
  BY <1>1, <1>2, AlwaysBatch, AlwaysShape, PTL DEF Spec, ImplementsToolLoop, Loop!Spec
=============================================================================
