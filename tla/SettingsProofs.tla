---------------------------- MODULE SettingsProofs ----------------------------
(***************************************************************************)
(* What the settings and the language guarantee for every environment,     *)
(* settings file, form and installation, and every number of launches and  *)
(* saves.                                                                  *)
(***************************************************************************)
EXTENDS Language, FiniteSetTheorems, SequenceTheorems, TLAPS

-----------------------------------------------------------------------------
(* The k-th member of a set of positions                                   *)

\* A nonempty set of naturals has a least member.
LEMMA LeastNat ==
  ASSUME NEW T \in SUBSET Nat, T # {}
  PROVE  \E x \in T : \A y \in T : x <= y
<1> DEFINE R == OpToRel(<, Nat)
<1>1. IsWellFoundedOn(R, Nat)
  BY NatLessThanWellFounded
<1> HIDE DEF R
<1>2. \E x \in T : \A y \in T : ~(<<y, x>> \in R)
  BY <1>1, WFMin
<1>3. PICK x \in T : \A y \in T : ~(<<y, x>> \in R)
  BY <1>2
<1>4. ASSUME NEW y \in T PROVE x <= y
  <2>1. x \in Nat /\ y \in Nat
    OBVIOUS
  <2>2. ~(<<y, x>> \in R)
    BY <1>3
  <2> QED BY <2>1, <2>2 DEF R, OpToRel
<1> QED BY <1>4

\* A set of positions of a log is finite.
LEMMA Positions ==
  ASSUME NEW n \in Nat, NEW K \in SUBSET (1..n)
  PROVE  /\ IsFiniteSet(K) /\ Cardinality(K) \in Nat
         /\ \A j \in K : j \in Nat /\ 1 <= j /\ j <= n
<1>1. IsFiniteSet(1..n)
  BY FS_Interval
<1>2. IsFiniteSet(K)
  BY <1>1, FS_Subset
<1>3. Cardinality(K) \in Nat
  BY <1>2, FS_CardinalityType
<1> QED BY <1>2, <1>3

\* A finite set of positive numbers has a k-th smallest member, for every k up
\* to its size: the CHOOSE of Nth chooses it.
LEMMA NthMember ==
  ASSUME NEW n \in Nat, NEW K \in SUBSET (1..n), NEW k \in 1..Cardinality(K)
  PROVE  /\ Nth(K, k) \in K
         /\ Cardinality({j \in K : j <= Nth(K, k)}) = k
<1> DEFINE Below(m) == {j \in K : j <= m}
<1>1. IsFiniteSet(K) /\ Cardinality(K) \in Nat
  BY Positions
<1>2. \A j \in K : j \in Nat /\ 1 <= j /\ j <= n
  BY Positions
<1>3. k \in Nat /\ 1 <= k /\ k <= Cardinality(K)
  BY <1>1
<1>4. ASSUME NEW m \in Nat
      PROVE  IsFiniteSet(Below(m)) /\ Cardinality(Below(m)) \in Nat
  <2>1. Below(m) \in SUBSET K
    OBVIOUS
  <2>2. IsFiniteSet(Below(m))
    BY <1>1, <2>1, FS_Subset
  <2> QED BY <2>2, FS_CardinalityType
<1>5. Below(n) = K
  BY <1>2
<1>6. Below(0) = {}
  <2>1. \A j \in K : ~(j <= 0)
    BY <1>2
  <2> QED BY <2>1
<1>7. ASSUME NEW m \in Nat, m + 1 \in K
      PROVE  Below(m + 1) = Below(m) \cup {m + 1} /\ m + 1 \notin Below(m)
  <2>1. \A j \in K : j <= m + 1 <=> j <= m \/ j = m + 1
    BY <1>2
  <2>2. ~(m + 1 <= m)
    OBVIOUS
  <2> QED BY <2>1, <2>2, <1>7
<1>8. ASSUME NEW m \in Nat, m + 1 \notin K
      PROVE  Below(m + 1) = Below(m)
  <2>1. \A j \in K : j <= m + 1 <=> j <= m
    BY <1>2, <1>8
  <2> QED BY <2>1
<1> HIDE DEF Below
<1> DEFINE T == {m \in Nat : Cardinality(Below(m)) >= k}
<1>9. n \in T
  BY <1>5, <1>3, <1>1
<1>10. PICK m \in T : \A y \in T : m <= y
  <2>1. T \in SUBSET Nat /\ T # {}
    BY <1>9
  <2> HIDE DEF T
  <2> QED BY <2>1, LeastNat
<1>11. m \in Nat /\ Cardinality(Below(m)) >= k
  OBVIOUS
<1>12. m # 0
  BY <1>11, <1>6, <1>3, FS_EmptySet
<1>13. PICK p \in Nat : m = p + 1
  <2>1. m - 1 \in Nat /\ m = (m - 1) + 1
    BY <1>11, <1>12
  <2> QED BY <2>1
<1>14. Cardinality(Below(p)) < k
  <2>1. p \notin T
    BY <1>10, <1>11, <1>13
  <2> QED BY <2>1, <1>4, <1>3
<1>15. m \in K
  BY <1>8, <1>13, <1>14, <1>11, <1>3, <1>4
<1>16. Cardinality(Below(m)) = Cardinality(Below(p)) + 1
  BY <1>4, <1>7, <1>13, <1>15, FS_AddElement
<1>17. Cardinality(Below(m)) = k
  BY <1>16, <1>14, <1>11, <1>3, <1>4
<1> QED BY <1>15, <1>17 DEF Nth, Below

\* Of two members of K, the smaller one has fewer members up to it.
LEMMA CountGrows ==
  ASSUME NEW n \in Nat, NEW K \in SUBSET (1..n), NEW i \in K, NEW j \in K, i < j
  PROVE  /\ Cardinality({x \in K : x <= i}) \in Nat
         /\ Cardinality({x \in K : x <= j}) \in Nat
         /\ Cardinality({x \in K : x <= i}) < Cardinality({x \in K : x <= j})
<1> DEFINE I == {x \in K : x <= i}
           J == {x \in K : x <= j}
<1>1. IsFiniteSet(K) /\ \A x \in K : x \in Nat
  BY Positions
<1>a. i \in Nat /\ j \in Nat
  BY <1>1
<1>b. \A x \in K : x <= i => x <= j
  BY <1>1, <1>a
<1>c. j <= j /\ ~(j <= i)
  BY <1>a
<1>2. I \in SUBSET J /\ J \in SUBSET K /\ j \in J /\ j \notin I
  BY <1>b, <1>c
<1> HIDE DEF I, J
<1>3. IsFiniteSet(J) /\ Cardinality(J) \in Nat
  BY <1>1, <1>2, FS_Subset, FS_CardinalityType
<1>4. IsFiniteSet(I) /\ Cardinality(I) \in Nat /\ Cardinality(I) <= Cardinality(J)
  BY <1>2, <1>3, FS_Subset, FS_CardinalityType
<1>5. Cardinality(I) # Cardinality(J)
  BY <1>2, <1>3, FS_Subset
<1> QED BY <1>3, <1>4, <1>5 DEF I, J

\* Nth enumerates a finite set of positive numbers upwards.
LEMMA NthEnumerates ==
  ASSUME NEW n \in Nat, NEW K \in SUBSET (1..n)
  PROVE  /\ Cardinality(K) \in Nat
         /\ \A k \in 1..Cardinality(K) : Nth(K, k) \in K
         /\ \A k, l \in 1..Cardinality(K) : k < l <=> Nth(K, k) < Nth(K, l)
         /\ \A i \in K : \E k \in 1..Cardinality(K) : Nth(K, k) = i
<1> DEFINE C == Cardinality(K)
           N(i) == Cardinality({x \in K : x <= i})
<1>1. C \in Nat /\ IsFiniteSet(K) /\ \A i \in K : i \in Nat
  BY Positions
<1>2. \A i, j \in K : i < j => N(i) < N(j) /\ N(i) \in Nat /\ N(j) \in Nat
  BY CountGrows
<1>3. \A k \in 1..C : Nth(K, k) \in K /\ N(Nth(K, k)) = k
  BY NthMember
<1>4. ASSUME NEW i \in K PROVE N(i) \in 1..C
  <2> DEFINE I == {x \in K : x <= i}
  <2>1. I \in SUBSET K /\ i \in I
    BY <1>1
  <2> HIDE DEF I
  <2>2. IsFiniteSet(I) /\ Cardinality(I) \in Nat /\ Cardinality(I) <= C
    BY <1>1, <2>1, FS_Subset, FS_CardinalityType
  <2>3. Cardinality(I) # 0
    BY <2>1, <2>2, FS_EmptySet
  <2> QED BY <1>1, <2>2, <2>3 DEF I
<1> HIDE DEF N, C
<1>5. ASSUME NEW k \in 1..C, NEW l \in 1..C PROVE k < l <=> Nth(K, k) < Nth(K, l)
  <2> DEFINE a == Nth(K, k)
             b == Nth(K, l)
  <2>1. a \in K /\ b \in K /\ N(a) = k /\ N(b) = l
    BY <1>3
  <2>2. a \in Nat /\ b \in Nat
    BY <1>1, <2>1
  <2> HIDE DEF a, b
  <2>3. k \in Int /\ l \in Int
    BY <1>1
  <2>4. a < b => k < l
    BY <1>2, <2>1
  <2>5. b < a => l < k
    BY <1>2, <2>1
  <2>6. a = b => k = l
    BY <2>1
  <2>7. k < l <=> a < b
    BY <2>2, <2>3, <2>4, <2>5, <2>6
  <2> QED BY <2>7 DEF a, b
<1>6. ASSUME NEW i \in K PROVE Nth(K, N(i)) = i
  <2> DEFINE a == Nth(K, N(i))
  <2>1. a \in K /\ N(a) = N(i)
    BY <1>3, <1>4
  <2> HIDE DEF a
  <2>2. a \in Nat /\ i \in Nat
    BY <1>1, <2>1
  <2>3. ~(a < i) /\ ~(i < a)
    BY <1>2, <2>1
  <2>4. a = i
    BY <2>2, <2>3
  <2> QED BY <2>4 DEF a
<1> QED BY <1>1, <1>3, <1>4, <1>5, <1>6 DEF C

-----------------------------------------------------------------------------
(* The list of models                                                      *)

\* What normalize_models makes: a list with every name once, none of them
\* empty, and one of them the current model.
Normal(list, model) ==
  IsList(list) /\ IsInjective(list) /\ "" \notin ToSet(list) /\ model \in ToSet(list)

\* A list with one more at its end.
LEMMA Appended ==
  ASSUME NEW m, IsList(m), NEW c
  PROVE  \E n \in Nat : /\ DOMAIN m = 1..n /\ DOMAIN Append(m, c) = 1..(n + 1)
                        /\ \A i \in 1..n : Append(m, c)[i] = m[i]
                        /\ Append(m, c)[n + 1] = c
<1> DEFINE S == ToSet(m) \cup {c}
           all == Append(m, c)
<1>1. m \in Seq(S) /\ c \in S
  BY DEF IsList
<1> HIDE DEF S
<1>2. PICK n \in Nat : Len(m) = n /\ DOMAIN m = 1..n
  BY <1>1
<1>3. /\ all \in Seq(S) /\ Len(all) = n + 1
      /\ \A i \in 1..n : all[i] = m[i]
      /\ all[n + 1] = c
  BY <1>1, <1>2, AppendProperties
<1> HIDE DEF all
<1>4. DOMAIN all = 1..(n + 1)
  BY <1>3
<1> QED BY <1>2, <1>3, <1>4 DEF all

LEMMA LastAppended ==
  ASSUME NEW m, IsList(m), NEW c
  PROVE  \E n \in Nat : DOMAIN Append(m, c) = 1..n /\ n \in 1..n /\ Append(m, c)[n] = c
<1>1. PICK l \in Nat : /\ DOMAIN m = 1..l /\ DOMAIN Append(m, c) = 1..(l + 1)
                       /\ \A i \in 1..l : Append(m, c)[i] = m[i]
                       /\ Append(m, c)[l + 1] = c
  BY Appended
<1>2. l + 1 \in Nat /\ l + 1 \in 1..(l + 1)
  OBVIOUS
<1> QED BY <1>1, <1>2

\* Of a list the names are kept once, without the empty one.
LEMMA Kept ==
  ASSUME NEW all, NEW n \in Nat, DOMAIN all = 1..n,
         NEW r, r = [k \in 1..Cardinality(Firsts(all)) |-> all[Nth(Firsts(all), k)]]
  PROVE  /\ IsList(r) /\ IsInjective(r) /\ "" \notin ToSet(r)
         /\ \A i \in 1..n : all[i] # "" => all[i] \in ToSet(r)
<1> DEFINE K == Firsts(all)
           C == Cardinality(K)
           f(k) == Nth(K, k)
<1>1. K \in SUBSET (1..n)
  BY DEF Firsts
<1>2. \A i \in K : all[i] # "" /\ \A j \in K : j < i => all[j] # all[i]
  BY DEF Firsts
<1>3. \A i \in 1..n : (all[i] # "" /\ \A j \in 1..n : j < i => all[j] # all[i]) => i \in K
  BY DEF Firsts
<1>4. r = [k \in 1..C |-> all[f(k)]]
  OBVIOUS
<1> HIDE DEF K
<1>5. /\ C \in Nat /\ \A k \in 1..C : f(k) \in K
      /\ \A k, l \in 1..C : k < l <=> f(k) < f(l)
      /\ \A i \in K : \E k \in 1..C : f(k) = i
  BY <1>1, NthEnumerates
<1> HIDE DEF C, f
<1>6. DOMAIN r = 1..C /\ \A k \in 1..C : r[k] = all[f(k)]
  BY <1>4
<1>7. IsList(r)
  <2>1. \A k \in 1..C : r[k] \in ToSet(r)
    BY <1>6 DEF ToSet
  <2>2. r \in [1..C -> ToSet(r)]
    BY <1>6, <1>4, <2>1
  <2> DEFINE S == ToSet(r)
  <2>3. r \in [1..C -> S] /\ C \in Nat
    BY <1>5, <2>2
  <2> HIDE DEF S
  <2>4. r \in Seq(S)
    BY <2>3, SeqDef
  <2> QED BY <2>4 DEF IsList, S
<1>8. IsInjective(r)
  <2>1. ASSUME NEW k \in 1..C, NEW l \in 1..C, k < l PROVE r[k] # r[l]
    <3>1. f(k) \in K /\ f(l) \in K /\ f(k) < f(l)
      BY <1>5, <2>1
    <3> QED BY <1>2, <1>6, <3>1
  <2>2. ASSUME NEW k \in 1..C, NEW l \in 1..C PROVE k = l \/ k < l \/ l < k
    <3>1. k \in Int /\ l \in Int
      BY <1>5
    <3> QED BY <3>1
  <2>3. \A k, l \in 1..C : r[k] = r[l] => k = l
    BY <2>1, <2>2
  <2> QED BY <1>6, <2>3 DEF IsInjective
<1>9. "" \notin ToSet(r)
  <2>1. \A k \in DOMAIN r : r[k] # ""
    BY <1>2, <1>5, <1>6
  <2> QED BY <2>1 DEF ToSet
<1>10. ASSUME NEW p \in 1..n, all[p] # "" PROVE all[p] \in ToSet(r)
  <2> DEFINE T == {i \in 1..n : all[i] = all[p]}
  <2>1. T \in SUBSET Nat /\ T # {}
    OBVIOUS
  <2>2. PICK i \in T : \A j \in T : i <= j
    <3> HIDE DEF T
    <3> QED BY <2>1, LeastNat
  <2>3. i \in 1..n /\ all[i] = all[p]
    OBVIOUS
  <2>4. ASSUME NEW j \in 1..n, j < i PROVE all[j] # all[i]
    <3>1. i \in Nat /\ j \in Nat
      BY <2>3
    <3>2. j \notin T
      <4> HIDE DEF T
      <4> QED BY <2>2, <2>4, <3>1
    <3> QED BY <2>3, <3>2
  <2>5. i \in K
    BY <1>3, <1>10, <2>3, <2>4
  <2>6. PICK k \in 1..C : f(k) = i
    BY <1>5, <2>5
  <2> QED BY <1>6, <2>3, <2>6 DEF ToSet
<1> QED BY <1>7, <1>8, <1>9, <1>10

\* What normalize_models makes is normal.
LEMMA NormalizedNormal ==
  ASSUME NEW m, IsList(m), NEW c, c # "" PROVE Normal(Normalized(m, c), c)
<1> DEFINE all == Append(m, c)
           r == Normalized(m, c)
<1> HIDE DEF all
<1>1. PICK n \in Nat : DOMAIN all = 1..n /\ n \in 1..n /\ all[n] = c
  BY LastAppended DEF all
<1>2. r = [k \in 1..Cardinality(Firsts(all)) |-> all[Nth(Firsts(all), k)]]
  BY DEF Normalized, all
<1> HIDE DEF r
<1>3. IsList(r) /\ IsInjective(r) /\ "" \notin ToSet(r) /\ c \in ToSet(r)
  BY <1>1, <1>2, Kept
<1> QED BY <1>3 DEF Normal, r

\* A normal list stays as it is.
LEMMA NormalStays ==
  ASSUME NEW m, NEW c, Normal(m, c) PROVE Normalized(m, c) = m
<1> DEFINE all == Append(m, c)
           K == Firsts(all)
<1>1. PICK n \in Nat : /\ DOMAIN m = 1..n /\ DOMAIN all = 1..(n + 1)
                       /\ \A i \in 1..n : all[i] = m[i]
                       /\ all[n + 1] = c
  BY Appended DEF Normal
<1>2. \A i, j \in 1..n : m[i] = m[j] => i = j
  BY <1>1 DEF Normal, IsInjective
<1>3. /\ \A i \in 1..n : m[i] # ""
      /\ \E i \in 1..n : m[i] = c
  BY <1>1 DEF Normal, ToSet
<1>a. \A i \in 1..n : i \in Int /\ i < n + 1 /\ i \in 1..(n + 1)
  OBVIOUS
<1>b. \A i \in 1..(n + 1) : i \in 1..n \/ i = n + 1
  OBVIOUS
<1>c. n + 1 \in 1..(n + 1)
  OBVIOUS
<1>d. /\ \A i \in K : i \in 1..(n + 1) /\ \A j \in 1..(n + 1) : j < i => all[j] # all[i]
      /\ \A i \in 1..(n + 1) :
           (all[i] # "" /\ \A j \in 1..(n + 1) : j < i => all[j] # all[i]) => i \in K
  <2> HIDE DEF all
  <2> QED BY <1>1 DEF Firsts
<1> HIDE DEF all, K
<1>4. K = 1..n
  <2>1. ASSUME NEW i \in 1..n PROVE i \in K
    <3>1. ASSUME NEW j \in 1..(n + 1), j < i PROVE all[j] # all[i]
      <4>1. j \in 1..n
        BY <1>a, <1>b, <3>1
      <4>2. j # i
        BY <1>a, <3>1
      <4> QED BY <1>1, <1>2, <4>1, <4>2
    <3>2. all[i] # ""
      BY <1>1, <1>3
    <3> QED BY <1>a, <1>d, <3>1, <3>2
  <2>2. n + 1 \notin K
    <3>1. PICK i \in 1..n : all[i] = c
      BY <1>1, <1>3
    <3> QED BY <1>1, <1>a, <1>d, <3>1
  <2> QED BY <1>b, <1>d, <2>1, <2>2
<1>5. \A i \in 0..n : Cardinality(1..i) = i
  <2>1. ASSUME NEW i \in 0..n PROVE Cardinality(1..i) = i
    BY FS_Interval
  <2> QED BY <2>1
<1>6. Cardinality(K) = n
  BY <1>4, <1>5
<1>7. ASSUME NEW k \in 1..n PROVE Nth(K, k) = k
  <2> DEFINE i == Nth(K, k)
  <2>1. i \in K /\ Cardinality({j \in K : j <= i}) = k
    <3>1. K \in SUBSET (1..n) /\ k \in 1..Cardinality(K)
      BY <1>4, <1>6
    <3> QED BY <3>1, NthMember
  <2> HIDE DEF i
  <2>2. {j \in K : j <= i} = 1..i /\ i \in 0..n
    BY <1>4, <2>1
  <2>3. i = k
    BY <1>5, <2>1, <2>2
  <2> QED BY <2>3 DEF i
<1>8. Normalized(m, c) = [k \in 1..n |-> all[Nth(K, k)]]
  BY <1>6 DEF Normalized, all, K
<1>9. Normalized(m, c) = [k \in 1..n |-> m[k]]
  BY <1>1, <1>7, <1>8
<1>10. m = [k \in 1..n |-> m[k]]
  <2>1. m \in Seq(ToSet(m))
    BY DEF Normal, IsList
  <2> QED BY <1>1, <2>1, SeqDef
<1> QED BY <1>9, <1>10

-----------------------------------------------------------------------------
(* The inductive invariant                                                 *)

IsRecord(r, fields) == r = [f \in fields |-> r[f]]

\* Values as load and save leave them: with a URL and a model, and a list of
\* models that needs no more work.
Whole(v) ==
  IsRecord(v, Fields) /\ v.url # "" /\ v.model # "" /\ Normal(v.models, v.model)

\* The properties of SettingsVm are.
Shown == Whole(vm)

\* The environment: what apply_runtime leaves alone is as at the start, and at
\* rest the other variables are the properties.
Injected ==
  /\ IsRecord(env, Variables)
  /\ env.deepseek = start.deepseek /\ env.openai = start.openai
  /\ pc = "rest" =>
       /\ env.url = vm.url /\ env.key = vm.key
       /\ env.model = vm.model /\ env.prompt = vm.prompt
       /\ language = vm.language

\* Nothing has run since the last save or start.
Fresh == pc # "rest" => run = << >>

\* What a launch finds: a list where the file has one, and behind a save that no
\* fault hit the values of it, whole.
Stored ==
  /\ file.sound /\ "models" \in DOMAIN file.fields => IsList(file.fields.models)
  /\ last # << >> =>
       /\ Whole(last[1])
       /\ pc # "saving" => file = [sound |-> TRUE, fields |-> last[1]]

IInv ==
  /\ pc \in {"off", "rest", "saving"}
  /\ Shown /\ Injected /\ Fresh /\ Stored /\ RunAsShown

-----------------------------------------------------------------------------
(* Lemmas about records of settings                                        *)

LEMMA OrSome == ASSUME NEW value, NEW default, default # "" PROVE Or(value, default) # ""
BY DEF Or

LEMMA CompletedShape ==
  ASSUME NEW v, IsRecord(v, Fields), IsList(v.models)
  PROVE  Whole(Completed(v))
<1> DEFINE model == Or(v.model, DefaultModel)
           c == [v EXCEPT !.url = Or(@, DefaultUrl), !.model = model,
                          !.models = Normalized(@, model)]
<1>1. Completed(v) = c
  BY DEF Completed
<1>2. model # "" /\ Or(v.url, DefaultUrl) # ""
  BY OrSome, SettingsAssumption DEF DefaultUrl
<1>3. Normal(Normalized(v.models, model), model)
  BY <1>2, NormalizedNormal
<1> HIDE DEF model
<1>4. /\ c.url = Or(v.url, DefaultUrl) /\ c.model = model
      /\ c.models = Normalized(v.models, model)
  BY DEF IsRecord, Fields
<1>5. IsRecord(c, Fields)
  BY DEF IsRecord, Fields
<1> HIDE DEF c
<1> QED BY <1>1, <1>2, <1>3, <1>4, <1>5 DEF Whole

LEMMA PresetShape == ASSUME NEW v, Whole(v) PROVE Whole(WithPreset(v))
<1>1. ASSUME NEW p PROVE Whole([v EXCEPT !.prompt = p])
  <2> DEFINE w == [v EXCEPT !.prompt = p]
  <2>1. IsRecord(w, Fields)
    BY DEF Whole, IsRecord, Fields
  <2>2. w.url = v.url /\ w.model = v.model /\ w.models = v.models
    BY DEF Whole, IsRecord, Fields
  <2> HIDE DEF w
  <2>3. Whole(w)
    BY <2>1, <2>2 DEF Whole
  <2> QED BY <2>3 DEF w
<1> QED BY <1>1 DEF WithPreset

\* Values that are whole stay as they are, and as the fields of a file they hide
\* whatever was there before.
LEMMA WholeStays ==
  ASSUME NEW v, Whole(v) PROVE Completed(v) = v
<1>1. Or(v.url, DefaultUrl) = v.url /\ Or(v.model, DefaultModel) = v.model
  BY DEF Whole, Or
<1>2. Normalized(v.models, v.model) = v.models
  BY NormalStays DEF Whole
<1>3. Completed(v) = [v EXCEPT !.url = v.url, !.model = v.model, !.models = v.models]
  BY <1>1, <1>2 DEF Completed
<1> QED BY <1>3 DEF Whole, IsRecord, Fields

LEMMA WholeOverlay ==
  ASSUME NEW v, IsRecord(v, Fields), NEW w, Whole(w) PROVE Overlay(v, w) = w
<1>1. DOMAIN v = Fields /\ DOMAIN w = Fields /\ w = [k \in Fields |-> w[k]]
  BY DEF Whole, IsRecord
<1>2. "models" \in Fields
  BY DEF Fields
<1>3. [k \in DOMAIN v |-> IF k \in DOMAIN w THEN w[k] ELSE v[k]] = w
  BY <1>1
<1> QED BY <1>1, <1>2, <1>3 DEF Overlay

LEMMA Single == ASSUME NEW x PROVE IsList(<<x>>)
BY DEF IsList, ToSet

LEMMA DefaultsShape ==
  ASSUME NEW e PROVE IsRecord(Defaults(e), Fields) /\ IsList(Defaults(e).models)
<1>1. IsRecord(Defaults(e), Fields)
  BY DEF Defaults, IsRecord, Fields
<1>2. Defaults(e).models = <<Or(e.model, DefaultModel)>>
  BY DEF Defaults
<1> QED BY <1>1, <1>2, Single

LEMMA LoadedShape ==
  ASSUME NEW e, NEW f, f.sound /\ "models" \in DOMAIN f.fields => IsList(f.fields.models)
  PROVE  IsRecord(Loaded(Defaults(e), f), Fields) /\ IsList(Loaded(Defaults(e), f).models)
<1> DEFINE v == Defaults(e)
           merged == [k \in DOMAIN v |-> IF k \in DOMAIN f.fields THEN f.fields[k] ELSE v[k]]
<1>1. IsRecord(v, Fields) /\ IsList(v.models)
  BY DefaultsShape
<1> HIDE DEF v
<1>2. IsRecord(merged, Fields)
  BY <1>1 DEF IsRecord
<1>3. DOMAIN v = Fields /\ "models" \in Fields
  BY <1>1 DEF IsRecord, Fields
<1>4. CASE f.sound /\ "models" \in DOMAIN f.fields
  <2>1. Loaded(v, f) = merged
    BY <1>4 DEF Loaded, Overlay
  <2>2. merged.models = f.fields.models
    BY <1>3, <1>4
  <2> QED BY <1>2, <1>4, <2>1, <2>2 DEF v
<1>5. CASE f.sound /\ "models" \notin DOMAIN f.fields
  <2> DEFINE w == [merged EXCEPT !.models = <<merged.model>>]
  <2>1. Loaded(v, f) = w
    BY <1>5 DEF Loaded, Overlay
  <2>2. IsRecord(w, Fields) /\ w.models = <<merged.model>>
    BY <1>2, <1>3 DEF IsRecord
  <2> HIDE DEF w
  <2> QED BY <2>1, <2>2, Single DEF v
<1>6. CASE ~f.sound
  BY <1>1, <1>6 DEF Loaded, v
<1> QED BY <1>4, <1>5, <1>6

LEMMA AppliedShape ==
  ASSUME NEW e, NEW v, IsRecord(e, Variables)
  PROVE  /\ IsRecord(Applied(e, v), Variables)
         /\ Applied(e, v).url = v.url /\ Applied(e, v).key = v.key
         /\ Applied(e, v).model = v.model /\ Applied(e, v).prompt = v.prompt
         /\ Applied(e, v).deepseek = e.deepseek /\ Applied(e, v).openai = e.openai
BY DEF Applied, IsRecord, Variables

-----------------------------------------------------------------------------
(* Steps                                                                   *)

LEMMA LaunchStep == ASSUME IInv, NEW e \in Environments, Launch(e) PROVE IInv'
<1>1. IsRecord(e, Variables)
  BY SettingsAssumption DEF IsRecord
<1>2. Shown'
  <2>1. vm' = Completed(Loaded(Defaults(e), file))
    BY DEF Launch
  <2> QED BY <2>1, LoadedShape, CompletedShape DEF IInv, Stored, Shown
<1>3. env' = Applied(e, vm') /\ start' = e /\ language' = vm'.language /\ pc' = "rest"
  BY DEF Launch
<1>4. Injected'
  BY <1>1, <1>3, AppliedShape DEF Injected
<1>5. run' = << >>
  BY DEF Launch, IInv, Fresh
<1>6. Stored'
  BY DEF Launch, IInv, Stored
<1> QED BY <1>2, <1>3, <1>4, <1>5, <1>6 DEF IInv, Fresh, RunAsShown

LEMMA EndStep == ASSUME IInv, End PROVE IInv'
<1>1. Stored'
  BY DEF End, IInv, Stored
<1> QED BY <1>1 DEF End, IInv, Shown, Injected, Fresh, RunAsShown

LEMMA BeginSaveStep ==
  ASSUME IInv, NEW values, IsRecord(values, Fields), IsList(values.models),
         BeginSave(values)
  PROVE  IInv'
<1>1. Shown'
  BY CompletedShape, PresetShape DEF BeginSave, Shown
<1>2. pc' = "saving" /\ run' = << >> /\ UNCHANGED <<env, start, last>> /\ ~file'.sound
  BY DEF BeginSave, Broken
<1>3. Stored'
  BY <1>2 DEF IInv, Stored
<1> QED BY <1>1, <1>2, <1>3 DEF IInv, Injected, Fresh, RunAsShown

LEMMA EndSaveStep == ASSUME IInv, EndSave \/ WriteFails PROVE IInv'
<1>1. /\ pc = "saving" /\ pc' = "rest" /\ env' = Applied(env, vm) /\ language' = vm.language
      /\ UNCHANGED <<vm, run, start>>
  BY DEF EndSave, WriteFails
<1>2. Injected'
  BY <1>1, AppliedShape DEF IInv, Injected
<1>3. Stored'
  <2>1. CASE EndSave
    <3>1. file' = [sound |-> TRUE, fields |-> vm] /\ last' = <<vm>>
      BY <2>1 DEF EndSave
    <3>2. Whole(vm) /\ IsList(vm.models)
      BY DEF IInv, Shown, Whole, Normal
    <3> QED BY <3>1, <3>2 DEF Stored
  <2>2. CASE WriteFails
    BY <2>2 DEF WriteFails, IInv, Stored
  <2> QED BY <2>1, <2>2
<1> QED BY <1>1, <1>2, <1>3 DEF IInv, Shown, Fresh, RunAsShown

\* The defaults of a run are not needed: a saved URL or model is never empty.
LEMMA RunStep == ASSUME IInv, Run PROVE IInv'
<1> DEFINE e == [env EXCEPT !.url = Or(@, DefaultUrl), !.model = Or(@, DefaultModel)]
<1>1. /\ pc = "rest" /\ run' = Request(e)
      /\ UNCHANGED <<pc, env, language, vm, file, start, last, launches, saves>>
  BY DEF Run
<1>2. /\ e.url = vm.url /\ e.model = vm.model /\ e.key = vm.key /\ e.prompt = vm.prompt
      /\ e.deepseek = start.deepseek /\ e.openai = start.openai
  BY <1>1 DEF IInv, Shown, Whole, Injected, IsRecord, Variables, Or
<1>3. KeyOf(e) = CASE vm.key # "" -> vm.key
                   [] vm.key = "" /\ vm.url = "deepseek" -> start.deepseek
                   [] vm.key = "" /\ vm.url = "openai" -> start.openai
                   [] OTHER -> ""
  <2>1. KeyOf(e) = IF e.key # "" THEN e.key
                   ELSE IF e.url = "deepseek" THEN e.deepseek
                   ELSE IF e.url = "openai" THEN e.openai ELSE ""
    BY DEF KeyOf
  <2> HIDE DEF e
  <2> QED BY <1>2, <2>1
<1>4. run' = IF KeyOf(e) = "" \/ vm.url = "unusable" THEN <<"refused">>
             ELSE <<vm.url, KeyOf(e), vm.model, Or(vm.prompt, Localized(vm.language))>>
  <2>1. Request(e) = IF KeyOf(e) = "" \/ e.url = "unusable" THEN <<"refused">>
                     ELSE <<e.url, KeyOf(e), e.model, Or(e.prompt, Localized(language))>>
    BY DEF Request
  <2>2. language = vm.language
    BY <1>1 DEF IInv, Injected
  <2> HIDE DEF e
  <2> QED BY <1>1, <1>2, <2>1, <2>2
<1>5. RunAsShown'
  <2> HIDE DEF e
  <2> QED BY <1>1, <1>3, <1>4 DEF RunAsShown
<1> QED BY <1>1, <1>5 DEF IInv, Shown, Injected, Fresh, Stored

LEMMA Inductive == ASSUME IInv, [Next]_vars PROVE IInv'
<1>1. ASSUME NEW form \in Forms, SaveDialog(form) PROVE IInv'
  <2> DEFINE v == [form EXCEPT !.models = vm.models]
  <2>a. IsRecord(form, Fields)
    BY SettingsAssumption DEF IsRecord
  <2>1. IsRecord(v, Fields) /\ v.models = vm.models
    BY <2>a DEF IsRecord, Fields
  <2>2. IsList(vm.models)
    BY DEF IInv, Shown, Whole, Normal
  <2>3. BeginSave(v)
    BY <1>1 DEF SaveDialog
  <2> HIDE DEF v
  <2> QED BY <2>1, <2>2, <2>3, BeginSaveStep
<1>2. ASSUME NEW model \in Models, SelectModel(model) PROVE IInv'
  <2> DEFINE v == [vm EXCEPT !.model = model]
  <2>1. IsRecord(v, Fields) /\ v.models = vm.models
    BY DEF IsRecord, Fields, IInv, Shown, Whole
  <2>2. IsList(vm.models)
    BY DEF IInv, Shown, Whole, Normal
  <2>3. BeginSave(v)
    BY <1>2 DEF SelectModel
  <2> HIDE DEF v
  <2> QED BY <2>1, <2>2, <2>3, BeginSaveStep
<1>3. CASE UNCHANGED vars
  BY <1>3 DEF vars, IInv, Shown, Injected, Fresh, Stored, RunAsShown
<1> QED BY <1>1, <1>2, <1>3, LaunchStep, EndStep, EndSaveStep, RunStep DEF Next

LEMMA Base == ASSUME Init PROVE IInv
<1>1. IsRecord(env, Variables)
  BY SettingsAssumption DEF Init, IsRecord
<1>2. Shown
  BY DefaultsShape, CompletedShape DEF Init, Shown
<1>3. Stored
  BY SettingsAssumption DEF Init, Stored
<1> QED BY <1>1, <1>2, <1>3 DEF Init, IInv, Injected, Fresh, RunAsShown

\* The inductive invariant holds in every reachable state.
THEOREM SettingsInvariant == Spec => []IInv
BY Base, Inductive, PTL DEF Spec

\* A run uses the settings on display, and with no key on display the key of
\* their provider, whatever was saved or started with before (apply_runtime,
\* OpenAiCompatClient).
THEOREM SettingsRunAsShown == Spec => []RunAsShown
<1>1. IInv => RunAsShown
  BY DEF IInv
<1> QED BY <1>1, SettingsInvariant, PTL

\* A launch behind a save that no fault hit shows what was saved, and a launch
\* that finds no sound file shows the environment and the defaults.
LEMMA LaunchShows ==
  ASSUME IInv, NEW e \in Environments, Launch(e)
  PROVE  /\ last # << >> => vm' = last[1]
         /\ ~file.sound => vm' = Completed(Defaults(start'))
<1>1. pc = "off" /\ start' = e /\ vm' = Completed(Loaded(Defaults(e), file))
  BY DEF Launch
<1>2. ASSUME last # << >> PROVE vm' = last[1]
  <2>1. Whole(last[1]) /\ file = [sound |-> TRUE, fields |-> last[1]]
    BY <1>1, <1>2 DEF IInv, Stored
  <2>2. Loaded(Defaults(e), file) = Overlay(Defaults(e), last[1])
    BY <2>1 DEF Loaded
  <2> QED BY <1>1, <2>1, <2>2, DefaultsShape, WholeOverlay, WholeStays
<1>3. ASSUME ~file.sound PROVE vm' = Completed(Defaults(start'))
  BY <1>1, <1>3 DEF Loaded
<1> QED BY <1>2, <1>3

\* Settings survive the end of the program, and of a file that is not sound
\* nothing is taken (SettingsStore::load, SettingsVm::load, normalize_models).
THEOREM SettingsSurviveAlways == Spec => SettingsSurvive
<1> DEFINE A == pc = "off" /\ pc' = "rest" =>
                  /\ last # << >> => vm' = last[1]
                  /\ ~file.sound => vm' = Completed(Defaults(start'))
<1>1. ASSUME IInv, Next PROVE A
  <2>1. ASSUME pc = "off", pc' = "rest" PROVE \E e \in Environments : Launch(e)
    BY <1>1, <2>1
    DEF Next, End, SaveDialog, SelectModel, BeginSave, EndSave, WriteFails, Run
  <2> QED BY <1>1, <2>1, LaunchShows
<1>2. IInv /\ [Next]_vars => [A]_vars
  BY <1>1
<1> HIDE DEF A
<1>3. Spec => [][A]_vars
  BY <1>2, SettingsInvariant, PTL DEF Spec
<1> QED BY <1>3 DEF A, SettingsSurvive

-----------------------------------------------------------------------------
(* The language                                                            *)

\* The steps of the settings are those of Settings.
LEMMA TextStep == ASSUME [TextNext]_allVars PROVE [Next]_vars
BY DEF TextNext, Next, LaunchTexts, SaveTexts, ApplyQueued, ChooseWorkspace, allVars

\* The copies of the texts are in the language of the service at any time, what
\* the window shows at rest.
Copies ==
  /\ cache = In(language) /\ labels = In(language)
  /\ pc = "rest" => window = cache /\ (tool = cache \/ refused) /\ button = vm.model

LEMMA CopiesBase == ASSUME TextInit PROVE IInv /\ Copies
BY Base DEF TextInit, Init, Copies

LEMMA SameFiles == ASSUME UNCHANGED files PROVE In(language)' = In(language')
BY DEF In, Found, Table

LEMMA CopiesStep == ASSUME IInv, Copies, [TextNext]_allVars PROVE Copies'
<1>1. UNCHANGED files
  BY DEF TextNext, LaunchTexts, SaveTexts, ApplyQueued, ChooseWorkspace, allVars
<1>2. In(language)' = In(language')
  BY <1>1, SameFiles
<1>3. ASSUME NEW e \in Environments, LaunchTexts(e) PROVE Copies'
  BY <1>2, <1>3 DEF LaunchTexts, UpdateTool, Copies
<1>4. CASE SaveTexts
  <2>1. cache' = In(language') /\ labels' = In(language') /\ window' = cache'
    BY <1>4 DEF SaveTexts, WindowAtSave, Told, Copies
  <2>2. button' = vm'.model
    BY <1>4 DEF SaveTexts, EndSave, WriteFails
  <2>3. tool' = cache' \/ refused'
    BY <1>4, <2>1 DEF SaveTexts, UpdateTool
  <2> QED BY <1>2, <2>1, <2>2, <2>3 DEF Copies
<1>5. CASE ApplyQueued \/ ChooseWorkspace \/ UNCHANGED allVars
  BY <1>2, <1>5
  DEF ApplyQueued, ChooseWorkspace, UpdateTool, Copies, allVars, vars, textVars, toolVars
<1>6. ASSUME UNCHANGED textVars, UNCHANGED language, pc' = "rest" => pc = "rest" /\ vm' = vm
      PROVE  Copies'
  BY <1>2, <1>6 DEF Copies, textVars, toolVars
<1>7. ASSUME \/ End \/ Run
             \/ \E form \in Forms : SaveDialog(form)
             \/ \E model \in Models : SelectModel(model)
      PROVE  UNCHANGED language /\ (pc' = "rest" => pc = "rest" /\ vm' = vm)
  BY <1>7 DEF End, Run, SaveDialog, SelectModel, BeginSave
<1> QED BY <1>3, <1>4, <1>5, <1>6, <1>7 DEF TextNext

\* With its language the program is what it is without: every theorem about the
\* settings holds with it.
THEOREM LanguageImplementsSettings == TextSpec => Spec
<1>1. TextInit => Init
  BY DEF TextInit
<1>2. [TextNext]_allVars => [Next]_vars
  BY TextStep
<1> QED BY <1>1, <1>2, PTL DEF TextSpec, Spec

\* At rest the labels of the settings and the texts that apply_language writes
\* are in the language of the settings, and so is the workspace button unless its
\* last update was refused; the menu offers every model once, the one of the
\* settings too (SettingsVm::save, AppText, BaseVm, apply_language,
\* update_workspace, normalize_models).
THEOREM LanguageTextsCurrent == TextSpec => []TextsCurrent
<1>1. TextInit => Copies
  BY CopiesBase
<1>2. IInv /\ Copies /\ [TextNext]_allVars => Copies'
  BY CopiesStep
<1>3. ASSUME IInv, Copies PROVE TextsCurrent
  <2>1. pc = "rest" => CopiesCurrent
    BY <1>3 DEF IInv, Injected, Copies, CopiesCurrent
  <2>2. MenuWhole
    BY <1>3 DEF IInv, Shown, Whole, Normal, MenuWhole
  <2> QED BY <2>1, <2>2 DEF TextsCurrent
<1> QED
  BY <1>1, <1>2, <1>3, LanguageImplementsSettings, SettingsInvariant, PTL DEF TextSpec
=============================================================================
