------------------------- MODULE StreamParserProofs -------------------------
(***************************************************************************)
(* What the client's parser guarantees for every reply, every cutting of   *)
(* its lines by the network and every window and bound, and of which calls *)
(* it guarantees it.  The invariant speaks of the points of the reply that *)
(* lie between the lines on their way: the provider is at the last one,    *)
(* the client at the first.                                                *)
(***************************************************************************)
EXTENDS StreamParser, FiniteSetTheorems, SequenceTheorems, TLAPS

-----------------------------------------------------------------------------
(* The merge of fragments and the collection of calls                      *)

\* Whichever form the provider uses, a fragment that goes on to letter q makes
\* the first p letters of the arguments the first q.
LEMMA MergeGrows ==
  ASSUME NEW S, NEW w \in Seq(S), NEW p \in 0..Len(w), NEW q \in 0..Len(w), p <= q,
         NEW from \in {1, p + 1},
         from = p + 1 /\ p > 0 => p < q /\ \A k \in 2..Len(w) : w[k] # w[1]
  PROVE  Merged(SubSeq(w, 1, p), SubSeq(w, from, q)) = SubSeq(w, 1, q)
<1> DEFINE args  == SubSeq(w, 1, p)
           part  == SubSeq(w, from, q)
           grown == SubSeq(w, 1, q)
<1>0. Len(w) \in Nat /\ p \in Nat /\ q \in Nat /\ from \in Nat \ {0}
  OBVIOUS
<1>w. \A i \in 1..Len(w) : w[i] \in S
  OBVIOUS
<1>1. /\ args \in Seq(S) /\ Len(args) = p /\ \A i \in 1..p : args[i] = w[i]
  <2>1. \A i \in 1..p : w[i] \in S
    BY <1>0, <1>w
  <2>2. /\ args \in Seq(S) /\ Len(args) = (IF 1 <= p THEN p - 1 + 1 ELSE 0)
        /\ \A i \in 1..p - 1 + 1 : args[i] = w[1 + i - 1]
    BY <1>0, <2>1, SubSeqProperties
  <2> HIDE DEF args
  <2> QED BY <1>0, <2>2
<1>2. /\ grown \in Seq(S) /\ Len(grown) = q /\ \A i \in 1..q : grown[i] = w[i]
  <2>1. \A i \in 1..q : w[i] \in S
    BY <1>0, <1>w
  <2>2. /\ grown \in Seq(S) /\ Len(grown) = (IF 1 <= q THEN q - 1 + 1 ELSE 0)
        /\ \A i \in 1..q - 1 + 1 : grown[i] = w[1 + i - 1]
    BY <1>0, <2>1, SubSeqProperties
  <2> HIDE DEF grown
  <2> QED BY <1>0, <2>2
<1>3. /\ part \in Seq(S) /\ Len(part) = q - from + 1
      /\ \A i \in 1..Len(part) : part[i] = w[from + i - 1]
  <2>1. \A i \in from..q : w[i] \in S
    BY <1>0, <1>w
  <2>2. /\ part \in Seq(S) /\ Len(part) = (IF from <= q THEN q - from + 1 ELSE 0)
        /\ \A i \in 1..q - from + 1 : part[i] = w[from + i - 1]
    BY <1>0, <2>1, SubSeqProperties
  <2>3. from <= q + 1
    BY <1>0
  <2> HIDE DEF part
  <2> QED BY <1>0, <2>2, <2>3
<1>4. CASE p = 0
  <2>1. args = << >> /\ from = 1 /\ part = grown
    BY <1>1, <1>4
  <2>2. << >> \o part = part
    BY <1>3, ConcatEmptySeq
  <2>3. part # << >> => ~IsPrefix(part, << >>)
    BY <1>3, EmptySeq DEF IsPrefix
  <2> HIDE DEF args, part, grown
  <2>4. Merged(args, part) = part
    BY <2>1, <2>2, <2>3 DEF Merged
  <2> QED BY <2>1, <2>4 DEF args, part, grown
<1>5. CASE p > 0 /\ from = 1
  <2>1. part = grown
    BY <1>5
  <2>2. SubSeq(grown, 1, Len(args)) = args
    <3>1. \A i \in 1..p : grown[i] \in S
      BY <1>0, <1>2
    <3>2. /\ SubSeq(grown, 1, p) \in Seq(S)
          /\ Len(SubSeq(grown, 1, p)) = (IF 1 <= p THEN p - 1 + 1 ELSE 0)
          /\ \A i \in 1..p - 1 + 1 : SubSeq(grown, 1, p)[i] = grown[1 + i - 1]
      BY <1>0, <3>1, SubSeqProperties
    <3> HIDE DEF grown, args
    <3>3. \A i \in 1..p : SubSeq(grown, 1, p)[i] = args[i]
      BY <1>0, <1>1, <1>2, <3>2
    <3> QED BY <1>0, <1>1, <3>2, <3>3, SeqEqual
  <2>3. SubSeq(args, 1, Len(args)) = args
    BY <1>1, SubSeqFull
  <2>4. args # << >>
    BY <1>0, <1>1, <1>5
  <2> HIDE DEF args, part, grown
  <2>5. IsPrefix(args, part)
    BY <1>0, <1>1, <1>2, <2>1, <2>2, <2>3 DEF IsPrefix
  <2>6. Merged(args, part) = part
    BY <2>4, <2>5 DEF Merged
  <2> QED BY <2>1, <2>6 DEF args, part, grown
<1>6. CASE p > 0 /\ from = p + 1
  <2>1. p < q /\ w[p + 1] # w[1]
    BY <1>0, <1>6
  <2>2. Len(part) = q - p /\ Len(part) \in Nat \ {0} /\ part[1] = w[p + 1]
    <3> HIDE DEF part
    <3> QED BY <1>0, <1>3, <1>6, <2>1
  <2>3. args[1] = w[1] /\ Len(args) \in Nat \ {0}
    <3> HIDE DEF args
    <3> QED BY <1>0, <1>1, <1>6
  <2> HIDE DEF args, part, grown
  <2>4. ASSUME NEW s \in Seq(S), NEW t \in Seq(S), Len(s) \in Nat \ {0}, Len(t) \in Nat \ {0},
               s[1] # t[1]
        PROVE  ~IsPrefix(s, t)
    <3> SUFFICES ASSUME IsPrefix(s, t) PROVE FALSE
      OBVIOUS
    <3>1. Len(s) <= Len(t) /\ SubSeq(s, 1, Len(s)) = SubSeq(t, 1, Len(s))
      BY DEF IsPrefix
    <3>2. SubSeq(s, 1, Len(s))[1] = s[1]
      BY <2>4
    <3>3. SubSeq(t, 1, Len(s))[1] = t[1]
      BY <2>4, <3>1
    <3> QED BY <2>4, <3>1, <3>2, <3>3
  <2>5. ~IsPrefix(args, part) /\ ~IsPrefix(part, args)
    BY <1>1, <1>3, <2>1, <2>2, <2>3, <2>4
  <2>6. Merged(args, part) = args \o part
    BY <2>5 DEF Merged
  <2>7. args \o part = grown
    <3> DEFINE both == args \o part
    <3>1. /\ both \in Seq(S) /\ Len(both) = Len(args) + Len(part)
          /\ \A i \in 1..Len(args) + Len(part) :
                both[i] = IF i <= Len(args) THEN args[i] ELSE part[i - Len(args)]
      BY <1>1, <1>3, ConcatProperties
    <3> HIDE DEF both
    <3>2. Len(both) = q
      BY <1>0, <1>1, <2>2, <3>1
    <3>3. ASSUME NEW i \in 1..q PROVE both[i] = w[i]
      <4>1. i \in 1..Len(args) + Len(part)
        BY <1>0, <1>1, <2>2
      <4>2. CASE i <= p
        BY <1>0, <1>1, <3>1, <4>1, <4>2
      <4>3. CASE i > p
        <5>1. i - p \in 1..Len(part) /\ p + 1 + (i - p) - 1 = i
          BY <1>0, <2>2, <4>3
        <5>2. both[i] = part[i - p]
          BY <1>0, <1>1, <3>1, <4>1, <4>3
        <5>3. part[i - p] = w[p + 1 + (i - p) - 1]
          BY <1>3, <1>6, <5>1
        <5> QED BY <5>1, <5>2, <5>3
      <4> QED BY <1>0, <4>2, <4>3
    <3>4. both = grown
      BY <1>0, <1>2, <3>1, <3>2, <3>3, SeqEqual
    <3> QED BY <3>4 DEF both
  <2> QED BY <2>6, <2>7 DEF args, part, grown
<1> QED BY <1>0, <1>4, <1>5, <1>6

Accs == [present : BOOLEAN, named : BOOLEAN, args : Seq(Letters)]
CallSet == [index : Nat, named : BOOLEAN, args : Seq(Letters)]

\* The calls that are present are collected, each once, in the order of their
\* indices.
LEMMA CollectSorts ==
  ASSUME NEW n \in Nat, NEW a \in [1..n -> Accs]
  PROVE  /\ Collected(a) \in Seq(CallSet)
         /\ \A j, k \in DOMAIN Collected(a) :
              j < k => Collected(a)[j].index < Collected(a)[k].index
         /\ \A i \in 1..n : a[i].present =>
              [index |-> i, named |-> a[i].named, args |-> a[i].args] \in ToSet(Collected(a))
<1> DEFINE I       == {i \in DOMAIN a : a[i].present}
           low(i)  == {j \in I : j <= i}
           rank(i) == Cardinality(low(i))
           m       == Cardinality(I)
           pick(k) == CHOOSE j \in I : rank(j) = k
           call(i) == [index |-> i, named |-> a[i].named, args |-> a[i].args]
<1>1. I \subseteq 1..n /\ IsFiniteSet(I) /\ m \in Nat
  <2>1. IsFiniteSet(1..n)
    BY FS_Interval
  <2>2. I \subseteq 1..n
    OBVIOUS
  <2> HIDE DEF I
  <2> QED BY <2>1, <2>2, FS_Subset, FS_CardinalityType
<1>i. \A i \in I : i \in Nat
  OBVIOUS
<1> HIDE DEF I
<1>2. ASSUME NEW i \in I PROVE IsFiniteSet(low(i)) /\ rank(i) \in 1..m
  <2>1. low(i) \in SUBSET I /\ i \in low(i)
    BY <1>i
  <2> HIDE DEF low
  <2>2. IsFiniteSet(low(i)) /\ rank(i) <= m /\ rank(i) \in Nat
    BY <1>1, <2>1, FS_Subset, FS_CardinalityType
  <2>3. rank(i) # 0
    BY <2>1, <2>2, FS_EmptySet
  <2> QED BY <1>1, <2>2, <2>3
<1>3. ASSUME NEW i \in I, NEW j \in I, i < j PROVE rank(i) < rank(j)
  <2>1. low(i) \in SUBSET low(j) /\ j \in low(j) /\ j \notin low(i)
    <3>1. i \in Nat /\ j \in Nat
      BY <1>i
    <3>2. ASSUME NEW x \in low(i) PROVE x \in low(j)
      <4>1. x \in I /\ x <= i /\ x \in Nat
        BY <1>i
      <4>2. x <= j
        BY <1>3, <3>1, <4>1
      <4> QED BY <4>1, <4>2
    <3>3. j \in low(j) /\ j \notin low(i)
      BY <1>3, <3>1
    <3> QED BY <3>2, <3>3
  <2>2. IsFiniteSet(low(j)) /\ rank(i) \in Nat /\ rank(j) \in Nat
    <3>1. IsFiniteSet(low(j)) /\ rank(i) \in 1..m /\ rank(j) \in 1..m
      BY <1>2
    <3> HIDE DEF low, rank, m
    <3> QED BY <1>1, <3>1
  <2> HIDE DEF low
  <2>3. rank(i) <= rank(j) /\ (rank(j) = rank(i) => low(j) = low(i))
    BY <2>1, <2>2, FS_Subset
  <2> QED BY <2>1, <2>2, <2>3
<1> HIDE DEF low, rank, m
<1>4. ASSUME NEW k \in 1..m PROVE \E j \in I : rank(j) = k
  <2> DEFINE f == [i \in I |-> rank(i)]
  <2>1. f \in [I -> 1..m]
    BY <1>2
  <2>2. \A i, j \in I : f[i] = f[j] => i = j
    <3>1. ASSUME NEW i \in I, NEW j \in I, f[i] = f[j], i # j PROVE FALSE
      <4>1. rank(i) \in 1..m /\ rank(j) \in 1..m /\ rank(i) = rank(j) /\ i \in Nat /\ j \in Nat
        BY <1>i, <1>2, <3>1
      <4>2. i < j \/ j < i
        BY <3>1, <4>1
      <4>3. rank(i) < rank(j) \/ rank(j) < rank(i)
        BY <1>3, <4>2
      <4> QED BY <1>1, <4>1, <4>3
    <3> QED BY <3>1
  <2>3. f \in Injection(I, 1..m)
    BY <2>1, <2>2 DEF Injection, IsInjective
  <2>4. IsFiniteSet(1..m) /\ Cardinality(1..m) = m
    BY <1>1, FS_Interval
  <2>5. f \in Surjection(I, 1..m)
    BY <2>3, <2>4, FS_Injection DEF m
  <2>6. \E j \in I : f[j] = k
    BY <2>5 DEF Surjection
  <2> QED BY <2>6
<1>5. \A k \in 1..m : pick(k) \in I /\ rank(pick(k)) = k
  BY <1>4
<1>6. \A i \in I : rank(i) \in 1..m /\ pick(rank(i)) = i
  <2>1. ASSUME NEW i \in I PROVE rank(i) \in 1..m /\ pick(rank(i)) = i
    <3>1. rank(i) \in 1..m
      BY <1>2
    <3>2. pick(rank(i)) \in I /\ rank(pick(rank(i))) = rank(i)
      BY <1>5, <3>1
    <3> DEFINE j == pick(rank(i))
    <3>3. j \in I /\ rank(j) = rank(i) /\ j \in Nat /\ i \in Nat
      <4> HIDE DEF pick
      <4> QED BY <1>i, <3>2
    <3> HIDE DEF j
    <3>4. ~(i < j) /\ ~(j < i)
      BY <1>1, <1>3, <3>1, <3>3
    <3>5. j = i
      BY <3>3, <3>4
    <3> QED BY <3>1, <3>5 DEF j
  <2> QED BY <2>1
<1>7. Collected(a) = [k \in 1..m |-> call(pick(k))]
  BY DEF Collected, I, low, rank, m
<1> HIDE DEF pick
<1>8. \A i \in I : call(i) \in CallSet
  BY <1>1 DEF CallSet, Accs
<1>9. Collected(a) \in Seq(CallSet)
  <2> HIDE DEF call
  <2>1. \A k \in 1..m : call(pick(k)) \in CallSet
    BY <1>5, <1>8
  <2> QED BY <1>1, <1>7, <2>1
<1>10. ASSUME NEW j \in 1..m, NEW k \in 1..m, j < k PROVE pick(j) < pick(k)
  <2>1. pick(j) \in I /\ pick(k) \in I /\ rank(pick(j)) = j /\ rank(pick(k)) = k
    BY <1>5
  <2>2. pick(j) \in Nat /\ pick(k) \in Nat
    BY <1>i, <2>1
  <2>3. ~(pick(k) < pick(j)) /\ pick(j) # pick(k)
    <3>1. pick(k) < pick(j) => rank(pick(k)) < rank(pick(j))
      BY <1>3, <2>1
    <3>2. ~(k < j) /\ k # j
      BY <1>1, <1>10
    <3> HIDE DEF pick
    <3> QED BY <2>1, <3>1, <3>2
  <2> QED BY <2>2, <2>3
<1>11. DOMAIN Collected(a) = 1..m
  BY <1>7
<1>12. ASSUME NEW j \in DOMAIN Collected(a), NEW k \in DOMAIN Collected(a), j < k
       PROVE  Collected(a)[j].index < Collected(a)[k].index
  <2>1. Collected(a)[j].index = pick(j) /\ Collected(a)[k].index = pick(k)
    BY <1>7, <1>11
  <2> QED BY <1>10, <1>11, <1>12, <2>1
<1>13. ASSUME NEW i \in 1..n, a[i].present PROVE call(i) \in ToSet(Collected(a))
  <2>1. i \in I
    BY <1>13 DEF I
  <2>2. rank(i) \in DOMAIN Collected(a) /\ Collected(a)[rank(i)] = call(i)
    <3> HIDE DEF call
    <3> QED BY <1>6, <1>7, <1>11, <2>1
  <2> HIDE DEF call
  <2> QED BY <2>2 DEF ToSet
<1> QED BY <1>9, <1>12, <1>13

\* Where none is, there is nothing to collect.
LEMMA CollectNone ==
  ASSUME NEW a, \A i \in DOMAIN a : ~a[i].present
  PROVE  Collected(a) = << >>
<1>1. {i \in DOMAIN a : a[i].present} = {}
  OBVIOUS
<1>2. Cardinality({}) = 0
  BY FS_EmptySet
<1>3. Cardinality({i \in DOMAIN a : a[i].present}) = 0
  BY <1>1, <1>2
<1> DEFINE S == {i \in DOMAIN a : a[i].present}
           e(k) == LET i == CHOOSE j \in S : Cardinality({l \in S : l <= j}) = k
                   IN  [index |-> i, named |-> a[i].named, args |-> a[i].args]
<1>4. Collected(a) = [k \in 1..Cardinality(S) |-> e(k)]
  BY DEF Collected
<1>5. Cardinality(S) = 0
  BY <1>3
<1> HIDE DEF S, e
<1>6. Collected(a) = [k \in 1..0 |-> e(k)]
  BY <1>4, <1>5
<1> QED BY <1>6

-----------------------------------------------------------------------------
(* The inductive invariant                                                 *)

Fragments == [index : Nat, named : BOOLEAN, part : Seq(Letters)]
Lines == [kind : {"chunk", "noise", "done"}, delta : Nat, null : BOOLEAN,
          fragment : Fragments, finish : BOOLEAN]
HalfLines == [line : Lines, last : BOOLEAN]

TypeInv ==
  /\ whole \in BOOLEAN /\ form \in {"delta", "snapshot"}
  /\ phase \in {"resolve", "connect", "handshake", "start", "body"}
  /\ status \in {0, 200, 500}
  /\ reply \in Seq(Seq(Letters))
  /\ progress \in [Calls -> Int]
  /\ \A i \in Calls : progress[i] \in -1..Len(reply[i])
  /\ spoken \in Nat /\ noise \in Nat /\ muted \in SUBSET Nat
  /\ stage \in {"open", "finished", "closed", "broken"}
  /\ wire \in Seq(HalfLines) /\ sse \in Seq(HalfLines)
  /\ outcome \in {"receiving", "returned", "thrown"}

\* The body begins with a status, and what returned had seen its end.
PhaseInv ==
  /\ phase = "body" <=> status # 0
  /\ status = 0 => stage = "open"
  /\ stage = "finished" => status = 200
  /\ outcome = "returned" =>
       /\ stage = "closed" \/ (stage = "broken" /\ ~whole)
       /\ status = 200 /\ wire = << >> /\ (~whole => Len(sse) < 2)

\* A point of a reply: the letters of each call, the text deltas, whether the
\* calls were delivered, and the calls a null content has muted.
Points == [at : [Calls -> Int], said : Nat, over : BOOLEAN, mute : SUBSET Nat]
Point(at, said, over, mute) == [at |-> at, said |-> said, over |-> over, mute |-> mute]

AllAt(r) == \A i \in Calls : r.at[i] = Len(reply[i])
Muting(r, isNull, i) == IF isNull THEN r.mute \cup {i} ELSE r.mute

\* What a line makes of the point before it.
Nothing(r, line, q) ==
  line = Line("noise", 0, FALSE, NoFragment, FALSE) /\ q = r
Speaks(r, line, q) ==
  /\ ~r.over
  /\ line = Line("chunk", r.said + 1, FALSE, NoFragment, FALSE)
  /\ q = Point(r.at, r.said + 1, FALSE, r.mute)
Argues(r, line, q, i, upto, isNull) ==
  /\ ~r.over /\ upto > r.at[i]
  /\ LET from == IF form = "snapshot" \/ r.at[i] = -1 THEN 1 ELSE r.at[i] + 1
     IN  line = Line("chunk", 0, isNull,
                     Fragment(i, r.at[i] = -1, SubSeq(reply[i], from, upto)), FALSE)
  /\ q = Point([r.at EXCEPT ![i] = upto], r.said, FALSE, Muting(r, isNull, i))
Finishes(r, line, q, isNull) ==
  /\ ~r.over /\ AllAt(r)
  /\ line = Line("chunk", 0, isNull, NoFragment, TRUE)
  /\ q = Point(r.at, r.said, ~isNull, Muting(r, isNull, 0))
Closes(r, line, q) ==
  /\ AllAt(r)
  /\ line = Line("done", 0, FALSE, NoFragment, TRUE)
  /\ q = Point(r.at, r.said, TRUE, r.mute \ {0})

Follows(r, line, q) ==
  \/ Nothing(r, line, q) \/ Speaks(r, line, q)
  \/ \E i \in Calls : \E upto \in 0..Len(reply[i]), isNull \in BOOLEAN :
       Argues(r, line, q, i, upto, isNull)
  \/ \E isNull \in BOOLEAN : Finishes(r, line, q, isNull)
  \/ Closes(r, line, q)

\* The accumulator of a call that is not mistaken, at a point before the end.
Gathered(at, i) ==
  IF at[i] = -1 THEN NoCall
  ELSE [present |-> TRUE, named |-> TRUE, args |-> SubSeq(reply[i], 1, at[i])]

\* Calls in order, and among them each that is not mistaken.
Delivered(calls, mute) ==
  /\ calls \in Seq(CallSet)
  /\ \A j, k \in DOMAIN calls : j < k => calls[j].index < calls[k].index
  /\ \A i \in Calls : i \in mute \/ Repeats(i) \/ Meant(i) \in ToSet(calls)

\* The client is at a point; the provider is at a point.
Heard(r) ==
  /\ text = [k \in 1..r.said |-> k]
  /\ \A i \in Calls : r.at[i] \in -1..Len(reply[i])
  /\ acc \in [Calls -> Accs]
  /\ ~r.over => /\ pending = << >>
                /\ \A i \in Calls : i \in r.mute \/ Repeats(i) \/ acc[i] = Gathered(r.at, i)
  /\ r.over => Delivered(pending, r.mute) /\ acc = [i \in Calls |-> NoCall]
Told(r) ==
  /\ r.at = progress /\ r.said = spoken /\ r.mute = muted
  /\ r.over => AllAt(r)
  /\ stage = "open" => ~r.over
  /\ stage = "finished" \/ (stage = "closed" /\ status = 200) => r.over \/ 0 \in r.mute

\* No point is ahead of the provider.
Behind(r) ==
  /\ r.said <= spoken /\ r.mute \ {0} \subseteq muted
  /\ r.over => AllSent
  /\ status # 200 => r.said = 0 /\ ~r.over

\* The lines between client and provider, and the points between them.
Halves == sse \o wire
Tracks(tr) ==
  /\ Len(tr) # 0
  /\ Len(Halves) = 2 * (Len(tr) - 1)
  /\ \A j \in 1..(Len(tr) - 1) : Follows(tr[j], Halves[2 * j - 1].line, tr[j + 1])
  /\ Heard(tr[1]) /\ Told(tr[Len(tr)])
  /\ \A j \in 1..Len(tr) : Behind(tr[j])

StreamInv == ~whole => \E tr \in Seq(Points) : Tracks(tr)

\* A whole reply: its lines are the provider's, in order.
WholeInv ==
  whole =>
    /\ reply = << >> /\ pending = << >>
    /\ Len(Halves) = 2 * (spoken + noise)
    /\ noise > 0 => \E j \in 1..(spoken + noise) : Halves[2 * j].line.kind = "noise"
    /\ noise = 0 => \A j \in 1..spoken : Halves[2 * j].line.delta = j
    /\ status # 200 => spoken = 0
    /\ IF outcome = "returned" THEN text = [k \in 1..spoken |-> k] ELSE text = << >>

ParserInv == TypeInv /\ PhaseInv /\ StreamInv /\ WholeInv

LEMMA InitParser == ASSUME Init PROVE ParserInv
<1> USE StreamAssumption
<1>1. reply \in Seq(Seq(Letters))
  BY DEF Init
<1>3. Calls = 1..Len(reply) /\ \A i \in Calls : Len(reply[i]) \in Nat
  BY <1>1 DEF Calls
<1>4. /\ whole \in BOOLEAN /\ form \in {"delta", "snapshot"} /\ (whole => reply = << >>)
      /\ phase = "resolve" /\ status = 0 /\ stage = "open" /\ outcome = "receiving"
      /\ progress = [i \in Calls |-> -1] /\ acc = [i \in Calls |-> NoCall]
      /\ spoken = 0 /\ noise = 0 /\ muted = {} /\ wire = << >> /\ sse = << >>
      /\ text = << >> /\ pending = << >>
  BY DEF Init, Calls
<1>5. TypeInv
  BY <1>1, <1>3, <1>4 DEF TypeInv
<1>6. PhaseInv
  BY <1>4 DEF PhaseInv
<1>7. Halves = << >> /\ Len(Halves) = 0
  BY <1>4, ConcatEmptySeq, EmptySeq DEF Halves
<1>8. StreamInv
  <2> DEFINE r == Point(progress, 0, FALSE, {})
             tr == <<r>>
  <2>1. r \in Points /\ r.at = progress /\ r.said = 0 /\ ~r.over /\ r.mute = {}
    BY <1>4 DEF Point, Points
  <2> HIDE DEF r
  <2>2. tr \in Seq(Points) /\ Len(tr) = 1 /\ tr[1] = r
    BY <2>1
  <2> HIDE DEF tr
  <2>3. [k \in 1..0 |-> k] = << >>
    OBVIOUS
  <2>4. \A i \in Calls : acc[i] = Gathered(progress, i)
    BY <1>4 DEF Gathered
  <2>5. acc \in [Calls -> Accs]
    <3>1. << >> \in Seq(Letters)
      OBVIOUS
    <3>2. NoCall \in Accs
      BY <3>1 DEF NoCall, Accs
    <3> QED BY <1>4, <3>2
  <2>6. Heard(r)
    BY <1>3, <1>4, <2>1, <2>3, <2>4, <2>5 DEF Heard
  <2>7. Told(r)
    BY <1>4, <2>1 DEF Told
  <2>8. Behind(r)
    BY <1>4, <2>1 DEF Behind
  <2>9. Tracks(tr)
    BY <1>7, <2>1, <2>2, <2>6, <2>7, <2>8 DEF Tracks
  <2> QED BY <2>2, <2>9 DEF StreamInv
<1>9. WholeInv
  BY <1>4, <1>7 DEF WholeInv
<1> QED BY <1>5, <1>6, <1>8, <1>9 DEF ParserInv

-----------------------------------------------------------------------------
(* The exchange and the provider                                           *)

LEMMA ReplyKept ==
  ASSUME UNCHANGED <<reply, form>>
  PROVE  /\ Calls' = Calls /\ Points' = Points
         /\ \A i : Meant(i)' = Meant(i) /\ (Repeats(i)' <=> Repeats(i))
BY DEF Calls, Points, Meant, Repeats

\* The points stay where lines, calls and what is known at both ends stay.
LEMMA TracksStay ==
  ASSUME NEW tr \in Seq(Points), Tracks(tr), Halves' = Halves,
         UNCHANGED <<reply, form, progress, spoken, muted, text, pending, acc>>,
         Told(tr[Len(tr)])', status' # 200 => status # 200
  PROVE  Tracks(tr)'
<1>1. Calls' = Calls /\ \A i : Meant(i)' = Meant(i) /\ (Repeats(i)' <=> Repeats(i))
  BY ReplyKept
<1>2. \A r, line, q : Follows(r, line, q)' <=> Follows(r, line, q)
  BY <1>1 DEF Follows, Nothing, Speaks, Argues, Finishes, Closes, AllAt
<1>3. Heard(tr[1])'
  <2>1. Heard(tr[1])
    BY DEF Tracks
  <2> QED BY <1>1, <2>1 DEF Heard, Gathered, Delivered
<1>4. \A j \in 1..(Len(tr) - 1) : Follows(tr[j], Halves[2 * j - 1].line, tr[j + 1])'
  BY <1>2 DEF Tracks
<1>5. \A j \in 1..Len(tr) : Behind(tr[j])'
  <2>1. \A j \in 1..Len(tr) : Behind(tr[j])
    BY DEF Tracks
  <2> QED BY <1>1, <2>1 DEF Behind, AllSent
<1> QED BY <1>3, <1>4, <1>5 DEF Tracks

LEMMA ExchangeParser == ASSUME ParserInv, Exchange PROVE ParserInv'
<1> USE DEF ParserInv
<1>0. /\ outcome = "receiving" /\ outcome' \in {"receiving", "thrown"}
      /\ UNCHANGED <<whole, reply, form, progress, spoken, noise, stage, muted, wire, sse,
                     acc, text, pending>>
      /\ phase' \in {"resolve", "connect", "handshake", "start", "body"}
      /\ \/ status' = status /\ (phase' = "body" <=> phase = "body")
         \/ status = 0 /\ status' \in {200, 500} /\ phase' = "body"
  BY DEF Exchange, Resolve, Connect, ConnectFails, Handshake, Start, ReadFails, GiveUp,
     providerVars, PhaseInv, TypeInv
<1>1. TypeInv'
  BY <1>0 DEF TypeInv, Calls
<1>2. PhaseInv'
  BY <1>0 DEF PhaseInv
<1>3. Halves' = Halves /\ Calls' = Calls /\ Points' = Points
  BY <1>0 DEF Halves, Calls, Points
<1>4. ASSUME ~whole PROVE \E tr \in Seq(Points) : Tracks(tr)'
  <2>1. PICK tr \in Seq(Points) : Tracks(tr)
    BY <1>4 DEF StreamInv
  <2>2. stage = "closed" /\ status' = 200 => status = 200
    BY <1>0 DEF PhaseInv
  <2>3. Told(tr[Len(tr)])'
    BY <1>0, <1>3, <2>1, <2>2 DEF Tracks, Told, AllAt
  <2>4. status' # 200 => status # 200
    BY <1>0
  <2> QED BY <1>0, <1>3, <2>1, <2>3, <2>4, TracksStay
<1>5. StreamInv'
  BY <1>0, <1>3, <1>4 DEF StreamInv
<1>6. WholeInv'
  <2>1. status' # 200 => status # 200
    BY <1>0
  <2> QED BY <1>0, <1>3, <2>1 DEF WholeInv
<1> QED BY <1>1, <1>2, <1>5, <1>6

LEMMA LineType ==
  ASSUME NEW kind \in {"chunk", "noise", "done"}, NEW delta \in Nat, NEW null \in BOOLEAN,
         NEW fragment \in Fragments, NEW finish \in BOOLEAN
  PROVE  Line(kind, delta, null, fragment, finish) \in Lines
BY DEF Line, Lines

LEMMA NoFragmentType == NoFragment \in Fragments
<1>1. << >> \in Seq(Letters)
  OBVIOUS
<1> QED BY <1>1 DEF NoFragment, Fragment, Fragments

\* A line sent lengthens what is on its way by its two halves.
LEMMA SendHalves ==
  ASSUME TypeInv, NEW line \in Lines, Send(line), sse' = sse
  PROVE  /\ wire' \in Seq(HalfLines) /\ Halves \in Seq(HalfLines)
         /\ Len(Halves') = Len(Halves) + 2 /\ Len(Halves) \in Nat
         /\ \A k \in 1..Len(Halves) : Halves'[k] = Halves[k]
         /\ Halves'[Len(Halves) + 1].line = line
         /\ Halves'[Len(Halves) + 2].line = line
<1> DEFINE a == [line |-> line, last |-> FALSE]
           b == [line |-> line, last |-> TRUE]
           two == <<a, b>>
<1>1. a \in HalfLines /\ b \in HalfLines /\ a.line = line /\ b.line = line
  BY DEF HalfLines
<1>2. wire' = wire \o two
  BY DEF Send
<1> HIDE DEF a, b
<1>3. two \in Seq(HalfLines) /\ Len(two) = 2 /\ two[1] = a /\ two[2] = b
  BY <1>1
<1> HIDE DEF two
<1>4. wire \in Seq(HalfLines) /\ sse \in Seq(HalfLines)
  BY DEF TypeInv
<1>5. wire' \in Seq(HalfLines)
  BY <1>2, <1>3, <1>4, ConcatProperties
<1>6. Halves' = Halves \o two
  <2>1. Halves' = sse \o (wire \o two)
    BY <1>2 DEF Halves
  <2>2. (sse \o wire) \o two = sse \o (wire \o two)
    BY <1>3, <1>4, ConcatAssociative
  <2> QED BY <2>1, <2>2 DEF Halves
<1>7. Halves \in Seq(HalfLines)
  BY <1>4, ConcatProperties DEF Halves
<1> DEFINE H == Halves
           G == Halves'
<1>8. H \in Seq(HalfLines) /\ G = H \o two /\ Len(H) \in Nat
  BY <1>6, <1>7, LenProperties
<1> HIDE DEF H, G
<1>9. /\ Len(G) = Len(H) + Len(two)
      /\ \A k \in 1..Len(H) + Len(two) : G[k] = IF k <= Len(H) THEN H[k] ELSE two[k - Len(H)]
  BY <1>3, <1>8, ConcatProperties
<1>10. Len(G) = Len(H) + 2 /\ \A k \in 1..Len(H) : G[k] = H[k]
  BY <1>3, <1>8, <1>9
<1>11. G[Len(H) + 1] = two[1] /\ G[Len(H) + 2] = two[2]
  <2>1. (Len(H) + 1) - Len(H) = 1 /\ (Len(H) + 2) - Len(H) = 2
    BY <1>8
  <2> QED BY <1>3, <1>8, <1>9, <2>1
<1> QED BY <1>1, <1>3, <1>5, <1>7, <1>8, <1>10, <1>11 DEF H, G

\* A line sent adds a point.
LEMMA SendTracks ==
  ASSUME TypeInv, NEW tr \in Seq(Points), Tracks(tr), NEW line \in Lines, Send(line),
         UNCHANGED <<sse, reply, form, text, pending, acc, status>>,
         NEW q \in Points, Follows(tr[Len(tr)], line, q), Told(q)',
         status # 200 => q = tr[Len(tr)],
         \A p \in Points : Behind(p) => Behind(p)'
  PROVE  \E t \in Seq(Points) : Tracks(t)'
<1> DEFINE t == Append(tr, q)
           n == Len(tr)
<1>1. n \in Nat \ {0}
  BY DEF Tracks
<1>2. /\ t \in Seq(Points) /\ Len(t) = n + 1 /\ t[n + 1] = q
      /\ \A j \in 1..n : t[j] = tr[j]
  BY <1>1, AppendProperties
<1> HIDE DEF t
<1>3. /\ Len(Halves') = Len(Halves) + 2 /\ Len(Halves) = 2 * (n - 1)
      /\ \A k \in 1..Len(Halves) : Halves'[k] = Halves[k]
      /\ Halves'[Len(Halves) + 1].line = line
  BY SendHalves DEF Tracks
<1>4. Calls' = Calls /\ \A i : Meant(i)' = Meant(i) /\ (Repeats(i)' <=> Repeats(i))
  BY ReplyKept
<1>5. \A r, l, p : Follows(r, l, p)' <=> Follows(r, l, p)
  BY <1>4 DEF Follows, Nothing, Speaks, Argues, Finishes, Closes, AllAt
<1>6. Heard(t[1])'
  <2>1. t[1] = tr[1] /\ Heard(tr[1])
    BY <1>1, <1>2 DEF Tracks
  <2>2. Heard(tr[1])'
    BY <1>4, <2>1 DEF Heard, Gathered, Delivered
  <2> QED BY <2>1, <2>2 DEF Heard
<1> HIDE DEF n
<1>7. ASSUME NEW j \in 1..n PROVE Follows(t[j], Halves'[2 * j - 1].line, t[j + 1])
  <2>1. CASE j < n
    <3>1. j \in 1..(n - 1) /\ j + 1 \in 1..n /\ 2 * j - 1 \in 1..Len(Halves)
      BY <1>1, <1>3, <2>1
    <3>2. Follows(tr[j], Halves[2 * j - 1].line, tr[j + 1])
      BY <3>1 DEF Tracks, n
    <3> QED BY <1>2, <1>3, <3>1, <3>2
  <2>2. CASE j = n
    <3>1. 2 * j - 1 = Len(Halves) + 1 /\ j + 1 = n + 1
      BY <1>1, <1>3, <2>2
    <3>2. Follows(tr[n], line, q)
      BY DEF n
    <3>3. t[j] = tr[n] /\ t[j + 1] = q /\ Halves'[2 * j - 1].line = line
      BY <1>1, <1>2, <1>3, <2>2, <3>1
    <3> QED BY <3>2, <3>3
  <2> QED BY <1>1, <2>1, <2>2
<1>8. ASSUME NEW j \in 1..(n + 1) PROVE Behind(t[j])'
  <2>1. \A k \in 1..n : tr[k] \in Points /\ Behind(tr[k])
    BY <1>1 DEF Tracks, n
  <2>2. Behind(q)'
    <3>1. CASE status # 200
      <4>1. q = tr[n] /\ n \in 1..n
        BY <1>1, <3>1 DEF n
      <4> QED BY <2>1, <4>1
    <3>2. CASE status = 200
      <4>1. q.said \in Nat /\ q.said = spoken' /\ q.mute = muted'
        BY DEF Told, Points
      <4>2. q.over => AllSent'
        BY DEF Told, AllAt, AllSent
      <4> QED BY <3>2, <4>1, <4>2 DEF Behind
    <3> QED BY <3>1, <3>2
  <2>3. j \in 1..n \/ j = n + 1
    BY <1>1
  <2> QED BY <1>1, <1>2, <2>1, <2>2, <2>3
<1>9. \A j \in 1..(Len(t) - 1) : Follows(t[j], Halves[2 * j - 1].line, t[j + 1])'
  <2>1. Len(t) - 1 = n
    BY <1>1, <1>2
  <2> QED BY <1>5, <1>7, <2>1
<1>10. Told(t[Len(t)])'
  BY <1>2
<1>11. Len(t) # 0 /\ Len(Halves') = 2 * (Len(t) - 1)
  BY <1>1, <1>2, <1>3
<1>12. \A j \in 1..Len(t) : Behind(t[j])'
  BY <1>2, <1>8
<1>13. Tracks(t)'
  BY <1>6, <1>9, <1>10, <1>11, <1>12 DEF Tracks
<1> QED BY <1>2, <1>13

\* What no step of the provider changes.
LEMMA ProviderKeeps ==
  ASSUME TypeInv, Provider
  PROVE  /\ phase = "body"
         /\ UNCHANGED <<whole, phase, status, reply, form, sse, acc, outcome, text, pending>>
         /\ Calls' = Calls /\ Points' = Points
BY ReplyKept DEF Provider, clientVars, exchangeVars

\* The provider only goes on: no point gets ahead of it.
LEMMA ProviderGoesOn ==
  ASSUME TypeInv, Provider, NEW p \in Points, Behind(p)
  PROVE  Behind(p)'
<1>1. status' = status /\ reply' = reply /\ Calls' = Calls
  BY ProviderKeeps
<1>2. p.said \in Nat /\ spoken \in Nat
  BY DEF Points, TypeInv
<1>3. spoken' \in {spoken, spoken + 1}
  BY DEF Provider, SendText, SendNoise, SendFinish, SendDone, EndBody, Break, SendFragment
<1>4. muted \ {0} \subseteq muted'
  BY DEF Provider, SendText, SendNoise, SendFinish, SendDone, EndBody, Break, SendFragment
<1>5. ASSUME AllSent PROVE AllSent'
  <2>1. ASSUME NEW i \in Calls, NEW upto \in 0..Len(reply[i]), SendFragment(i, upto) PROVE FALSE
    <3>1. upto > progress[i] /\ progress[i] = Len(reply[i]) /\ Len(reply[i]) \in Nat
      BY <1>5, <2>1 DEF SendFragment, AllSent, TypeInv, Calls
    <3> QED BY <3>1
  <2>2. progress' = progress
    BY <2>1 DEF Provider, SendText, SendNoise, SendFinish, SendDone, EndBody, Break
  <2> QED BY <1>1, <1>5, <2>2 DEF AllSent
<1>6. p.said <= spoken /\ p.mute \ {0} \subseteq muted
  BY DEF Behind
<1>7. p.said <= spoken'
  BY <1>2, <1>3, <1>6
<1>8. p.mute \ {0} \subseteq muted'
  BY <1>4, <1>6
<1> QED BY <1>1, <1>5, <1>7, <1>8 DEF Behind

\* The lines and the points of a fragment.
LEMMA FragmentSent ==
  ASSUME TypeInv, NEW i \in Calls, NEW upto \in 0..Len(reply[i]),
         SendFragment(i, upto)
  PROVE  \E line \in Lines, isNull \in BOOLEAN :
           /\ Send(line)
           /\ muted' = IF isNull THEN muted \cup {i} ELSE muted
           /\ \A r \in Points : Told(r) =>
                Argues(r, line, Point(progress', spoken, FALSE, muted'), i, upto, isNull)
<1> DEFINE from  == IF form = "snapshot" \/ progress[i] = -1 THEN 1 ELSE progress[i] + 1
           first == progress[i] = -1
           part  == SubSeq(reply[i], from, upto)
           line(isNull) == Line("chunk", 0, isNull, Fragment(i, first, part), FALSE)
<1>1. /\ stage = "open" /\ upto > progress[i]
      /\ progress' = [progress EXCEPT ![i] = upto]
      /\ \E isNull \in BOOLEAN :
           Send(line(isNull)) /\ muted' = IF isNull THEN muted \cup {i} ELSE muted
  BY DEF SendFragment, Answers
<1>2. /\ reply[i] \in Seq(Letters) /\ Len(reply[i]) \in Nat /\ i \in Nat
      /\ progress[i] \in -1..Len(reply[i])
  BY DEF TypeInv, Calls
<1>3. part \in Seq(Letters)
  <2>1. from \in Nat \ {0} /\ upto \in Int /\ upto <= Len(reply[i])
    BY <1>2
  <2> HIDE DEF from
  <2>2. \A k \in from..upto : reply[i][k] \in Letters
    BY <1>2, <2>1
  <2> QED BY <2>1, <2>2, SubSeqProperties
<1>4. \A isNull \in BOOLEAN : line(isNull) \in Lines
  <2>1. first \in BOOLEAN
    OBVIOUS
  <2> HIDE DEF part, first
  <2>2. Fragment(i, first, part) \in Fragments
    BY <1>2, <1>3, <2>1 DEF Fragment, Fragments
  <2> QED BY <2>2, LineType
<1>5. PICK isNull \in BOOLEAN :
        Send(line(isNull)) /\ muted' = IF isNull THEN muted \cup {i} ELSE muted
  BY <1>1
<1>6. ASSUME NEW r \in Points, Told(r)
      PROVE  Argues(r, line(isNull), Point(progress', spoken, FALSE, muted'), i, upto, isNull)
  <2>1. r.at = progress /\ r.said = spoken /\ r.mute = muted /\ ~r.over
    BY <1>1, <1>6 DEF Told
  <2>2. muted' = Muting(r, isNull, i)
    BY <1>5, <2>1 DEF Muting
  <2> QED BY <1>1, <2>1, <2>2 DEF Argues
<1> HIDE DEF line
<1> QED BY <1>4, <1>5, <1>6

\* A provider of a streamed reply.
LEMMA ProviderStreams ==
  ASSUME TypeInv, PhaseInv, ~whole, StreamInv, Provider
  PROVE  StreamInv'
<1>0. /\ phase = "body" /\ status # 0
      /\ UNCHANGED <<whole, phase, status, reply, form, sse, acc, outcome, text, pending>>
      /\ Calls' = Calls /\ Points' = Points
  BY ProviderKeeps DEF PhaseInv
<1> SUFFICES \E t \in Seq(Points) : Tracks(t)'
  BY <1>0 DEF StreamInv
<1>1. PICK tr \in Seq(Points) : Tracks(tr)
  BY DEF StreamInv
<1> DEFINE r == tr[Len(tr)]
<1>2. r \in Points
  <2>1. Len(tr) \in Nat \ {0}
    BY <1>1 DEF Tracks
  <2> QED BY <2>1
<1>3. Told(r)
  BY <1>1 DEF Tracks
<1>4. status # 200 => ~r.over
  <2>1. Len(tr) \in 1..Len(tr)
    BY <1>1 DEF Tracks
  <2> QED BY <1>1, <2>1 DEF Tracks, Behind
<1>5. ASSUME NEW line \in Lines, Send(line), NEW q \in Points, Follows(r, line, q), Told(q)',
             status # 200 => q = r
      PROVE  \E t \in Seq(Points) : Tracks(t)'
  <2>1. \A p \in Points : Behind(p) => Behind(p)'
    BY ProviderGoesOn
  <2> QED BY <1>0, <1>1, <1>5, <2>1, SendTracks
<1>6. ASSUME wire' = wire, UNCHANGED <<progress, spoken, muted>>, Told(r)'
      PROVE  \E t \in Seq(Points) : Tracks(t)'
  <2>1. Halves' = Halves
    BY <1>0, <1>6 DEF Halves
  <2>2. Tracks(tr)'
    BY <1>0, <1>1, <1>6, <2>1, TracksStay
  <2> QED BY <2>2
<1> HIDE DEF r
<1>t. progress \in [Calls -> Int] /\ spoken \in Nat /\ muted \in SUBSET Nat
  BY DEF TypeInv
<1>7. /\ r.at = progress /\ r.said = spoken /\ r.mute = muted /\ r.over \in BOOLEAN
      /\ r = Point(progress, spoken, r.over, muted)
  BY <1>2, <1>3 DEF Told, Points, Point
<1>8. CASE SendText
  <2> DEFINE line == Line("chunk", spoken + 1, FALSE, NoFragment, FALSE)
  <2>1. /\ stage = "open" /\ status = 200 /\ Send(line) /\ spoken' = spoken + 1
        /\ UNCHANGED <<progress, stage, muted>>
    BY <1>8 DEF SendText, Answers
  <2>2. line \in Lines
    <3>1. spoken + 1 \in Nat /\ "chunk" \in {"chunk", "noise", "done"} /\ FALSE \in BOOLEAN
      BY <1>t
    <3> QED BY <3>1, LineType, NoFragmentType
  <2>3. Point(progress, spoken + 1, FALSE, muted) \in Points
    BY <1>t DEF Point, Points
  <2>4. PICK q \in Points : q = Point(progress, spoken + 1, FALSE, muted)
    BY <2>3
  <2>5. Follows(r, line, q)
    BY <1>3, <1>7, <2>1, <2>4 DEF Follows, Speaks, Told
  <2>6. Told(q)'
    BY <1>0, <2>1, <2>4 DEF Told, Point
  <2> HIDE DEF line
  <2> QED BY <1>5, <2>1, <2>2, <2>5, <2>6
<1>9. ASSUME NEW i \in Calls, NEW upto \in 0..Len(reply[i]), SendFragment(i, upto)
      PROVE  \E t \in Seq(Points) : Tracks(t)'
  <2>1. /\ stage = "open" /\ status = 200 /\ progress' = [progress EXCEPT ![i] = upto]
        /\ UNCHANGED <<spoken, stage>>
    BY <1>9 DEF SendFragment, Answers
  <2>2. upto \in Int /\ progress' \in [Calls -> Int]
    BY <1>t, <2>1 DEF TypeInv
  <2>3. PICK line \in Lines, isNull \in BOOLEAN :
          /\ Send(line)
          /\ muted' = IF isNull THEN muted \cup {i} ELSE muted
          /\ \A p \in Points : Told(p) =>
               Argues(p, line, Point(progress', spoken, FALSE, muted'), i, upto, isNull)
    BY <1>9, FragmentSent
  <2>4. i \in Nat
    BY DEF TypeInv, Calls
  <2>5. Point(progress', spoken, FALSE, muted') \in Points
    BY <1>t, <2>2, <2>3, <2>4 DEF Point, Points
  <2>6. PICK q \in Points : q = Point(progress', spoken, FALSE, muted')
    BY <2>5
  <2>7. Argues(r, line, q, i, upto, isNull)
    BY <1>2, <1>3, <2>3, <2>6
  <2>8. Told(q)'
    BY <1>0, <2>1, <2>6 DEF Told, Point
  <2>9. Follows(r, line, q)
    BY <2>7 DEF Follows
  <2> QED BY <1>5, <2>1, <2>3, <2>8, <2>9
<1>10. CASE SendNoise
  <2> DEFINE line == Line("noise", 0, FALSE, NoFragment, FALSE)
  <2>1. Send(line) /\ stage = "open" /\ UNCHANGED <<progress, spoken, stage, muted>>
    BY <1>10 DEF SendNoise
  <2>2. line \in Lines
    BY LineType, NoFragmentType
  <2>3. Follows(r, line, r)
    BY DEF Follows, Nothing
  <2>4. Told(r)'
    BY <1>0, <1>3, <2>1 DEF Told, AllAt
  <2> HIDE DEF line
  <2> QED BY <1>2, <1>5, <2>1, <2>2, <2>3, <2>4
<1>11. CASE SendFinish
  <2> DEFINE line(isNull) == Line("chunk", 0, isNull, NoFragment, TRUE)
             q(isNull)    == Point(progress, spoken, ~isNull, Muting(r, isNull, 0))
  <2>1. /\ stage = "open" /\ status = 200 /\ AllSent
        /\ stage' = "finished" /\ UNCHANGED <<progress, spoken>>
        /\ \E isNull \in BOOLEAN :
             Send(line(isNull)) /\ muted' = IF isNull THEN muted \cup {0} ELSE muted
    BY <1>11 DEF SendFinish, Answers
  <2>2. PICK isNull \in BOOLEAN :
          Send(line(isNull)) /\ muted' = IF isNull THEN muted \cup {0} ELSE muted
    BY <2>1
  <2>3. line(isNull) \in Lines
    BY LineType, NoFragmentType
  <2>4. muted' = Muting(r, isNull, 0) /\ muted' \in SUBSET Nat
    BY <1>t, <1>7, <2>2 DEF Muting
  <2>5. q(isNull) \in Points
    BY <1>t, <2>4 DEF Point, Points
  <2>6. AllAt(r)
    BY <1>7, <2>1 DEF AllAt, AllSent
  <2>7. Finishes(r, line(isNull), q(isNull), isNull)
    BY <1>3, <1>7, <2>1, <2>6 DEF Finishes, Told
  <2>8. Follows(r, line(isNull), q(isNull))
    BY <2>7 DEF Follows
  <2>9. /\ q(isNull).at = progress /\ q(isNull).said = spoken
        /\ q(isNull).over = ~isNull /\ q(isNull).mute = muted'
    BY <2>4 DEF Point
  <2>10. PICK z \in Points : z = q(isNull)
    BY <2>5
  <2>11. PICK l \in Lines : l = line(isNull)
    BY <2>3
  <2> HIDE DEF line, q
  <2>12. isNull => 0 \in muted'
    BY <2>2
  <2>13. Told(z)'
    BY <1>0, <1>7, <2>1, <2>6, <2>9, <2>10, <2>12 DEF Told, AllAt
  <2> QED BY <1>5, <2>1, <2>2, <2>8, <2>10, <2>11, <2>13
<1>12. CASE SendDone
  <2> DEFINE line == Line("done", 0, FALSE, NoFragment, TRUE)
             q    == Point(progress, spoken, TRUE, muted \ {0})
  <2>1. /\ stage' = "closed" /\ UNCHANGED <<progress, spoken>> /\ AllSent
        /\ \/ Send(line) /\ muted' = muted \ {0}
           \/ stage = "finished" /\ UNCHANGED <<wire, muted>>
        /\ Answers \/ stage = "finished"
    BY <1>12 DEF SendDone
  <2>2. AllAt(r)
    BY <1>7, <2>1 DEF AllAt, AllSent
  <2>3. CASE Send(line) /\ muted' = muted \ {0}
    <3>1. line \in Lines
      BY LineType, NoFragmentType
    <3>2. q \in Points
      BY <1>t DEF Point, Points
    <3>3. Follows(r, line, q)
      BY <1>7, <2>2 DEF Follows, Closes
    <3>4. /\ q.at = progress /\ q.said = spoken /\ q.over = TRUE
          /\ q.mute = muted \ {0}
      BY DEF Point
    <3>5. PICK z \in Points : z = q
      BY <3>2
    <3>6. PICK l \in Lines : l = line
      BY <3>1
    <3>7. status = 200
      BY <2>1 DEF Answers, PhaseInv
    <3> HIDE DEF line, q
    <3>8. Told(z)'
      BY <1>0, <1>7, <2>1, <2>2, <2>3, <3>4, <3>5 DEF Told, AllAt
    <3> QED BY <1>5, <2>3, <3>3, <3>5, <3>6, <3>7, <3>8
  <2>4. CASE stage = "finished" /\ UNCHANGED <<wire, muted>>
    <3>1. Told(r)'
      BY <1>0, <1>3, <2>1, <2>2, <2>4 DEF Told, AllAt
    <3> QED BY <1>6, <2>1, <2>4, <3>1
  <2> QED BY <2>1, <2>3, <2>4
<1>13. CASE EndBody \/ Break
  <2>1. /\ UNCHANGED <<wire, progress, spoken, muted>>
        /\ stage' = "broken" \/ (stage' = "closed" /\ status # 200)
    BY <1>13 DEF EndBody, Break
  <2>2. Told(r)'
    BY <1>0, <1>3, <2>1 DEF Told, AllAt
  <2> QED BY <1>6, <2>1, <2>2
<1> QED BY <1>8, <1>9, <1>10, <1>11, <1>12, <1>13 DEF Provider

\* A provider of a whole reply.
LEMMA ProviderWhole ==
  ASSUME TypeInv, PhaseInv, whole, WholeInv, Provider
  PROVE  WholeInv'
<1>0. /\ phase = "body" /\ status # 0
      /\ UNCHANGED <<whole, phase, status, reply, form, sse, acc, outcome, text, pending>>
      /\ Calls' = Calls /\ Points' = Points
  BY ProviderKeeps DEF PhaseInv
<1>1. /\ reply = << >> /\ pending = << >>
      /\ Len(Halves) = 2 * (spoken + noise)
      /\ noise > 0 => \E j \in 1..(spoken + noise) : Halves[2 * j].line.kind = "noise"
      /\ noise = 0 => \A j \in 1..spoken : Halves[2 * j].line.delta = j
      /\ status # 200 => spoken = 0
      /\ IF outcome = "returned" THEN text = [k \in 1..spoken |-> k] ELSE text = << >>
  BY DEF WholeInv
<1>2. spoken \in Nat /\ noise \in Nat
  BY DEF TypeInv
<1>3. Calls = {}
  BY <1>1 DEF Calls
<1>4. outcome = "returned" => stage = "closed" /\ status = 200
  BY DEF PhaseInv
<1>5. ASSUME NEW line \in Lines, Send(line), stage = "open",
             \/ /\ line.delta = spoken + 1 /\ status = 200
                /\ spoken' = spoken + 1 /\ noise' = noise
             \/ line.kind = "noise" /\ spoken' = spoken /\ noise' = noise + 1
      PROVE  WholeInv'
  <2> DEFINE n == Len(Halves)
  <2>1. /\ Len(Halves') = n + 2 /\ n = 2 * (spoken + noise)
        /\ \A k \in 1..n : Halves'[k] = Halves[k]
        /\ Halves'[n + 2].line = line
    BY <1>0, <1>1, <1>5, SendHalves
  <2> HIDE DEF n
  <2>2. /\ n + 2 = 2 * (spoken + noise + 1)
        /\ \A j \in 1..(spoken + noise) : 2 * j \in 1..n
    BY <1>2, <2>1
  <2>3. Halves'[2 * (spoken + noise + 1)].line = line
    BY <2>1, <2>2
  <2>4. \A j \in 1..(spoken + noise) : Halves'[2 * j] = Halves[2 * j]
    BY <2>1, <2>2
  <2>5. spoken' + noise' = spoken + noise + 1
    BY <1>2, <1>5
  <2>6. Len(Halves') = 2 * (spoken' + noise')
    BY <2>1, <2>2, <2>5
  <2>7. ASSUME noise' > 0
        PROVE  \E j \in 1..(spoken' + noise') : Halves'[2 * j].line.kind = "noise"
    <3>1. CASE noise > 0
      <4>1. PICK j \in 1..(spoken + noise) : Halves[2 * j].line.kind = "noise"
        BY <1>1, <3>1
      <4>2. j \in 1..(spoken' + noise') /\ Halves'[2 * j].line.kind = "noise"
        BY <1>2, <2>4, <2>5, <4>1
      <4> QED BY <4>2
    <3>2. CASE noise = 0
      <4>1. line.kind = "noise"
        BY <1>2, <1>5, <2>7, <3>2
      <4>2. spoken + noise + 1 \in 1..(spoken' + noise')
        BY <1>2, <2>5
      <4> QED BY <2>3, <4>1, <4>2
    <3> QED BY <1>2, <3>1, <3>2
  <2>8. ASSUME noise' = 0, NEW j \in 1..spoken' PROVE Halves'[2 * j].line.delta = j
    <3>1. noise = 0 /\ line.delta = spoken + 1 /\ spoken' = spoken + 1
      BY <1>2, <1>5, <2>8
    <3>2. CASE j = spoken + 1
      <4>1. spoken + noise + 1 = j
        BY <1>2, <3>1, <3>2
      <4> QED BY <2>3, <3>1, <3>2, <4>1
    <3>3. CASE j # spoken + 1
      <4>1. j \in 1..spoken /\ j \in 1..(spoken + noise)
        BY <1>2, <3>1, <3>3
      <4> QED BY <1>1, <2>4, <3>1, <4>1
    <3> QED BY <3>2, <3>3
  <2>9. outcome # "returned"
    BY <1>4, <1>5
  <2>10. status # 200 => spoken' = 0
    BY <1>1, <1>5
  <2> QED BY <1>0, <1>1, <2>6, <2>7, <2>8, <2>9, <2>10 DEF WholeInv
<1>6. CASE SendText
  <2> DEFINE line == Line("chunk", spoken + 1, FALSE, NoFragment, FALSE)
  <2>1. /\ Send(line) /\ stage = "open" /\ status = 200
        /\ spoken' = spoken + 1 /\ noise' = noise
    BY <1>6 DEF SendText, Answers
  <2>2. line \in Lines
    <3>1. spoken + 1 \in Nat /\ "chunk" \in {"chunk", "noise", "done"} /\ FALSE \in BOOLEAN
      BY <1>2
    <3> QED BY <3>1, LineType, NoFragmentType
  <2>3. line.delta = spoken + 1
    BY DEF Line
  <2> HIDE DEF line
  <2> QED BY <1>5, <2>1, <2>2, <2>3
<1>7. CASE SendNoise
  <2> DEFINE line == Line("noise", 0, FALSE, NoFragment, FALSE)
  <2>1. Send(line) /\ stage = "open" /\ spoken' = spoken /\ noise' = noise + 1
    BY <1>7 DEF SendNoise
  <2>2. line \in Lines /\ line.kind = "noise"
    BY LineType, NoFragmentType DEF Line
  <2> HIDE DEF line
  <2> QED BY <1>5, <2>1, <2>2
<1>8. CASE EndBody \/ Break
  <2>1. UNCHANGED <<wire, spoken, noise>>
    BY <1>8 DEF EndBody, Break
  <2>2. Halves' = Halves
    BY <1>0, <2>1 DEF Halves
  <2> QED BY <1>0, <1>1, <2>1, <2>2 DEF WholeInv
<1>9. ~SendFinish /\ ~SendDone
  BY DEF SendFinish, SendDone
<1> QED BY <1>3, <1>6, <1>7, <1>8, <1>9 DEF Provider

LEMMA ProviderParser == ASSUME ParserInv, Provider PROVE ParserInv'
<1> USE DEF ParserInv
<1>0. /\ phase = "body"
      /\ UNCHANGED <<whole, phase, status, reply, form, sse, acc, outcome, text, pending>>
      /\ Calls' = Calls /\ Points' = Points
  BY ProviderKeeps
<1>1. /\ stage \in {"open", "finished"} /\ stage' \in {"open", "finished", "closed", "broken"}
      /\ stage' = "finished" => stage = "finished" \/ status = 200
  BY DEF Provider, SendText, SendNoise, SendFinish, SendDone, EndBody, Break, SendFragment,
     Answers
<1>2. PhaseInv'
  BY <1>0, <1>1 DEF PhaseInv
<1>3. wire' \in Seq(HalfLines)
  <2>1. wire' = wire \/ \E line \in Lines : Send(line)
    <3>1. CASE SendText
      <4>1. spoken + 1 \in Nat /\ "chunk" \in {"chunk", "noise", "done"} /\ FALSE \in BOOLEAN
        BY DEF TypeInv
      <4>2. Line("chunk", spoken + 1, FALSE, NoFragment, FALSE) \in Lines
        BY <4>1, LineType, NoFragmentType
      <4> QED BY <3>1, <4>2 DEF SendText
    <3>2. CASE SendNoise \/ SendFinish \/ SendDone
      <4>1. /\ Line("noise", 0, FALSE, NoFragment, FALSE) \in Lines
            /\ \A isNull \in BOOLEAN : Line("chunk", 0, isNull, NoFragment, TRUE) \in Lines
            /\ Line("done", 0, FALSE, NoFragment, TRUE) \in Lines
        BY LineType, NoFragmentType
      <4> QED BY <3>2, <4>1 DEF SendNoise, SendFinish, SendDone
    <3>3. ASSUME NEW i \in Calls, NEW upto \in 0..Len(reply[i]), SendFragment(i, upto)
          PROVE  \E line \in Lines : Send(line)
      BY <3>3, FragmentSent
    <3>4. CASE EndBody \/ Break
      BY <3>4 DEF EndBody, Break
    <3> QED BY <3>1, <3>2, <3>3, <3>4 DEF Provider
  <2>2. wire \in Seq(HalfLines)
    BY DEF TypeInv
  <2> QED BY <1>0, <2>1, <2>2, SendHalves
<1>m. muted' \in SUBSET Nat
  <2>1. ASSUME NEW i \in Calls, NEW upto \in 0..Len(reply[i]), SendFragment(i, upto)
        PROVE  muted' \in SUBSET Nat
    <3>1. muted' = muted \cup {i} \/ muted' = muted
      BY <2>1 DEF SendFragment
    <3>2. i \in Nat /\ muted \in SUBSET Nat
      BY DEF TypeInv, Calls
    <3> QED BY <3>1, <3>2
  <2>2. CASE SendText \/ SendNoise \/ SendFinish \/ SendDone \/ EndBody \/ Break
    <3>1. muted' \in {muted, muted \cup {0}, muted \ {0}}
      BY <2>2 DEF SendText, SendNoise, SendFinish, SendDone, EndBody, Break
    <3>2. muted \in SUBSET Nat
      BY DEF TypeInv
    <3> QED BY <3>1, <3>2
  <2> QED BY <2>1, <2>2 DEF Provider
<1>4. /\ spoken' \in Nat /\ noise' \in Nat /\ progress' \in [Calls -> Int]
      /\ \A i \in Calls : progress'[i] \in -1..Len(reply[i])
  <2>1. CASE UNCHANGED progress
    <3>1. spoken' \in {spoken, spoken + 1} /\ noise' \in {noise, noise + 1}
      BY DEF Provider, SendText, SendNoise, SendFinish, SendDone, EndBody, Break, SendFragment
    <3> QED BY <2>1, <3>1 DEF TypeInv
  <2>2. ASSUME NEW i \in Calls, NEW upto \in 0..Len(reply[i]), SendFragment(i, upto)
        PROVE  /\ spoken' \in Nat /\ noise' \in Nat /\ progress' \in [Calls -> Int]
               /\ \A k \in Calls : progress'[k] \in -1..Len(reply[k])
    <3>1. progress' = [progress EXCEPT ![i] = upto] /\ UNCHANGED <<spoken, noise>>
      BY <2>2 DEF SendFragment
    <3> QED BY <3>1 DEF TypeInv
  <2> QED BY <2>1, <2>2 DEF Provider, SendText, SendNoise, SendFinish, SendDone, EndBody, Break
<1>5. TypeInv'
  BY <1>0, <1>1, <1>3, <1>4, <1>m DEF TypeInv
<1>6. StreamInv'
  BY <1>0, ProviderStreams DEF StreamInv
<1>7. WholeInv'
  BY <1>0, ProviderWhole DEF WholeInv
<1> QED BY <1>2, <1>5, <1>6, <1>7
-----------------------------------------------------------------------------
(* The client                                                              *)

\* What is collected at the end of the calls is in order, and complete but for
\* the calls that are mistaken.
LEMMA CollectDelivers ==
  ASSUME TypeInv, NEW r \in Points, AllAt(r), acc \in [Calls -> Accs],
         \A i \in Calls : i \in r.mute \/ Repeats(i) \/ acc[i] = Gathered(r.at, i)
  PROVE  Delivered(Collected(acc), r.mute)
<1>1. /\ Calls = 1..Len(reply) /\ Len(reply) \in Nat
      /\ \A i \in Calls : reply[i] \in Seq(Letters) /\ Len(reply[i]) \in Nat
  BY DEF TypeInv, Calls
<1>2. PICK n \in Nat : n = Len(reply)
  BY <1>1
<1>3. /\ Collected(acc) \in Seq(CallSet)
      /\ \A j, k \in DOMAIN Collected(acc) :
           j < k => Collected(acc)[j].index < Collected(acc)[k].index
      /\ \A i \in 1..n : acc[i].present =>
           [index |-> i, named |-> acc[i].named, args |-> acc[i].args] \in ToSet(Collected(acc))
  <2>1. acc \in [1..n -> Accs]
    BY <1>1, <1>2
  <2> QED BY <2>1, CollectSorts
<1>4. ASSUME NEW i \in Calls, i \notin r.mute, ~Repeats(i)
      PROVE  Meant(i) \in ToSet(Collected(acc))
  <2>1. r.at[i] = Len(reply[i]) /\ r.at[i] # -1
    BY <1>1 DEF AllAt
  <2>2. SubSeq(reply[i], 1, Len(reply[i])) = reply[i]
    BY <1>1, SubSeqFull
  <2>3. acc[i] = [present |-> TRUE, named |-> TRUE, args |-> reply[i]]
    BY <1>4, <2>1, <2>2 DEF Gathered
  <2>4. acc[i].present
    BY <2>3
  <2>5. acc[i].named = TRUE /\ acc[i].args = reply[i]
    BY <2>3
  <2>6. i \in 1..n
    BY <1>1, <1>2
  <2>7. [index |-> i, named |-> acc[i].named, args |-> acc[i].args] \in ToSet(Collected(acc))
    BY <1>3, <2>4, <2>6
  <2> QED BY <2>5, <2>7 DEF Meant
<1> QED BY <1>3, <1>4 DEF Delivered

\* The event of the end of calls carries the calls that are not over yet.
LEMMA FlushEnds ==
  ASSUME TypeInv, NEW r \in Points, Heard(r), AllAt(r), Flush(acc),
         NEW m \in SUBSET Nat, r.mute \ {0} \subseteq m,
         UNCHANGED <<reply, form, text>>
  PROVE  Heard(Point(r.at, r.said, TRUE, m))'
<1>1. /\ Calls' = Calls /\ \A i : Meant(i)' = Meant(i) /\ (Repeats(i)' <=> Repeats(i))
  BY ReplyKept
<1>2. DOMAIN acc = Calls /\ 0 \notin Calls
  BY DEF Heard, Calls, TypeInv
<1>3. acc' = [i \in Calls |-> NoCall] /\ pending' = pending \o Collected(acc)
  BY <1>2 DEF Flush
<1>4. Delivered(pending', r.mute)
  <2>1. CASE r.over
    <3>1. Delivered(pending, r.mute) /\ Collected(acc) = << >>
      BY <2>1, CollectNone DEF Heard, NoCall
    <3>2. pending' = pending
      BY <1>3, <3>1, ConcatEmptySeq DEF Delivered
    <3> QED BY <3>1, <3>2
  <2>2. CASE ~r.over
    <3>1. pending = << >> /\ Delivered(Collected(acc), r.mute)
      BY <2>2, CollectDelivers DEF Heard
    <3>2. pending' = Collected(acc)
      BY <1>3, <3>1, ConcatEmptySeq DEF Delivered
    <3> QED BY <3>1, <3>2
  <2> QED BY <2>1, <2>2
<1>5. Delivered(pending, m)'
  BY <1>1, <1>2, <1>4 DEF Delivered
<1>6. acc' \in [Calls -> Accs]
  <2>1. << >> \in Seq(Letters)
    OBVIOUS
  <2>2. NoCall \in Accs
    BY <2>1 DEF NoCall, Accs
  <2> QED BY <1>3, <2>2
<1>7. text' = [k \in 1..r.said |-> k] /\ \A i \in Calls : r.at[i] \in -1..Len(reply[i])
  BY DEF Heard
<1> DEFINE z == Point(r.at, r.said, TRUE, m)
<1>8. z.at = r.at /\ z.said = r.said /\ z.over = TRUE /\ z.mute = m
  BY DEF Point
<1> HIDE DEF z
<1>9. Heard(z)'
  BY <1>1, <1>3, <1>5, <1>6, <1>7, <1>8 DEF Heard
<1> QED BY <1>9 DEF z

LEMMA MergedType ==
  ASSUME NEW args \in Seq(Letters), NEW part \in Seq(Letters)
  PROVE  Merged(args, part) \in Seq(Letters)
<1>1. args \o part \in Seq(Letters)
  BY ConcatProperties
<1> QED BY <1>1 DEF Merged

\* A fragment makes of an accumulator what is gathered at the next point.
LEMMA FragmentMerges ==
  ASSUME TypeInv, NEW r \in Points, ~r.over, Heard(r), NEW i \in Calls,
         NEW upto \in 0..Len(reply[i]), NEW line, NEW q \in Points,
         NEW isNull \in BOOLEAN, ~isNull, Argues(r, line, q, i, upto, isNull)
  PROVE  /\ Merge(line.fragment) \in [Calls -> Accs]
         /\ \A j \in Calls : \/ j \in q.mute \/ Repeats(j)
                             \/ Merge(line.fragment)[j] = Gathered(q.at, j)
<1> DEFINE w    == reply[i]
           from == IF form = "snapshot" \/ r.at[i] = -1 THEN 1 ELSE r.at[i] + 1
           p    == IF r.at[i] = -1 THEN 0 ELSE r.at[i]
           part == SubSeq(w, from, upto)
           f    == Fragment(i, r.at[i] = -1, part)
           new  == [present |-> TRUE, named |-> acc[i].named \/ f.named,
                    args |-> Merged(acc[i].args, f.part)]
<1>1. /\ acc \in [Calls -> Accs] /\ r.at[i] \in -1..Len(w) /\ i \in Nat \ {0}
      /\ w \in Seq(Letters) /\ Len(w) \in Nat
      /\ form \in {"delta", "snapshot"}
      /\ \A j \in Calls : j \in r.mute \/ Repeats(j) \/ acc[j] = Gathered(r.at, j)
  BY DEF Heard, TypeInv, Calls
<1>2. /\ upto > r.at[i] /\ upto \in Nat /\ line.fragment = f
      /\ q.at = [r.at EXCEPT ![i] = upto] /\ r.at \in [Calls -> Int] /\ q.mute = r.mute
  BY DEF Argues, Line, Point, Points, Muting
<1>3. /\ p \in 0..Len(w) /\ from \in {1, p + 1} /\ p <= upto
      /\ from = p + 1 /\ p > 0 => p < upto /\ form = "delta"
  BY <1>1, <1>2
<1>4. part \in Seq(Letters)
  <2>1. from \in Nat \ {0}
    BY <1>1
  <2> HIDE DEF from
  <2>2. \A k \in from..upto : w[k] \in Letters
    BY <1>1, <2>1
  <2> QED BY <1>1, <2>1, <2>2, SubSeqProperties
<1>5. f.part = part /\ f.index = i /\ f.named = (r.at[i] = -1)
  BY DEF Fragment
<1>6. Merge(f) = [acc EXCEPT ![i] = new]
  <2>1. f.index # 0
    BY <1>1, <1>5
  <2> QED BY <1>5, <2>1 DEF Merge
<1>7. acc[i].named \in BOOLEAN /\ acc[i].args \in Seq(Letters)
  BY <1>1 DEF Accs
<1>8. new \in Accs
  <2>1. Merged(acc[i].args, f.part) \in Seq(Letters)
    BY <1>4, <1>5, <1>7, MergedType
  <2>2. (acc[i].named \/ f.named) \in BOOLEAN
    BY <1>5, <1>7
  <2> HIDE DEF f
  <2> QED BY <2>1, <2>2 DEF Accs
<1>9. Merge(f) \in [Calls -> Accs]
  <2> HIDE DEF new, f
  <2> QED BY <1>1, <1>6, <1>8
<1>10. ASSUME i \notin r.mute, ~Repeats(i) PROVE new = Gathered(q.at, i)
  <2>1. acc[i] = Gathered(r.at, i) /\ q.at[i] = upto /\ upto # -1
    BY <1>1, <1>2, <1>10
  <2>2. form = "delta" => \A k \in 2..Len(w) : w[k] # w[1]
    BY <1>10 DEF Repeats
  <2>3. Merged(SubSeq(w, 1, p), part) = SubSeq(w, 1, upto)
    <3> HIDE DEF p, from, w
    <3> QED BY <1>1, <1>3, <2>2, MergeGrows DEF w
  <2>4. acc[i].args = SubSeq(w, 1, p)
    <3>1. CASE r.at[i] = -1
      <4>1. acc[i].args = << >> /\ p = 0
        BY <2>1, <3>1 DEF Gathered, NoCall
      <4>2. SubSeq(w, 1, 0) = << >>
        <5>1. Len(SubSeq(w, 1, 0)) = 0 /\ SubSeq(w, 1, 0) \in Seq(Letters)
          BY <1>1
        <5> QED BY <5>1, EmptySeq
      <4> QED BY <4>1, <4>2
    <3>2. CASE r.at[i] # -1
      <4> DEFINE e == SubSeq(reply[i], 1, r.at[i])
      <4>1. acc[i] = [present |-> TRUE, named |-> TRUE, args |-> e]
        BY <2>1, <3>2 DEF Gathered
      <4> HIDE DEF e
      <4>2. acc[i].args = e
        BY <4>1
      <4> QED BY <3>2, <4>2 DEF e
    <3> QED BY <3>1, <3>2
  <2>5. r.at[i] # -1 => acc[i].named = TRUE
    <3>1. ASSUME r.at[i] # -1
          PROVE  acc[i] = [present |-> TRUE, named |-> TRUE, args |-> SubSeq(reply[i], 1, r.at[i])]
      BY <2>1, <3>1 DEF Gathered
    <3> QED BY <3>1
  <2>6. (acc[i].named \/ f.named) = TRUE
    BY <1>5, <2>5
  <2>7. Merged(acc[i].args, f.part) = SubSeq(w, 1, upto)
    BY <1>5, <2>3, <2>4
  <2> HIDE DEF f
  <2>8. new = [present |-> TRUE, named |-> TRUE, args |-> SubSeq(w, 1, upto)]
    BY <2>6, <2>7
  <2> QED BY <2>1, <2>8 DEF Gathered
<1> HIDE DEF f, new
<1>11. ASSUME NEW j \in Calls, j \notin q.mute, ~Repeats(j)
       PROVE  Merge(f)[j] = Gathered(q.at, j)
  <2>1. CASE j = i
    <3>1. Merge(f)[i] = new
      BY <1>1, <1>6
    <3> QED BY <1>2, <1>10, <1>11, <2>1, <3>1
  <2>2. CASE j # i
    <3>1. q.at[j] = r.at[j] /\ Merge(f)[j] = acc[j]
      BY <1>1, <1>2, <1>6, <2>2
    <3> QED BY <1>1, <1>2, <1>11, <3>1 DEF Gathered
  <2> QED BY <2>1, <2>2
<1> QED BY <1>2, <1>9, <1>11

\* A line handled takes the client to the next point.
LEMMA HearLine ==
  ASSUME TypeInv, NEW r \in Points, NEW q \in Points, Heard(r), Follows(r, Head(sse).line, q),
         Done \/ Skip \/ Chunk, UNCHANGED <<reply, form>>
  PROVE  Heard(q)'
<1> DEFINE line == Head(sse).line
<1>1. Calls' = Calls /\ \A i : Meant(i)' = Meant(i) /\ (Repeats(i)' <=> Repeats(i))
  BY ReplyKept
<1>2. ASSUME NEW z \in Points, Heard(z), UNCHANGED <<text, acc, pending>> PROVE Heard(z)'
  BY <1>1, <1>2 DEF Heard, Gathered, Delivered
<1>3. CASE Nothing(r, line, q)
  <2>1. line.kind = "noise" /\ q = r
    BY <1>3 DEF Nothing, Line
  <2>2. UNCHANGED <<text, acc, pending>>
    BY <2>1 DEF Done, Skip, Chunk
  <2> QED BY <1>2, <2>1, <2>2
<1>4. ASSUME line.kind = "chunk", ~line.null, ~line.finish
      PROVE  text' = TextOf(line) /\ acc' = Merge(line.fragment) /\ pending' = pending
  BY <1>4 DEF Done, Skip, Chunk
<1>5. ASSUME line.kind = "chunk", line.null
      PROVE  UNCHANGED <<text, acc, pending>>
  BY <1>5 DEF Done, Skip, Chunk
<1>6. CASE Speaks(r, line, q)
  <2>1. /\ line.kind = "chunk" /\ ~line.null /\ ~line.finish /\ line.delta = r.said + 1
        /\ line.fragment = NoFragment /\ ~r.over /\ q.at = r.at /\ q.said = r.said + 1 /\ ~q.over
        /\ q.mute = r.mute
    BY <1>6 DEF Speaks, Line, Point
  <2>2. r.said \in Nat /\ text = [k \in 1..r.said |-> k]
    BY DEF Points, Heard
  <2>3. text' = Append(text, r.said + 1)
    <3>1. text' = TextOf(line)
      BY <1>4, <2>1
    <3>2. line.delta # 0
      BY <2>1, <2>2
    <3> QED BY <2>1, <3>1, <3>2 DEF TextOf
  <2>4. text' = [k \in 1..(r.said + 1) |-> k]
    <3> DEFINE t == [k \in 1..(r.said + 1) |-> k]
    <3>1. text \in Seq(Nat) /\ Len(text) = r.said /\ t \in Seq(Nat) /\ Len(t) = r.said + 1
      BY <2>2
    <3>2. /\ text' \in Seq(Nat) /\ Len(text') = r.said + 1
          /\ \A k \in 1..r.said : text'[k] = text[k] /\ text'[r.said + 1] = r.said + 1
      BY <2>2, <2>3, <3>1, AppendProperties
    <3>3. \A k \in 1..(r.said + 1) : text'[k] = t[k]
      BY <2>2, <2>3, <3>1, <3>2
    <3> QED BY <3>1, <3>2, <3>3, SeqEqual
  <2>5. acc' = acc /\ pending' = pending
    BY <1>4, <2>1 DEF Merge, NoFragment, Fragment
  <2> QED BY <1>1, <2>1, <2>4, <2>5 DEF Heard, Gathered
<1>7. ASSUME NEW i \in Calls, NEW upto \in 0..Len(reply[i]), NEW isNull \in BOOLEAN,
             Argues(r, line, q, i, upto, isNull)
      PROVE  Heard(q)'
  <2>1. /\ line.kind = "chunk" /\ line.null = isNull /\ ~line.finish /\ line.delta = 0
        /\ ~r.over /\ q.at = [r.at EXCEPT ![i] = upto] /\ q.said = r.said /\ ~q.over
        /\ q.mute = Muting(r, isNull, i)
    BY <1>7 DEF Argues, Line, Point
  <2>2. /\ text' = text /\ pending' = pending /\ acc' \in [Calls -> Accs]
        /\ \A j \in Calls : j \in q.mute \/ Repeats(j) \/ acc'[j] = Gathered(q.at, j)
    <3>1. CASE isNull
      <4>1. UNCHANGED <<text, acc, pending>> /\ q.mute = r.mute \cup {i}
        BY <1>5, <2>1, <3>1 DEF Muting
      <4>2. acc \in [Calls -> Accs] /\ r.at \in [Calls -> Int]
            /\ \A j \in Calls : j \in r.mute \/ Repeats(j) \/ acc[j] = Gathered(r.at, j)
        BY <2>1 DEF Heard, Points
      <4>3. \A j \in Calls : j # i => Gathered(q.at, j) = Gathered(r.at, j)
        BY <2>1, <4>2 DEF Gathered
      <4> QED BY <4>1, <4>2, <4>3
    <3>2. CASE ~isNull
      <4>1. text' = text /\ pending' = pending /\ acc' = Merge(line.fragment)
        BY <1>4, <2>1, <3>2 DEF TextOf
      <4>3. /\ Merge(line.fragment) \in [Calls -> Accs]
            /\ \A j \in Calls : \/ j \in q.mute \/ Repeats(j)
                                \/ Merge(line.fragment)[j] = Gathered(q.at, j)
        <5> HIDE DEF line
        <5> QED BY <1>7, <2>1, <3>2, FragmentMerges
      <4> HIDE DEF line
      <4> QED BY <4>1, <4>3
    <3> QED BY <3>1, <3>2
  <2>3. \A j \in Calls : q.at[j] \in -1..Len(reply[j])
    <3>1. r.at \in [Calls -> Int] /\ \A j \in Calls : r.at[j] \in -1..Len(reply[j])
      BY DEF Points, Heard
    <3>2. upto \in -1..Len(reply[i])
      BY DEF TypeInv, Calls
    <3> QED BY <2>1, <3>1, <3>2
  <2>4. pending = << >> /\ text = [k \in 1..r.said |-> k]
    BY <2>1 DEF Heard
  <2> QED BY <1>1, <2>1, <2>2, <2>3, <2>4 DEF Heard, Gathered
<1>8. ASSUME NEW isNull \in BOOLEAN, Finishes(r, line, q, isNull)
      PROVE  Heard(q)'
  <2>1. /\ line.kind = "chunk" /\ line.null = isNull /\ line.finish /\ line.delta = 0
        /\ line.fragment = NoFragment /\ AllAt(r) /\ ~r.over
        /\ q = Point(r.at, r.said, ~isNull, Muting(r, isNull, 0))
    BY <1>8 DEF Finishes, Line
  <2>2. CASE isNull
    <3>1. UNCHANGED <<text, acc, pending>>
      BY <1>5, <2>1, <2>2
    <3>2. q.at = r.at /\ q.said = r.said /\ ~q.over /\ r.mute \subseteq q.mute
      BY <2>1, <2>2 DEF Point, Muting
    <3>3. Heard(q)
      BY <2>1, <3>2 DEF Heard
    <3> QED BY <1>2, <3>1, <3>3
  <2>3. CASE ~isNull
    <3>1. text' = text /\ Flush(Merge(NoFragment))
      BY <2>1, <2>3 DEF Done, Skip, Chunk, TextOf
    <3>2. Merge(NoFragment) = acc
      BY DEF Merge, NoFragment, Fragment
    <3>3. r.mute \in SUBSET Nat /\ q = Point(r.at, r.said, TRUE, r.mute)
      BY <2>1, <2>3 DEF Points, Muting
    <3>4. Heard(Point(r.at, r.said, TRUE, r.mute))'
      BY <2>1, <3>1, <3>2, <3>3, FlushEnds
    <3> QED BY <3>3, <3>4 DEF Heard
  <2> QED BY <2>2, <2>3
<1>9. CASE Closes(r, line, q)
  <2>1. /\ line.kind = "done" /\ ~line.null /\ AllAt(r)
        /\ q = Point(r.at, r.said, TRUE, r.mute \ {0})
    BY <1>9 DEF Closes, Line
  <2>2. text' = text /\ Flush(acc)
    BY <2>1 DEF Done, Skip, Chunk
  <2>3. r.mute \ {0} \in SUBSET Nat
    BY DEF Points
  <2>4. Heard(Point(r.at, r.said, TRUE, r.mute \ {0}))'
    BY <2>1, <2>2, <2>3, FlushEnds
  <2> QED BY <2>1, <2>4 DEF Heard
<1> QED BY <1>3, <1>6, <1>7, <1>8, <1>9 DEF Follows

\* Receiving moves halves of lines and changes none.
LEMMA ReceiveHalves ==
  ASSUME TypeInv, NEW n \in 1..Len(wire), Receive(n)
  PROVE  Halves' = Halves /\ sse' \in Seq(HalfLines) /\ wire' \in Seq(HalfLines)
<1> DEFINE a == SubSeq(wire, 1, n)
           b == SubSeq(wire, n + 1, Len(wire))
<1>1. sse \in Seq(HalfLines) /\ wire \in Seq(HalfLines) /\ Len(wire) \in Nat
  BY DEF TypeInv
<1>2. a \in Seq(HalfLines) /\ b \in Seq(HalfLines)
  <2>1. \A k \in 1..Len(wire) : wire[k] \in HalfLines
    BY <1>1
  <2>2. (\A k \in 1..n : wire[k] \in HalfLines)
        /\ (\A k \in (n + 1)..Len(wire) : wire[k] \in HalfLines)
    BY <1>1, <2>1
  <2>3. n + 1 \in Int /\ Len(wire) \in Int /\ n \in Int
    BY <1>1
  <2>4. a \in Seq(HalfLines)
    BY <2>2, <2>3, SubSeqProperties
  <2>5. b \in Seq(HalfLines)
    BY <2>2, <2>3, SubSeqProperties
  <2> QED BY <2>4, <2>5
<1>3. a \o b = wire
  <2>1. a \o b = SubSeq(wire, 1, Len(wire))
    BY <1>1, ConcatAdjacentSubSeq
  <2> QED BY <1>1, <2>1, SubSeqFull
<1>4. sse' = sse \o a /\ wire' = b
  BY DEF Receive
<1> HIDE DEF a, b
<1>5. (sse \o a) \o b = sse \o (a \o b)
  <2>1. \A s, t, u \in Seq(HalfLines) : (s \o t) \o u = s \o (t \o u)
    BY ConcatAssociative
  <2> QED BY <1>1, <1>2, <2>1
<1>6. sse \o a \in Seq(HalfLines)
  BY <1>1, <1>2, ConcatProperties
<1> QED BY <1>2, <1>3, <1>4, <1>5, <1>6 DEF Halves

\* A line handled leaves the buffer with both its halves.
LEMMA EmitHalves ==
  ASSUME TypeInv, Len(sse) >= 2, EmitLine
  PROVE  /\ sse' \in Seq(HalfLines) /\ Head(sse) = Halves[1]
         /\ Len(Halves) \in Nat /\ Len(Halves) >= 2 /\ Len(Halves') = Len(Halves) - 2
         /\ \A k \in 1..(Len(Halves) - 2) : Halves'[k] = Halves[k + 2]
<1> DEFINE rest == SubSeq(sse, 3, Len(sse))
           m == Len(sse)
<1>1. sse \in Seq(HalfLines) /\ wire \in Seq(HalfLines) /\ m \in Nat /\ m >= 2 /\ Len(wire) \in Nat
  BY DEF TypeInv
<1>2. sse' = rest /\ wire' = wire
  BY DEF EmitLine
<1>3. /\ rest \in Seq(HalfLines) /\ Len(rest) = m - 2
      /\ \A k \in 1..(m - 2) : rest[k] = sse[k + 2]
  <2>1. \A k \in 3..m : sse[k] \in HalfLines
    BY <1>1
  <2>2. m \in Int /\ 3 \in Int
    BY <1>1
  <2>3. /\ SubSeq(sse, 3, m) \in Seq(HalfLines)
        /\ Len(SubSeq(sse, 3, m)) = (IF 3 <= m THEN m - 3 + 1 ELSE 0)
        /\ \A k \in 1..(m - 3 + 1) : SubSeq(sse, 3, m)[k] = sse[3 + k - 1]
    BY <2>1, <2>2, SubSeqProperties
  <2>4. rest = SubSeq(sse, 3, m)
    OBVIOUS
  <2> HIDE DEF rest, m
  <2>5. Len(rest) = m - 2
    BY <1>1, <2>3, <2>4
  <2>6. ASSUME NEW k \in 1..(m - 2) PROVE rest[k] = sse[k + 2]
    <3>1. k \in 1..(m - 3 + 1) /\ 3 + k - 1 = k + 2
      BY <1>1
    <3> QED BY <2>3, <2>4, <3>1
  <2> QED BY <2>3, <2>4, <2>5, <2>6
<1>4. /\ Len(sse \o wire) = m + Len(wire)
      /\ \A k \in 1..(m + Len(wire)) : (sse \o wire)[k] = IF k <= m THEN sse[k] ELSE wire[k - m]
  BY <1>1, ConcatProperties
<1>5. /\ Len(rest \o wire) = Len(rest) + Len(wire)
      /\ \A k \in 1..(Len(rest) + Len(wire)) :
           (rest \o wire)[k] = IF k <= Len(rest) THEN rest[k] ELSE wire[k - Len(rest)]
  <2> HIDE DEF rest
  <2> QED BY <1>1, <1>3, ConcatProperties
<1>6. Halves = sse \o wire /\ Halves' = rest \o wire
  BY <1>2 DEF Halves
<1>7. Head(sse) = sse[1]
  OBVIOUS
<1> HIDE DEF rest, m
<1>8. Head(sse) = Halves[1] /\ Len(Halves) = m + Len(wire)
  BY <1>1, <1>4, <1>6, <1>7
<1>9. Len(Halves') = Len(Halves) - 2
  BY <1>1, <1>3, <1>5, <1>6, <1>8
<1>10. ASSUME NEW k \in 1..(Len(Halves) - 2) PROVE Halves'[k] = Halves[k + 2]
  <2>1. k \in 1..(Len(rest) + Len(wire)) /\ k + 2 \in 1..(m + Len(wire))
    BY <1>1, <1>3, <1>8
  <2>2. CASE k <= m - 2
    <3>1. Halves'[k] = rest[k] /\ rest[k] = sse[k + 2]
      BY <1>1, <1>3, <1>5, <1>6, <2>1, <2>2
    <3>2. Halves[k + 2] = sse[k + 2]
      BY <1>1, <1>4, <1>6, <2>1, <2>2
    <3> QED BY <3>1, <3>2
  <2>3. CASE k > m - 2
    <3>1. Halves'[k] = wire[k - Len(rest)]
      BY <1>1, <1>3, <1>5, <1>6, <2>1, <2>3
    <3>2. Halves[k + 2] = wire[k + 2 - m]
      BY <1>1, <1>4, <1>6, <2>1, <2>3
    <3>3. k - Len(rest) = k + 2 - m
      BY <1>1, <1>3
    <3> QED BY <3>1, <3>2, <3>3
  <2> QED BY <1>1, <2>2, <2>3
<1> QED BY <1>1, <1>2, <1>3, <1>8, <1>9, <1>10

\* A line handled takes a point from the head of the points.
LEMMA EmitTracks ==
  ASSUME TypeInv, ~whole, NEW tr \in Seq(Points), Tracks(tr), EmitLine,
         UNCHANGED <<providerVars, exchangeVars>>
  PROVE  \E t \in Seq(Points) : Tracks(t)'
<1> DEFINE t == Tail(tr)
           n == Len(tr)
           H == Halves
           G == Halves'
<1>1. Len(sse) >= 2 /\ (Done \/ Skip \/ Chunk)
  BY DEF EmitLine, Complete
<1>2. /\ Head(sse) = H[1] /\ Len(H) \in Nat /\ Len(H) >= 2 /\ Len(G) = Len(H) - 2
      /\ \A k \in 1..(Len(H) - 2) : G[k] = H[k + 2]
  BY <1>1, EmitHalves
<1> HIDE DEF H, G
<1>3. n \in Nat /\ n >= 2 /\ Len(H) = 2 * (n - 1)
  <2>1. n \in Nat /\ n # 0 /\ Len(H) = 2 * (n - 1)
    BY DEF Tracks, H
  <2> QED BY <1>2, <2>1
<1>4. t \in Seq(Points) /\ Len(t) = n - 1 /\ \A j \in 1..(n - 1) : t[j] = tr[j + 1]
  <2>1. tr # << >>
    BY <1>3
  <2> QED BY <1>3, <2>1, HeadTailProperties
<1>5. \A j \in 1..(n - 1) : Follows(tr[j], H[2 * j - 1].line, tr[j + 1])
  BY DEF Tracks, H
<1>6. Heard(tr[1]) /\ Told(tr[n])
  BY DEF Tracks
<1>7. \A j \in 1..n : Behind(tr[j])
  BY DEF Tracks
<1>8. \A j \in 1..n : tr[j] \in Points
  OBVIOUS
<1> HIDE DEF n, t
<1>9. PICK q \in Points : q = tr[2]
  BY <1>3, <1>8
<1>10. PICK r \in Points : r = tr[1]
  BY <1>3, <1>8
<1>11. Heard(q)'
  <2>1. Follows(r, Head(sse).line, q)
    <3>1. 1 \in 1..(n - 1) /\ 2 * 1 - 1 = 1 /\ 1 + 1 = 2
      BY <1>3
    <3> QED BY <1>2, <1>5, <1>9, <1>10, <3>1
  <2>2. reply' = reply /\ form' = form
    BY DEF providerVars
  <2> QED BY <1>1, <1>6, <1>10, <2>1, <2>2, HearLine
<1>12. t[1] = q /\ t[n - 1] = tr[n]
  BY <1>3, <1>4, <1>9
<1>13. PICK z \in Points : z = tr[n]
  BY <1>3, <1>8
<1>14. Calls' = Calls /\ status' = status
  BY DEF Calls, providerVars, exchangeVars
<1>15. Told(z)'
  BY <1>6, <1>13, <1>14 DEF Told, AllAt, providerVars
<1>16. \A a, l, b : Follows(a, l, b)' <=> Follows(a, l, b)
  BY <1>14 DEF Follows, Nothing, Speaks, Argues, Finishes, Closes, AllAt, providerVars
<1>17. ASSUME NEW j \in 1..(n - 2) PROVE Follows(t[j], G[2 * j - 1].line, t[j + 1])
  <2>1. /\ j + 1 \in 1..(n - 1) /\ j \in 1..(n - 1) /\ 2 * j - 1 \in 1..(Len(H) - 2)
        /\ (2 * j - 1) + 2 = 2 * (j + 1) - 1
    BY <1>3
  <2>2. G[2 * j - 1] = H[2 * (j + 1) - 1]
    BY <1>2, <2>1
  <2>3. t[j] = tr[j + 1] /\ t[j + 1] = tr[j + 1 + 1]
    BY <1>4, <2>1
  <2>4. Follows(tr[j + 1], H[2 * (j + 1) - 1].line, tr[j + 1 + 1])
    BY <1>5, <2>1
  <2> QED BY <2>2, <2>3, <2>4
<1>18. \A j \in 1..(Len(t) - 1) : Follows(t[j], Halves[2 * j - 1].line, t[j + 1])'
  <2>1. Len(t) - 1 = n - 2
    BY <1>3, <1>4
  <2> QED BY <1>16, <1>17, <2>1 DEF G
<1>19. Len(t) # 0 /\ Len(Halves') = 2 * (Len(t) - 1)
  BY <1>2, <1>3, <1>4 DEF G
<1>20. \A j \in 1..Len(t) : Behind(t[j])'
  <2>1. \A j \in 1..Len(t) : j + 1 \in 1..n /\ t[j] = tr[j + 1]
    BY <1>3, <1>4
  <2>2. \A j \in 1..Len(t) : Behind(t[j])
    BY <1>7, <2>1
  <2> QED BY <1>14, <2>2 DEF Behind, AllSent, providerVars
<1>21. PICK u \in Seq(Points) : u = t
  BY <1>4
<1>22. u[1] = q /\ u[Len(u)] = z
  BY <1>4, <1>12, <1>13, <1>21
<1>23. Tracks(u)'
  BY <1>11, <1>14, <1>15, <1>18, <1>19, <1>20, <1>21, <1>22 DEF Tracks
<1> QED BY <1>23

LEMMA ClientParser == ASSUME ParserInv, Client PROVE ParserInv'
<1> USE DEF ParserInv
<1>0. /\ UNCHANGED <<whole, phase, untried, status, reply, form, progress, spoken, noise, stage, muted>>
      /\ Calls' = Calls /\ Points' = Points /\ outcome = "receiving"
  BY ReplyKept DEF Client, providerVars, exchangeVars, EmitLine, BodyEnds, Receive
<1>1. ASSUME ~whole, Halves' = Halves, UNCHANGED <<text, pending, acc>>
      PROVE  StreamInv'
  <2>1. PICK tr \in Seq(Points) : Tracks(tr)
    BY <1>1 DEF StreamInv
  <2>2. Told(tr[Len(tr)])'
    BY <1>0, <2>1 DEF Tracks, Told, AllAt
  <2>3. Tracks(tr)'
    BY <1>0, <1>1, <2>1, <2>2, TracksStay
  <2> QED BY <1>0, <2>3 DEF StreamInv
<1>2. ASSUME NEW n \in 1..Len(wire), Receive(n) PROVE ParserInv'
  <2>1. /\ Halves' = Halves /\ sse' \in Seq(HalfLines) /\ wire' \in Seq(HalfLines)
    BY <1>2, ReceiveHalves
  <2>2. UNCHANGED <<acc, outcome, text, pending>>
    BY <1>2 DEF Receive
  <2>3. TypeInv'
    BY <1>0, <2>1, <2>2 DEF TypeInv
  <2>4. PhaseInv'
    BY <1>0, <2>2 DEF PhaseInv
  <2>5. StreamInv'
    BY <1>0, <1>1, <2>1, <2>2 DEF StreamInv
  <2>6. WholeInv'
    BY <1>0, <2>1, <2>2 DEF WholeInv
  <2> QED BY <2>3, <2>4, <2>5, <2>6
<1>3. CASE EmitLine
  <2>1. ~whole /\ Len(sse) >= 2 /\ UNCHANGED <<wire, outcome>>
    BY <1>3 DEF EmitLine, Complete
  <2>2. sse' \in Seq(HalfLines)
    BY <1>3, <2>1, EmitHalves
  <2>3. TypeInv'
    BY <1>0, <2>1, <2>2 DEF TypeInv
  <2>4. PhaseInv'
    BY <1>0, <2>1 DEF PhaseInv
  <2>5. PICK tr \in Seq(Points) : Tracks(tr)
    BY <2>1 DEF StreamInv
  <2>6. UNCHANGED <<providerVars, exchangeVars>>
    BY DEF Client
  <2>7. \E t \in Seq(Points) : Tracks(t)'
    BY <1>3, <2>1, <2>5, <2>6, EmitTracks
  <2>8. StreamInv' /\ WholeInv'
    BY <1>0, <2>1, <2>7 DEF StreamInv, WholeInv
  <2> QED BY <2>3, <2>4, <2>8
<1>4. CASE BodyEnds
  <2>1. wire = << >> /\ UNCHANGED <<wire, sse, acc, pending>> /\ Halves' = Halves
    BY <1>4 DEF BodyEnds, Halves
  <2>2. CASE Return
    <3>1. ~whole /\ ~(Len(sse) >= 2) /\ text' = text
      BY <2>2 DEF Return, Complete
    <3>2. /\ outcome' = "thrown" \/ (outcome' = "returned" /\ status = 200)
          /\ stage \in {"closed", "broken"}
      BY <1>4, <2>2 DEF Return, BodyEnds
    <3>3. TypeInv'
      BY <1>0, <2>1, <3>2 DEF TypeInv
    <3>4. PhaseInv'
      <4>1. Len(sse) \in Nat
        BY DEF TypeInv
      <4> QED BY <1>0, <2>1, <3>1, <3>2, <4>1 DEF PhaseInv
    <3>5. StreamInv' /\ WholeInv'
      BY <1>0, <1>1, <2>1, <3>1 DEF WholeInv
    <3> QED BY <3>3, <3>4, <3>5
  <2>3. CASE ReturnWhole
    <3>1. whole
      BY <2>3 DEF ReturnWhole
    <3>2. outcome' = "thrown" \/ (outcome' = "returned" /\ stage = "closed" /\ status = 200)
      BY <2>3 DEF ReturnWhole
    <3>3. TypeInv'
      BY <1>0, <2>1, <3>2 DEF TypeInv
    <3>4. PhaseInv'
      BY <1>0, <2>1, <3>1, <3>2 DEF PhaseInv
    <3>5. CASE outcome' = "thrown"
      <4>1. text' = text
        BY <2>3, <3>5 DEF ReturnWhole
      <4> QED BY <1>0, <2>1, <3>1, <3>3, <3>4, <3>5, <4>1 DEF WholeInv, StreamInv
    <3>6. CASE outcome' = "returned"
      <4> DEFINE lines == [k \in 1..(Len(sse) \div 2) |-> sse[2 * k].line]
      <4>1. /\ \A k \in DOMAIN lines : lines[k].kind = "chunk"
            /\ text' = [k \in DOMAIN lines |-> lines[k].delta]
        BY <2>3, <3>6 DEF ReturnWhole
      <4>2. Halves = sse
        <5>1. sse \in Seq(HalfLines)
          BY DEF TypeInv
        <5> QED BY <2>1, <5>1, ConcatEmptySeq DEF Halves
      <4>3. /\ Len(sse) = 2 * (spoken + noise) /\ spoken \in Nat /\ noise \in Nat
            /\ noise > 0 => \E j \in 1..(spoken + noise) : sse[2 * j].line.kind = "noise"
            /\ noise = 0 => \A j \in 1..spoken : sse[2 * j].line.delta = j
        BY <3>1, <4>2 DEF WholeInv, TypeInv
      <4>4. Len(sse) \div 2 = spoken + noise
        <5>1. \A n \in Nat : (2 * n) \div 2 = n
          OBVIOUS
        <5>2. spoken + noise \in Nat /\ Len(sse) = 2 * (spoken + noise)
          BY <4>3
        <5> HIDE DEF lines
        <5> QED BY <5>1, <5>2
      <4>5. /\ DOMAIN lines = 1..(spoken + noise)
            /\ \A k \in 1..(spoken + noise) : lines[k] = sse[2 * k].line
        BY <4>4
      <4> HIDE DEF lines
      <4>6. noise = 0
        <5>1. \A k \in 1..(spoken + noise) : sse[2 * k].line.kind = "chunk"
          BY <4>1, <4>5
        <5> QED BY <4>3, <5>1
      <4>7. text' = [k \in 1..spoken |-> k]
        <5>1. DOMAIN lines = 1..spoken /\ \A k \in 1..spoken : lines[k].delta = k
          BY <4>3, <4>5, <4>6
        <5> QED BY <4>1, <5>1
      <4> QED BY <1>0, <2>1, <3>1, <3>3, <3>4, <3>6, <4>7 DEF WholeInv, StreamInv
    <3> QED BY <3>2, <3>5, <3>6
  <2> QED BY <1>4, <2>2, <2>3 DEF BodyEnds
<1> QED BY <1>2, <1>3, <1>4 DEF Client
-----------------------------------------------------------------------------
(* The theorems                                                            *)

THEOREM ParserInvariant == Spec => []ParserInv
<1>1. Init => ParserInv
  BY InitParser
<1>2. ParserInv /\ [Next]_vars => ParserInv'
  <2> SUFFICES ASSUME ParserInv, [Next]_vars PROVE ParserInv'
    OBVIOUS
  <2>1. CASE Exchange
    BY <2>1, ExchangeParser
  <2>2. CASE Provider
    BY <2>2, ProviderParser
  <2>3. CASE Client
    BY <2>3, ClientParser
  <2>4. CASE UNCHANGED vars
    <3>1. /\ UNCHANGED <<whole, phase, untried, status, reply, form, progress, spoken, noise,
                         stage, muted, wire, sse, acc, outcome, text, pending>>
          /\ Halves' = Halves /\ Calls' = Calls /\ Points' = Points
      BY <2>4 DEF vars, providerVars, clientVars, exchangeVars, Halves, Calls, Points
    <3>2. TypeInv' /\ PhaseInv' /\ WholeInv'
      BY <3>1 DEF ParserInv, TypeInv, PhaseInv, WholeInv
    <3>3. ASSUME ~whole PROVE StreamInv'
      <4>1. PICK tr \in Seq(Points) : Tracks(tr)
        BY <3>3 DEF StreamInv, ParserInv
      <4>2. Told(tr[Len(tr)])'
        BY <3>1, <4>1 DEF Tracks, Told, AllAt
      <4>3. Tracks(tr)'
        BY <3>1, <4>1, <4>2, TracksStay
      <4> QED BY <3>1, <4>3 DEF StreamInv
    <3>4. StreamInv'
      BY <3>1, <3>3 DEF StreamInv
    <3> QED BY <3>2, <3>4 DEF ParserInv
  <2> QED BY <2>1, <2>2, <2>3, <2>4 DEF Next, Rest
<1> QED BY <1>1, <1>2, PTL DEF Spec

\* Calls reach the engine when all are sent, each once and in the order of
\* their indices, however many there are and wherever the lines are cut; and a
\* call arrives with its name and its whole arguments, unless one of its chunks
\* said null content or its deltas repeat their opening
\* (llm_client.cpp:373-374, 399, 422-440, 452-463).
THEOREM ParserCallsWhole == Spec => []CallsWhole
<1>1. ParserInv => CallsWhole
  <2> SUFFICES ASSUME ParserInv, pending # << >>
               PROVE  /\ AllSent
                      /\ \A j, k \in DOMAIN pending :
                           j < k => pending[j].index < pending[k].index
                      /\ \A i \in Calls : Mistaken(i) \/ Meant(i) \in ToSet(pending)
    BY DEF CallsWhole
  <2>1. ~whole
    BY DEF ParserInv, WholeInv
  <2>2. PICK tr \in Seq(Points) : Tracks(tr)
    BY <2>1 DEF ParserInv, StreamInv
  <2>3. Heard(tr[1]) /\ Behind(tr[1])
    BY <2>2 DEF Tracks
  <2>4. tr[1].over /\ Delivered(pending, tr[1].mute)
    BY <2>3 DEF Heard
  <2>5. AllSent /\ tr[1].mute \ {0} \subseteq muted
    BY <2>3, <2>4 DEF Behind
  <2>6. 0 \notin Calls
    BY DEF ParserInv, TypeInv, Calls
  <2> QED BY <2>4, <2>5, <2>6 DEF Delivered, Mistaken
<1> QED BY <1>1, ParserInvariant, PTL

\* Text arrives in order and without a gap; a reply that returns from a body
\* that was closed was delivered to its end, all its text and every call that
\* is not mistaken; an answer that is an error delivers nothing
\* (llm_client.cpp:345-350, 385-393, 434-464, 471-479).
THEOREM ParserNothingMissing == Spec => []NothingMissing
<1>1. ParserInv => NothingMissing
  <2> SUFFICES ASSUME ParserInv PROVE NothingMissing
    OBVIOUS
  <2>0. spoken \in Nat
    BY DEF ParserInv, TypeInv
  <2>1. CASE whole
    <3>1. /\ reply = << >> /\ pending = << >> /\ (status # 200 => spoken = 0)
          /\ IF outcome = "returned" THEN text = [k \in 1..spoken |-> k] ELSE text = << >>
          /\ outcome = "returned" => status = 200
      BY <2>1 DEF ParserInv, WholeInv, PhaseInv
    <3>2. Calls = {}
      BY <3>1 DEF Calls
    <3>3. text = [k \in 1..Len(text) |-> k] /\ Len(text) <= spoken
          /\ (outcome = "returned" => Len(text) = spoken)
          /\ (status # 200 => text = << >>)
      <4>1. CASE outcome = "returned"
        BY <2>0, <3>1, <4>1
      <4>2. CASE outcome # "returned"
        BY <2>0, <3>1, <4>2
      <4> QED BY <4>1, <4>2
    <3> QED BY <3>1, <3>2, <3>3 DEF NothingMissing
  <2>2. CASE ~whole
    <3>1. PICK tr \in Seq(Points) : Tracks(tr)
      BY <2>2 DEF ParserInv, StreamInv
    <3>2. Heard(tr[1]) /\ Told(tr[Len(tr)]) /\ Behind(tr[1]) /\ Len(tr) \in Nat \ {0}
          /\ Len(Halves) = 2 * (Len(tr) - 1)
      BY <3>1 DEF Tracks
    <3>3. tr[1].said \in Nat /\ tr[1].said <= spoken /\ text = [k \in 1..tr[1].said |-> k]
      <4>1. tr[1] \in Points
        BY <3>2
      <4> QED BY <3>2, <4>1 DEF Points, Heard, Behind
    <3>4. Len(text) = tr[1].said /\ text = [k \in 1..Len(text) |-> k] /\ Len(text) <= spoken
      BY <3>3
    <3>5. ASSUME outcome = "returned", stage = "closed"
          PROVE  /\ Len(text) = spoken
                 /\ 0 \in muted \/ \A i \in Calls : Mistaken(i) \/ Meant(i) \in ToSet(pending)
      <4>1. status = 200 /\ wire = << >> /\ Len(sse) < 2
        BY <2>2, <3>5 DEF ParserInv, PhaseInv
      <4>2. Halves = sse /\ Len(sse) \in Nat
        <5>1. sse \in Seq(HalfLines)
          BY DEF ParserInv, TypeInv
        <5> QED BY <4>1, <5>1, ConcatEmptySeq DEF Halves
      <4>3. Len(tr) = 1
        <5>1. PICK n \in Nat \ {0} : n = Len(tr)
          BY <3>2
        <5>2. Len(sse) = 2 * (n - 1)
          BY <3>2, <4>2, <5>1
        <5>3. n = 1
          BY <4>1, <4>2, <5>2
        <5> QED BY <5>1, <5>3
      <4>4. (tr[1].over \/ 0 \in muted) /\ tr[1].said = spoken /\ tr[1].mute = muted
        BY <3>2, <3>5, <4>1, <4>3 DEF Told
      <4>5. ASSUME 0 \notin muted PROVE Delivered(pending, muted)
        BY <3>2, <4>4, <4>5 DEF Heard
      <4> QED BY <3>4, <4>4, <4>5 DEF Delivered, Mistaken
    <3>6. outcome = "returned" => status # 500
      BY DEF ParserInv, PhaseInv
    <3>7. ASSUME status = 500 PROVE pending = << >> /\ text = << >>
      <4>1. tr[1].said = 0 /\ ~tr[1].over
        BY <3>2, <3>7 DEF Behind
      <4> QED BY <3>2, <4>1 DEF Heard
    <3> QED BY <3>4, <3>5, <3>6, <3>7 DEF NothingMissing
  <2> QED BY <2>1, <2>2
<1> QED BY <1>1, ParserInvariant, PTL
=============================================================================
