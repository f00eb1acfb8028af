------------------------------- MODULE Queues -------------------------------
(* How often an element stands in a queue, and what appending to the queue *)
(* and taking its head make of that: for the proofs that count what is on  *)
(* its way.                                                                *)
EXTENDS Integers, Sequences, FiniteSets, SequenceTheorems, FiniteSetTheorems, TLAPS

Places(q, x) == {n \in 1 .. Len(q) : q[n] = x}
Number(q, x) == Cardinality(Places(q, x))

LEMMA EmptyQueue == \A x : Number(<<>>, x) = 0
  BY FS_EmptySet DEF Number, Places

LEMMA NumberType ==
    ASSUME NEW S, NEW q \in Seq(S), NEW x
    PROVE  IsFiniteSet(Places(q, x)) /\ Number(q, x) \in Nat
  <1>1. IsFiniteSet(1 .. Len(q))  BY FS_Interval
  <1>2. Places(q, x) \in SUBSET (1 .. Len(q))  BY DEF Places
  <1> QED  BY <1>1, <1>2, FS_Subset, FS_CardinalityType DEF Number

LEMMA NumberAppended ==
    ASSUME NEW S, NEW q \in Seq(S), NEW e \in S, NEW x
    PROVE  Number(Append(q, e), x) = Number(q, x) + (IF e = x THEN 1 ELSE 0)
  <1>1. /\ Len(q) \in Nat /\ Len(Append(q, e)) = Len(q) + 1
        /\ \A n \in 1 .. Len(q) : Append(q, e)[n] = q[n]
        /\ Append(q, e)[Len(q) + 1] = e
    BY AppendProperties
  <1>2. CASE e = x
    <2>1. Places(Append(q, e), x) = Places(q, x) \cup {Len(q) + 1}  BY <1>1, <1>2 DEF Places
    <2>2. Len(q) + 1 \notin Places(q, x)  BY <1>1 DEF Places
    <2> QED  BY <1>2, <2>1, <2>2, NumberType, FS_AddElement DEF Number
  <1>3. CASE e # x
    <2>1. Places(Append(q, e), x) = Places(q, x)  BY <1>1, <1>3 DEF Places
    <2> QED  BY <1>3, <2>1, NumberType DEF Number
  <1> QED  BY <1>2, <1>3

LEMMA NumberTaken ==
    ASSUME NEW S, NEW q \in Seq(S), q # <<>>, NEW x
    PROVE  Number(q, x) = Number(Tail(q), x) + (IF Head(q) = x THEN 1 ELSE 0)
  <1>1. /\ Tail(q) \in Seq(S) /\ Len(q) \in Nat /\ Len(q) >= 1 /\ Len(Tail(q)) = Len(q) - 1
        /\ \A n \in 1 .. Len(Tail(q)) : Tail(q)[n] = q[n + 1]
        /\ Head(q) = q[1]
    BY HeadTailProperties
  <1> DEFINE A == Places(Tail(q), x)
             B == Places(q, x) \ {1}
             f == [n \in A |-> n + 1]
  <1>2. f \in Bijection(A, B)
    <2>1. \A n \in A : f[n] \in B  BY <1>1 DEF Places
    <2>2. \A m, n \in A : f[m] = f[n] => m = n  BY <1>1 DEF Places
    <2>3. ASSUME NEW m \in B PROVE \E n \in A : f[n] = m
      <3>1. m \in 2 .. Len(q) /\ q[m] = x  BY <1>1, <2>3 DEF Places
      <3>2. m - 1 \in 1 .. Len(Tail(q)) /\ Tail(q)[m - 1] = q[(m - 1) + 1]  BY <1>1, <3>1
      <3>3. m - 1 \in A /\ f[m - 1] = m  BY <3>1, <3>2 DEF Places
      <3> QED  BY <3>3
    <2>4. f \in [A -> B]  BY <2>1
    <2> HIDE DEF f, A, B
    <2>5. f \in Injection(A, B)  BY <2>2, <2>4 DEF Injection, IsInjective
    <2>6. f \in Surjection(A, B)  BY <2>3, <2>4 DEF Surjection
    <2> QED  BY <2>5, <2>6 DEF Bijection
  <1>3. ExistsBijection(A, B)  BY <1>2 DEF ExistsBijection
  <1>4. IsFiniteSet(A) /\ Cardinality(A) \in Nat  BY <1>1, NumberType DEF Number
  <1>5. Cardinality(B) = Cardinality(A)  BY <1>3, <1>4, FS_Bijection
  <1>6. IsFiniteSet(Places(q, x)) /\ Number(q, x) \in Nat  BY NumberType
  <1>7. Cardinality(B) = IF 1 \in Places(q, x) THEN Number(q, x) - 1 ELSE Number(q, x)
    BY <1>6, FS_RemoveElement DEF Number
  <1>8. 1 \in Places(q, x) <=> Head(q) = x  BY <1>1 DEF Places
  <1> QED  BY <1>4, <1>5, <1>6, <1>7, <1>8 DEF Number
=============================================================================
