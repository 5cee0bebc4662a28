------------------------- MODULE DataPipelineProofs -------------------------
(***************************************************************************)
(* Proofs about DataPipeline, for every clock, window and number of        *)
(* faults.                                                                 *)
(***************************************************************************)
EXTENDS DataPipeline, FiniteSetTheorems, SequenceTheorems, NaturalsInduction, WellFoundedInduction, TLAPS

-----------------------------------------------------------------------------
(* Sequences. *)

LEMMA Induction ==
  ASSUME NEW T, 0 \in T, \A k \in Nat : k \in T => k + 1 \in T
  PROVE  Nat \subseteq T
<1> DEFINE Counter == Nat \ T
           Below == {pair \in Nat \X Nat : pair[1] < pair[2]}
<1>1. SUFFICES ASSUME Counter # {} PROVE FALSE
  OBVIOUS
<1>2. PICK m \in Counter : \A k \in Counter : ~ (k < m)
  <2>1. Below = OpToRel(<, Nat)
    BY Zenon DEF OpToRel
  <2>2. IsWellFoundedOn(Below, Nat)
    BY <2>1, NatLessThanWellFounded, Zenon
  <2>3. \E x \in Counter : \A y \in Counter : <<y, x>> \notin Below
    BY <1>1, <2>2, WFMin, Zenon
  <2>4. QED
    BY <2>3
<1>3. m # 0 /\ m - 1 \in Nat /\ m - 1 \notin Counter
  BY <1>2
<1>4. QED
  BY <1>2, <1>3

(* The recursion of FlattenSeq is well defined. *)
IsFlat(f, seqs, n) == f = [i \in 1 .. n |-> IF i = 1 THEN seqs[i] ELSE f[i-1] \o seqs[i]]

LEMMA FlatExists ==
  ASSUME NEW seqs
  PROVE  \A n \in Nat : \E f : IsFlat(f, seqs, n)
<1> DEFINE T == {n \in Nat : \E f : IsFlat(f, seqs, n)}
<1>1. 0 \in T
  <2>1. IsFlat(<<>>, seqs, 0)
    BY DEF IsFlat
  <2>2. QED
    BY <2>1
<1>2. ASSUME NEW n \in Nat, n \in T PROVE n + 1 \in T
  <2>1. PICK f : IsFlat(f, seqs, n)
    BY <1>2
  <2> DEFINE g == [i \in 1 .. n + 1 |-> IF i <= n THEN f[i]
                                        ELSE IF i = 1 THEN seqs[i] ELSE f[i-1] \o seqs[i]]
  <2>2. ASSUME NEW i \in 1 .. n + 1
        PROVE  g[i] = IF i = 1 THEN seqs[i] ELSE g[i-1] \o seqs[i]
    <3>1. CASE i <= n
      <4>1. f[i] = IF i = 1 THEN seqs[i] ELSE f[i-1] \o seqs[i]
        <5>1. i \in 1 .. n
          BY <3>1
        <5>2. f = [j \in 1 .. n |-> IF j = 1 THEN seqs[j] ELSE f[j-1] \o seqs[j]]
          BY <2>1 DEF IsFlat
        <5>3. QED
          BY <5>1, <5>2
      <4>2. g[i] = f[i] /\ (i # 1 => g[i-1] = f[i-1])
        BY <3>1
      <4>3. QED
        BY <4>1, <4>2
    <3>2. CASE i = n + 1
      BY <3>2
    <3>3. QED
      BY <3>1, <3>2
  <2>3. IsFlat(g, seqs, n + 1)
    BY <2>2 DEF IsFlat
  <2>4. QED
    BY <2>3
<1>3. Nat \subseteq T
  BY <1>1, <1>2, Induction
<1>4. QED
  BY <1>3

LEMMA FlatDef ==
  ASSUME NEW seqs, Len(seqs) \in Nat \ {0}
  PROVE  \E f : /\ \A i \in 1 .. Len(seqs) : f[i] = IF i = 1 THEN seqs[i] ELSE f[i-1] \o seqs[i]
                /\ FlattenSeq(seqs) = f[Len(seqs)]
<1> DEFINE f == CHOOSE g : IsFlat(g, seqs, Len(seqs))
<1>1. IsFlat(f, seqs, Len(seqs))
  BY FlatExists
<1>2. f = CHOOSE g : g = [i \in 1 .. Len(seqs) |-> IF i = 1 THEN seqs[i] ELSE g[i-1] \o seqs[i]]
  BY DEF IsFlat
<1>3. FlattenSeq(seqs) = f[Len(seqs)]
  BY <1>2 DEF FlattenSeq
<1>4. ASSUME NEW i \in 1 .. Len(seqs)
      PROVE  f[i] = IF i = 1 THEN seqs[i] ELSE f[i-1] \o seqs[i]
  BY <1>1 DEF IsFlat
<1>5. QED
  BY <1>3, <1>4

LEMMA ConcatElements ==
  ASSUME NEW S, NEW s \in Seq(S), NEW t \in Seq(S)
  PROVE  /\ s \o t \in Seq(S)
         /\ \A x : x \in ToSet(s \o t) <=> x \in ToSet(s) \/ x \in ToSet(t)
<1>1. s \o t \in Seq(S) /\ DOMAIN (s \o t) = 1 .. Len(s) + Len(t)
      /\ \A i \in 1 .. Len(s) + Len(t) : (s \o t)[i] = IF i <= Len(s) THEN s[i] ELSE t[i - Len(s)]
  BY ConcatProperties
<1>2. ASSUME NEW x, x \in ToSet(s \o t) PROVE x \in ToSet(s) \/ x \in ToSet(t)
  <2>1. PICK i \in 1 .. Len(s) + Len(t) : x = (s \o t)[i]
    BY <1>1, <1>2 DEF ToSet
  <2>2. CASE i <= Len(s)
    BY <1>1, <2>1, <2>2 DEF ToSet
  <2>3. CASE i > Len(s)
    <3>1. i - Len(s) \in DOMAIN t /\ x = t[i - Len(s)]
      BY <1>1, <2>1, <2>3
    <3>2. QED
      BY <3>1 DEF ToSet
  <2>4. QED
    BY <2>2, <2>3
<1>3. ASSUME NEW x, x \in ToSet(s) PROVE x \in ToSet(s \o t)
  BY <1>1, <1>3 DEF ToSet
<1>4. ASSUME NEW x, x \in ToSet(t) PROVE x \in ToSet(s \o t)
  <2>1. PICK i \in DOMAIN t : x = t[i]
    BY <1>4 DEF ToSet
  <2>2. Len(s) + i \in 1 .. Len(s) + Len(t) /\ (s \o t)[Len(s) + i] = x
    BY <1>1, <2>1
  <2>3. QED
    BY <1>1, <2>2 DEF ToSet
<1>5. QED
  BY <1>1, <1>2, <1>3, <1>4

(* What FlattenSeq returns has the elements of the parts and no other. *)
LEMMA FlatElements ==
  ASSUME NEW S, NEW seqs \in Seq(Seq(S))
  PROVE  /\ FlattenSeq(seqs) \in Seq(S)
         /\ \A x : x \in ToSet(FlattenSeq(seqs)) <=> \E i \in DOMAIN seqs : x \in ToSet(seqs[i])
<1>1. CASE seqs = <<>>
  BY <1>1 DEF FlattenSeq, ToSet
<1>2. CASE seqs # <<>>
  <2>1. PICK f : /\ \A i \in 1 .. Len(seqs) : f[i] = IF i = 1 THEN seqs[i] ELSE f[i-1] \o seqs[i]
                 /\ FlattenSeq(seqs) = f[Len(seqs)]
    BY <1>2, FlatDef
  <2> DEFINE Good(n) == /\ f[n] \in Seq(S)
                        /\ \A x : x \in ToSet(f[n]) <=> \E i \in 1 .. n : x \in ToSet(seqs[i])
             T == {n \in Nat : 0 < n /\ n <= Len(seqs) => Good(n)}
  <2>2. 0 \in T
    OBVIOUS
  <2>3. ASSUME NEW n \in Nat, n \in T PROVE n + 1 \in T
    <3>1. SUFFICES ASSUME n + 1 <= Len(seqs) PROVE Good(n + 1)
      OBVIOUS
    <3>2. CASE n = 0
      <4>1. f[1] = seqs[1] /\ seqs[1] \in Seq(S)
        BY <1>2, <2>1
      <4>2. QED
        BY <3>2, <4>1
    <3>3. CASE n # 0
      <4>1. n + 1 \in 1 .. Len(seqs) /\ n + 1 # 1 /\ (n + 1) - 1 = n
        BY <3>1, <3>3
      <4>2. f[n + 1] = f[n] \o seqs[n + 1]
        <5>1. f[n + 1] = IF n + 1 = 1 THEN seqs[n + 1] ELSE f[(n + 1) - 1] \o seqs[n + 1]
          BY <2>1, <4>1
        <5>2. QED
          BY <4>1, <5>1
      <4>7. seqs[n + 1] \in Seq(S)
        BY <4>1
      <4>3. Good(n)
        BY <2>3, <3>1, <3>3
      <4>4. f[n + 1] \in Seq(S)
            /\ \A x : x \in ToSet(f[n + 1]) <=> x \in ToSet(f[n]) \/ x \in ToSet(seqs[n + 1])
        BY <4>2, <4>3, <4>7, ConcatElements
      <4>5. \A x : (\E i \in 1 .. n + 1 : x \in ToSet(seqs[i]))
                     <=> (\E i \in 1 .. n : x \in ToSet(seqs[i])) \/ x \in ToSet(seqs[n + 1])
        OBVIOUS
      <4>6. QED
        BY <4>3, <4>4, <4>5
    <3>4. QED
      BY <3>2, <3>3
  <2>4. Nat \subseteq T
    BY <2>2, <2>3, Induction
  <2>5. Good(Len(seqs))
    <3>1. Len(seqs) \in Nat /\ 0 < Len(seqs)
      BY <1>2
    <3>2. Len(seqs) \in T
      BY <2>4, <3>1
    <3>3. QED
      BY <3>1, <3>2
  <2>6. FlattenSeq(seqs) = f[Len(seqs)] /\ DOMAIN seqs = 1 .. Len(seqs)
    BY <2>1
  <2>7. QED
    BY <2>5, <2>6
<1>3. QED
  BY <1>1, <1>2
LEMMA PartsType ==
  ASSUME NEW S, NEW T, NEW seq \in Seq(T)
  PROVE  LET parts == [i \in DOMAIN seq |-> IF seq[i] \in S THEN <<seq[i]>> ELSE <<>>]
         IN  parts \in Seq(Seq(T \cap S)) /\ Len(parts) = Len(seq)
<1> DEFINE part(i) == IF seq[i] \in S THEN <<seq[i]>> ELSE <<>>
           parts == [i \in 1 .. Len(seq) |-> part(i)]
<1>1. ASSUME NEW i \in 1 .. Len(seq) PROVE part(i) \in Seq(T \cap S)
  <2>1. CASE seq[i] \in S
    <3>1. seq[i] \in T \cap S
      BY <2>1
    <3>2. <<seq[i]>> \in Seq(T \cap S)
      BY <3>1
    <3>3. QED
      BY <2>1, <3>2
  <2>2. CASE seq[i] \notin S
    BY <2>2
  <2>3. QED
    BY <2>1, <2>2
<1> HIDE DEF part
<1>2. parts \in [1 .. Len(seq) -> Seq(T \cap S)]
  BY <1>1
<1>3. Len(seq) \in Nat /\ DOMAIN seq = 1 .. Len(seq)
  OBVIOUS
<1>4. parts \in Seq(Seq(T \cap S)) /\ Len(parts) = Len(seq)
  BY <1>2, <1>3, IsASeq, LenProperties
<1>5. QED
  BY <1>3, <1>4 DEF part

(* What Kept returns: the elements of S, as many as S holds of them. *)
LEMMA KeptElements ==
  ASSUME NEW S, NEW T, NEW seq \in Seq(T)
  PROVE  /\ Kept(seq, S) \in Seq(T)
         /\ Kept(seq, S) \in Seq(T \cap S)
         /\ \A x : x \in ToSet(Kept(seq, S)) <=> x \in ToSet(seq) /\ x \in S
<1> DEFINE parts == [i \in DOMAIN seq |-> IF seq[i] \in S THEN <<seq[i]>> ELSE <<>>]
<1>1. parts \in Seq(Seq(T \cap S))
  BY PartsType
<1>2. Kept(seq, S) = FlattenSeq(parts)
  BY DEF Kept
<1>3. /\ FlattenSeq(parts) \in Seq(T \cap S)
      /\ \A x : x \in ToSet(FlattenSeq(parts)) <=> \E i \in DOMAIN parts : x \in ToSet(parts[i])
  BY <1>1, FlatElements
<1>4. \A i \in DOMAIN seq : ToSet(parts[i]) = {seq[i]} \cap S
  BY DEF ToSet
<1>5. ASSUME NEW x
      PROVE  (\E i \in DOMAIN parts : x \in ToSet(parts[i])) <=> x \in ToSet(seq) /\ x \in S
  BY <1>4 DEF ToSet
<1>6. Seq(T \cap S) \subseteq Seq(T)
  BY SeqMonotonic
<1>7. QED
  BY <1>2, <1>3, <1>5, <1>6

LEMMA KeptCount ==
  ASSUME NEW S, NEW T, NEW seq \in Seq(T)
  PROVE  Len(Kept(seq, S)) = Cardinality({i \in DOMAIN seq : seq[i] \in S})
<1> DEFINE parts == [i \in DOMAIN seq |-> IF seq[i] \in S THEN <<seq[i]>> ELSE <<>>]
<1>1. Len(parts) = Len(seq) /\ Len(seq) \in Nat
  BY PartsType
<1>2. Kept(seq, S) = FlattenSeq(parts)
  BY DEF Kept
<1>6. \A i \in 1 .. Len(seq) : parts[i] = IF seq[i] \in S THEN <<seq[i]>> ELSE <<>>
  OBVIOUS
<1> HIDE DEF parts
<1>3. CASE seq = <<>>
  <2>1. FlattenSeq(parts) = <<>>
    <3>1. Len(parts) = 0 /\ DOMAIN parts = {}
      BY <1>1, <1>3 DEF parts
    <3>2. parts = <<>>
      BY <1>3 DEF parts
    <3>3. QED
      BY <3>1, <3>2 DEF FlattenSeq
  <2>2. {i \in DOMAIN seq : seq[i] \in S} = {}
    BY <1>3
  <2>3. QED
    BY <1>2, <2>1, <2>2, FS_EmptySet
<1>4. CASE seq # <<>>
  <2>1. PICK f : /\ \A i \in 1 .. Len(parts) : f[i] = IF i = 1 THEN parts[i] ELSE f[i-1] \o parts[i]
                 /\ FlattenSeq(parts) = f[Len(parts)]
    BY <1>1, <1>4, FlatDef
  <2> DEFINE Upto(n) == {i \in 1 .. n : seq[i] \in S}
             Good(n) == /\ f[n] \in Seq(T)
                        /\ IsFiniteSet(Upto(n))
                        /\ Len(f[n]) = Cardinality(Upto(n))
             G == {n \in Nat : 0 < n /\ n <= Len(seq) => Good(n)}
  <2>2. 0 \in G
    OBVIOUS
  <2>3. ASSUME NEW n \in Nat, n \in G PROVE n + 1 \in G
    <3>1. SUFFICES ASSUME n + 1 <= Len(seq) PROVE Good(n + 1)
      OBVIOUS
    <3>2. parts[n + 1] = (IF seq[n + 1] \in S THEN <<seq[n + 1]>> ELSE <<>>) /\ seq[n + 1] \in T
      BY <1>6, <3>1
    <3>3. Upto(n + 1) = Upto(n) \cup (IF seq[n + 1] \in S THEN {n + 1} ELSE {}) /\ n + 1 \notin Upto(n)
      OBVIOUS
    <3>4. CASE n = 0
      <4>1. f[1] = parts[1]
        BY <1>1, <2>1, <3>1, <3>4
      <4>2. Upto(0) = {}
        OBVIOUS
      <4>3. IsFiniteSet(Upto(n + 1)) /\ Cardinality(Upto(n + 1)) = IF seq[n + 1] \in S THEN 1 ELSE 0
        <5>1. Upto(n + 1) = IF seq[n + 1] \in S THEN {1} ELSE {}
          BY <3>3, <3>4, <4>2
        <5>2. IsFiniteSet({1}) /\ Cardinality({1}) = 1 /\ IsFiniteSet({}) /\ Cardinality({}) = 0
          BY FS_EmptySet, FS_Singleton
        <5>3. QED
          BY <5>1, <5>2
      <4>4. QED
        <5>1. f[n + 1] = IF seq[n + 1] \in S THEN <<seq[n + 1]>> ELSE <<>>
          BY <3>2, <3>4, <4>1
        <5>2. CASE seq[n + 1] \in S
          BY <3>2, <4>3, <5>1, <5>2
        <5>3. CASE seq[n + 1] \notin S
          BY <4>3, <5>1, <5>3
        <5>4. QED
          BY <5>2, <5>3
    <3>5. CASE n # 0
      <4>1. n + 1 \in 1 .. Len(parts) /\ n + 1 # 1 /\ (n + 1) - 1 = n
        BY <1>1, <3>1, <3>5
      <4>2. f[n + 1] = f[n] \o parts[n + 1]
        <5>1. f[n + 1] = IF n + 1 = 1 THEN parts[n + 1] ELSE f[(n + 1) - 1] \o parts[n + 1]
          BY <2>1, <4>1
        <5>2. QED
          BY <4>1, <5>1
      <4>3. Good(n)
        BY <2>3, <3>1, <3>5
      <4>4. /\ IsFiniteSet(Upto(n + 1)) /\ Cardinality(Upto(n)) \in Nat
            /\ Cardinality(Upto(n + 1)) = Cardinality(Upto(n)) + IF seq[n + 1] \in S THEN 1 ELSE 0
        <5>1. CASE seq[n + 1] \in S
          BY <3>3, <4>3, <5>1, FS_AddElement, FS_CardinalityType
        <5>2. CASE seq[n + 1] \notin S
          <6>1. Upto(n + 1) = Upto(n)
            BY <3>3, <5>2
          <6>2. Cardinality(Upto(n)) \in Nat
            BY <4>3, FS_CardinalityType
          <6>3. IsFiniteSet(Upto(n + 1)) /\ Cardinality(Upto(n + 1)) = Cardinality(Upto(n))
            BY <4>3, <6>1, Zenon
          <6> HIDE DEF Upto
          <6>4. Cardinality(Upto(n)) = Cardinality(Upto(n)) + 0
            BY <6>2
          <6>5. QED
            BY <5>2, <6>2, <6>3, <6>4
        <5>3. QED
          BY <5>1, <5>2
      <4>5. f[n + 1] \in Seq(T) /\ Len(f[n + 1]) = Len(f[n]) + IF seq[n + 1] \in S THEN 1 ELSE 0
        <5>1. CASE seq[n + 1] \in S
          BY <3>2, <4>2, <4>3, <5>1
        <5>2. CASE seq[n + 1] \notin S
          <6>1. f[n + 1] = f[n] \o <<>> /\ f[n] \in Seq(T)
            BY <3>2, <4>2, <4>3, <5>2
          <6>2. QED
            BY <5>2, <6>1
        <5>3. QED
          BY <5>1, <5>2
      <4>6. QED
        BY <4>3, <4>4, <4>5
    <3>6. QED
      BY <3>4, <3>5
  <2>4. Nat \subseteq G
    BY <2>2, <2>3, Induction
  <2>5. Good(Len(seq))
    <3>1. Len(seq) \in Nat /\ 0 < Len(seq)
      BY <1>4
    <3>2. Len(seq) \in G
      BY <2>4, <3>1
    <3>3. QED
      BY <3>1, <3>2
  <2>6. Upto(Len(seq)) = {i \in DOMAIN seq : seq[i] \in S}
    OBVIOUS
  <2>7. QED
    BY <1>1, <1>2, <2>1, <2>5, <2>6
<1>5. QED
  BY <1>3, <1>4

LEMMA RemoveElements ==
  ASSUME NEW S, NEW s \in Seq(S), NEW i \in DOMAIN s
  PROVE  /\ RemoveAt(s, i) \in Seq(S)
         /\ Len(RemoveAt(s, i)) = Len(s) - 1
         /\ ToSet(RemoveAt(s, i)) \subseteq ToSet(s)
<1>1. i \in 1 .. Len(s) /\ Len(s) \in Nat
  OBVIOUS
<1> DEFINE before == SubSeq(s, 1, i-1)
           after == SubSeq(s, i+1, Len(s))
<1>2. before \in Seq(S) /\ Len(before) = i - 1 /\ \A j \in 1 .. i-1 : before[j] = s[j]
  BY <1>1
<1>3. after \in Seq(S) /\ Len(after) = Len(s) - i /\ \A j \in 1 .. Len(s) - i : after[j] = s[i+j]
  BY <1>1
<1>4. RemoveAt(s, i) = before \o after
  BY DEF RemoveAt
<1> HIDE DEF before, after
<1>5. \A x \in ToSet(before) : x \in ToSet(s)
  <2>1. \A j \in DOMAIN before : j \in DOMAIN s /\ before[j] = s[j]
    BY <1>1, <1>2
  <2>2. QED
    BY <2>1 DEF ToSet
<1>6. \A x \in ToSet(after) : x \in ToSet(s)
  <2>1. \A j \in DOMAIN after : i + j \in DOMAIN s /\ after[j] = s[i + j]
    BY <1>1, <1>3
  <2>2. QED
    BY <2>1 DEF ToSet
<1>7. before \o after \in Seq(S) /\ Len(before \o after) = Len(s) - 1
  BY <1>1, <1>2, <1>3, ConcatProperties
<1>8. QED
  BY <1>2, <1>3, <1>4, <1>5, <1>6, <1>7, ConcatElements

LEMMA InsertElements ==
  ASSUME NEW S, NEW s \in Seq(S), NEW i \in 1 .. Len(s) + 1, NEW e \in S
  PROVE  /\ InsertAt(s, i, e) \in Seq(S)
         /\ Len(InsertAt(s, i, e)) = Len(s) + 1
         /\ \A x : x \in ToSet(InsertAt(s, i, e)) <=> x \in ToSet(s) \/ x = e
         /\ \A j \in 1 .. Len(s) + 1 :
               InsertAt(s, i, e)[j] = IF j < i THEN s[j] ELSE IF j = i THEN e ELSE s[j-1]
<1>1. i \in Nat \ {0} /\ Len(s) \in Nat /\ DOMAIN s = 1 .. Len(s)
  OBVIOUS
<1> DEFINE before == SubSeq(s, 1, i-1)
           after == SubSeq(s, i, Len(s))
           front == before \o <<e>>
           whole == front \o after
<1>2. before \in Seq(S) /\ Len(before) = i - 1 /\ \A j \in 1 .. i-1 : before[j] = s[j]
  BY <1>1
<1>3. after \in Seq(S) /\ Len(after) = Len(s) - i + 1 /\ \A j \in 1 .. Len(s) - i + 1 : after[j] = s[i+j-1]
  BY <1>1
<1>4. InsertAt(s, i, e) = whole
  BY DEF InsertAt
<1> HIDE DEF before, after
<1>5. <<e>> \in Seq(S) /\ Len(<<e>>) = 1 /\ <<e>>[1] = e
  OBVIOUS
<1>6. /\ front \in Seq(S) /\ Len(front) = i
      /\ \A j \in 1 .. i : front[j] = IF j < i THEN s[j] ELSE e
  BY <1>1, <1>2, <1>5, ConcatProperties
<1> HIDE DEF front
<1>7. /\ whole \in Seq(S) /\ Len(whole) = Len(s) + 1
      /\ \A j \in 1 .. Len(s) + 1 :
            whole[j] = IF j < i THEN s[j] ELSE IF j = i THEN e ELSE s[j-1]
  <2>1. whole \in Seq(S) /\ Len(whole) = Len(s) + 1
    <3>1. whole \in Seq(S) /\ Len(whole) = Len(front) + Len(after)
      BY <1>3, <1>6, ConcatProperties
    <3>2. QED
      BY <1>1, <1>3, <1>6, <3>1
  <2>2. ASSUME NEW j \in 1 .. Len(s) + 1
        PROVE  whole[j] = IF j < i THEN s[j] ELSE IF j = i THEN e ELSE s[j-1]
    <3>1. CASE j <= i
      <4>1. whole[j] = front[j]
        BY <1>1, <1>3, <1>6, <3>1, ConcatProperties
      <4>2. QED
        BY <1>1, <1>6, <3>1, <4>1
    <3>2. CASE j > i
      <4>1. whole[j] = after[j - i]
        BY <1>1, <1>3, <1>6, <3>2, ConcatProperties
      <4>2. j - i \in 1 .. Len(s) - i + 1 /\ i + (j - i) - 1 = j - 1
        BY <1>1, <3>2
      <4>3. QED
        <5>1. after[j - i] = s[i + (j - i) - 1]
          BY <1>3, <4>2
        <5>2. ~ (j < i) /\ j # i /\ after[j - i] = s[j - 1]
          BY <1>1, <3>2, <4>2, <5>1
        <5>3. QED
          BY <4>1, <5>2
    <3>3. j <= i \/ j > i
      BY <1>1
    <3>4. QED
      BY <3>1, <3>2, <3>3
  <2>3. QED
    BY <2>1, <2>2
<1> HIDE DEF whole
<1>8. DOMAIN whole = 1 .. Len(s) + 1
  BY <1>7
<1>9. ASSUME NEW x, x \in ToSet(whole) PROVE x \in ToSet(s) \/ x = e
  <2>1. PICK j \in 1 .. Len(s) + 1 : x = whole[j]
    BY <1>8, <1>9 DEF ToSet
  <2>2. x = e \/ \E k \in 1 .. Len(s) : x = s[k]
    <3>1. CASE j < i
      BY <1>1, <1>7, <2>1, <3>1
    <3>2. CASE j = i
      BY <1>7, <2>1, <3>2
    <3>3. CASE j > i
      <4>1. j - 1 \in 1 .. Len(s) /\ x = s[j - 1]
        BY <1>1, <1>7, <2>1, <3>3
      <4>2. QED
        BY <4>1
    <3>4. QED
      BY <1>1, <3>1, <3>2, <3>3
  <2>3. QED
    BY <1>1, <2>2 DEF ToSet
<1>10. ASSUME NEW x, x \in ToSet(s) \/ x = e PROVE x \in ToSet(whole)
  <2>1. CASE x = e
    <3>1. whole[i] = e
      BY <1>1, <1>7
    <3>2. QED
      BY <1>8, <2>1, <3>1 DEF ToSet
  <2>2. CASE x \in ToSet(s)
    <3>1. PICK k \in 1 .. Len(s) : x = s[k]
      BY <1>1, <2>2 DEF ToSet
    <3>2. CASE k < i
      <4>1. whole[k] = x /\ k \in 1 .. Len(s) + 1
        BY <1>1, <1>7, <3>1, <3>2
      <4>2. QED
        BY <1>8, <4>1 DEF ToSet
    <3>3. CASE k >= i
      <4>1. k + 1 \in 1 .. Len(s) + 1 /\ ~ (k + 1 < i) /\ k + 1 # i /\ (k + 1) - 1 = k
        BY <1>1, <3>3
      <4>2. whole[k + 1] = x
        BY <1>7, <3>1, <4>1
      <4>3. QED
        BY <1>8, <4>1, <4>2 DEF ToSet
    <3>4. QED
      BY <1>1, <3>2, <3>3
  <2>3. QED
    BY <1>10, <2>1, <2>2
<1>11. QED
  BY <1>4, <1>7, <1>9, <1>10
-----------------------------------------------------------------------------
(* Division. *)

LEMMA Division ==
  ASSUME NEW m \in Nat \ {0}, NEW a \in Int
  PROVE  a = (a \div m) * m + (a % m)
BY SMTT(30)

LEMMA DivisionType ==
  ASSUME NEW m \in Nat \ {0}, NEW a \in Int
  PROVE  a \div m \in Int /\ a % m \in 0 .. m - 1
OBVIOUS

LEMMA DivisionUnique ==
  ASSUME NEW m \in Nat \ {0}, NEW a \in Int, NEW q \in Int, NEW r \in 0 .. m - 1, a = q * m + r
  PROVE  a \div m = q /\ a % m = r
<1> DEFINE d == a \div m
           x == a % m
<1>1. d = q
  OBVIOUS
<1>2. a = d * m + x
  BY Division
<1>3. x \in 0 .. m - 1
  BY DivisionType
<1> HIDE DEF d, x
<1>4. q * m \in Int
  OBVIOUS
<1>5. x = r
  BY <1>1, <1>2, <1>3, <1>4
<1>6. QED
  BY <1>1, <1>5 DEF d, x

LEMMA NextMultiple ==
  ASSUME NEW m \in Nat \ {0}, NEW a \in Int, NEW t \in Int,
         a % m = 0, t % m = 0, a < t, t <= a + m
  PROVE  t = a + m
<1> DEFINE p == a \div m
           q == t \div m
<1>1. p \in Int /\ q \in Int /\ a = p * m /\ t = q * m
  BY Division, DivisionType
<1> HIDE DEF p, q
<1>2. q > p
  <2>1. SUFFICES ASSUME q <= p PROVE FALSE
    BY <1>1
  <2>2. q * m <= p * m
    BY <1>1, <2>1
  <2>3. QED
    BY <1>1, <2>2
<1>3. q = p + 1
  <2>1. SUFFICES ASSUME q >= p + 2 PROVE FALSE
    BY <1>1, <1>2
  <2>2. q * m >= (p + 2) * m
    BY <1>1, <2>1
  <2>3. (p + 2) * m = p * m + 2 * m
    BY <1>1
  <2>4. QED
    BY <1>1, <2>2, <2>3
<1>4. (p + 1) * m = p * m + m
  BY <1>1
<1>5. QED
  BY <1>1, <1>3, <1>4

LEMMA AddModulus ==
  ASSUME NEW m \in Nat \ {0}, NEW a \in Int, a % m = 0
  PROVE  (a + m) % m = 0
<1> DEFINE p == a \div m
<1>1. p \in Int /\ a = p * m
  BY Division, DivisionType
<1> HIDE DEF p
<1>2. a + m = (p + 1) * m + 0 /\ p + 1 \in Int
  BY <1>1
<1>3. 0 \in 0 .. m - 1 /\ a + m \in Int
  OBVIOUS
<1>4. \A q \in Int, r \in 0 .. m - 1 : a + m = q * m + r => (a + m) % m = r
  BY <1>3, DivisionUnique, ZenonT(60)
<1>5. QED
  BY <1>2, <1>3, <1>4, Zenon

-----------------------------------------------------------------------------
(* The archives. *)

Row == [time : Int, end : Int, value : {"v", "w", "illegal"}]
(* No settlement announces more than the funding interval. *)
RowOf(a) == IF a[1] = "funding" THEN {row \in Row : row.end <= FundingInterval} ELSE Row
FileOf(a) == [file : BOOLEAN, checksum : {"ok", "missing", "other"}, csv : {"ok", "other"},
              rows : Seq(RowOf(a))]
RawTyped == raw \in [Archives -> UNION {FileOf(a) : a \in Archives}]
            /\ \A a \in Archives : raw[a] \in FileOf(a)

LEMMA ClockFacts ==
  /\ BarInterval \in Nat \ {0} /\ MarkInterval \in Nat \ {0} /\ FundingInterval \in Nat \ {0}
  /\ FundingTolerance \in Nat /\ MarkMaxAge \in Nat
  /\ WindowEnd \in Nat \ {0} /\ MonthLength \in Nat \ {0} /\ DayLength \in Nat \ {0}
BY ClockAssumption

LEMMA ArchiveFacts ==
  /\ Months \in Seq(Int)
  /\ \A a \in Archives : a[2] \in Int
  /\ \A k \in {"bars", "marks", "funding"} : \A i \in DOMAIN Months :
        <<k, Months[i]>> \in Archives
  /\ \A i \in DOMAIN FillDays : <<"fill", FillDays[i]>> \in Archives
<1>1. WindowEnd \div MonthLength \in Nat
  BY ClockFacts
<1>2. Months \in Seq(Int)
  <2>1. \A i \in 1 .. WindowEnd \div MonthLength : (i - 1) * MonthLength \in Int
    BY ClockFacts
  <2>2. Months \in [1 .. WindowEnd \div MonthLength -> Int]
    BY <2>1 DEF Months
  <2>3. QED
    BY <1>1, <2>2, IsASeq
<1>3. FillDays \in Seq(Int)
  BY ClockAssumption
<1>4. ToSet(Months) \subseteq Int /\ ToSet(FillDays) \subseteq Int
  BY <1>2, <1>3 DEF ToSet
<1>5. QED
  BY <1>2, <1>4 DEF Archives, ToSet

LEMMA FileFields ==
  ASSUME NEW a \in Archives, NEW f \in FileOf(a)
  PROVE  /\ f.rows \in Seq(RowOf(a))
         /\ \A list \in Seq(RowOf(a)) : [f EXCEPT !.rows = list] \in FileOf(a)
BY DEF FileOf

LEMMA ReplacedRow ==
  ASSUME NEW S, NEW s \in Seq(S), NEW i \in DOMAIN s, NEW r \in S
  PROVE  [s EXCEPT ![i] = r] \in Seq(S)
BY ExceptSeq

LEMMA ChangedRow ==
  ASSUME NEW a, NEW row \in RowOf(a), NEW n \in Int
  PROVE  /\ [row EXCEPT !.time = n] \in RowOf(a)
         /\ n <= row.end \/ n <= FundingInterval => [row EXCEPT !.end = n] \in RowOf(a)
<1> DEFINE moved == [row EXCEPT !.time = n]
           ended == [row EXCEPT !.end = n]
<1>1. row \in Row /\ FundingInterval \in Nat
  BY ClockFacts DEF RowOf
<1>2. moved \in Row /\ moved.end = row.end /\ ended \in Row /\ ended.end = n /\ row.end \in Int
  BY <1>1 DEF Row
<1> HIDE DEF moved, ended
<1>6. SUFFICES moved \in RowOf(a) /\ (n <= row.end \/ n <= FundingInterval => ended \in RowOf(a))
  BY DEF moved, ended
<1>3. CASE a[1] = "funding"
  <2>1. row.end <= FundingInterval
    BY <1>3 DEF RowOf
  <2>2. QED
    BY <1>1, <1>2, <1>3, <2>1 DEF RowOf
<1>4. CASE a[1] # "funding"
  BY <1>2, <1>4 DEF RowOf
<1>5. QED
  BY <1>3, <1>4

LEMMA InsertTyped ==
  ASSUME NEW a, NEW list \in Seq(RowOf(a)), NEW row \in RowOf(a)
  PROVE  /\ Insert(list, row) \in Seq(RowOf(a))
         /\ \A x : x \in ToSet(Insert(list, row)) <=> x \in ToSet(list) \/ x = row
<1> DEFINE times == [i \in DOMAIN list |-> list[i].time]
           earlier == {i \in DOMAIN times : times[i] <= row.time}
<1>1. DOMAIN list = 1 .. Len(list) /\ Len(list) \in Nat
  OBVIOUS
<1>2. earlier \subseteq 1 .. Len(list) /\ IsFiniteSet(1 .. Len(list)) /\ Cardinality(1 .. Len(list)) = Len(list)
  BY <1>1, FS_Interval, SMTT(30)
<1> HIDE DEF earlier
<1>3. Cardinality(earlier) \in 0 .. Len(list)
  <2>1. IsFiniteSet(earlier) /\ Cardinality(earlier) <= Cardinality(1 .. Len(list))
    BY <1>2, FS_Subset
  <2>2. Cardinality(earlier) \in Nat
    BY <2>1, FS_CardinalityType
  <2>3. QED
    BY <1>1, <1>2, <2>1, <2>2
<1>4. Place(times, row.time) \in 1 .. Len(list) + 1
  BY <1>1, <1>3 DEF Place, earlier
<1>5. QED
  <2>1. Insert(list, row) = InsertAt(list, Place(times, row.time), row)
    BY DEF Insert
  <2> HIDE DEF times
  <2>2. QED
    BY <1>4, <2>1, InsertElements

LEMMA FaultyTyped ==
  ASSUME NEW a \in Archives, NEW f \in FileOf(a), NEW g \in Faulty(a, f, Drifts)
  PROVE  g \in FileOf(a)
<1>1. f.rows \in Seq(RowOf(a)) /\ DOMAIN f.rows = 1 .. Len(f.rows) /\ Len(f.rows) \in Nat
  BY FileFields
<1>2. \A i \in DOMAIN f.rows : f.rows[i] \in RowOf(a)
  BY <1>1, ElementOfSeq
<1>3. CASE g \in FaultyFile(f)
  <2>1. <<>> \in Seq(RowOf(a))
    OBVIOUS
  <2>2. QED
    BY <1>3, <2>1 DEF FaultyFile, FileOf
<1>4. CASE \E i \in DOMAIN f.rows : g \in FaultyRow(a, f, i)
  <2>1. PICK i \in DOMAIN f.rows : g \in FaultyRow(a, f, i)
    BY <1>4
  <2>2. f.rows[i] \in RowOf(a)
    BY <1>2
  <2>3. CASE g = [f EXCEPT !.rows = RemoveAt(f.rows, i)]
    BY <1>1, <2>3, RemoveElements, FileFields
  <2>4. CASE g = [f EXCEPT !.rows = InsertAt(f.rows, i, f.rows[i])]
    BY <1>1, <2>2, <2>4, InsertElements, FileFields
  <2>5. CASE \E v \in {"v", "w", "illegal"} : g = [f EXCEPT !.rows[i].value = v]
    <3>1. PICK v \in {"v", "w", "illegal"} : g = [f EXCEPT !.rows[i].value = v]
      BY <2>5
    <3>2. [f.rows[i] EXCEPT !.value = v] \in RowOf(a)
      BY <2>2 DEF RowOf, Row
    <3>3. [f.rows EXCEPT ![i] = [f.rows[i] EXCEPT !.value = v]] \in Seq(RowOf(a))
      BY <1>1, <3>2, ReplacedRow
    <3>4. g = [f EXCEPT !.rows = [f.rows EXCEPT ![i] = [f.rows[i] EXCEPT !.value = v]]]
      BY <3>1
    <3>5. QED
      BY <3>3, <3>4, FileFields
  <2>6. CASE g = [f EXCEPT !.rows[i].end = @ - 1]
    <3>1. [f.rows[i] EXCEPT !.end = @ - 1] \in RowOf(a)
      <4>1. f.rows[i].end \in Int
        BY <2>2 DEF RowOf, Row
      <4>2. QED
        <5>1. \A n \in Int : n <= f.rows[i].end => [f.rows[i] EXCEPT !.end = n] \in RowOf(a)
          BY <2>2, ChangedRow
        <5>2. f.rows[i].end - 1 \in Int /\ f.rows[i].end - 1 <= f.rows[i].end
          BY <4>1
        <5>3. QED
          BY <5>1, <5>2
    <3>2. [f.rows EXCEPT ![i] = [f.rows[i] EXCEPT !.end = @ - 1]] \in Seq(RowOf(a))
      BY <1>1, <3>1, ReplacedRow
    <3>3. g = [f EXCEPT !.rows = [f.rows EXCEPT ![i] = [f.rows[i] EXCEPT !.end = @ - 1]]]
      BY <2>6
    <3>4. QED
      BY <3>2, <3>3, FileFields
  <2>7. CASE \E j \in {i + 1} \cap DOMAIN f.rows : g = [f EXCEPT !.rows[i] = f.rows[j], !.rows[j] = f.rows[i]]
    <3>1. PICK j \in DOMAIN f.rows : g = [f EXCEPT !.rows[i] = f.rows[j], !.rows[j] = f.rows[i]]
      BY <2>7
    <3>2. [f.rows EXCEPT ![i] = f.rows[j]] \in Seq(RowOf(a))
      BY <1>1, <1>2, ReplacedRow
    <3>3. [[f.rows EXCEPT ![i] = f.rows[j]] EXCEPT ![j] = f.rows[i]] \in Seq(RowOf(a))
      <4>1. j \in DOMAIN [f.rows EXCEPT ![i] = f.rows[j]]
        OBVIOUS
      <4>2. QED
        BY <1>2, <3>2, <4>1, ReplacedRow
    <3>4. g = [f EXCEPT !.rows = [[f.rows EXCEPT ![i] = f.rows[j]] EXCEPT ![j] = f.rows[i]]]
      BY <3>1 DEF FileOf
    <3>5. QED
      BY <3>3, <3>4, FileFields
  <2>8. QED
    BY <2>1, <2>3, <2>4, <2>5, <2>6, <2>7 DEF FaultyRow
<1>5. CASE a[1] = "funding" /\ \E i \in DOMAIN f.rows : g \in FaultySettlement(f, i, Drifts)
  <2>1. PICK i \in DOMAIN f.rows : g \in FaultySettlement(f, i, Drifts)
    BY <1>5
  <2>2. f.rows[i] \in RowOf(a) /\ Drifts \subseteq Int
    BY <1>2, DatasetAssumption
  <2>3. CASE \E d \in Drifts : g = [f EXCEPT !.rows[i].time = @ + d]
    <3>1. PICK d \in Drifts : g = [f EXCEPT !.rows[i].time = @ + d]
      BY <2>3
    <3>2. [f.rows[i] EXCEPT !.time = @ + d] \in RowOf(a)
      <4>1. f.rows[i].time \in Int /\ d \in Int
        BY <2>2 DEF RowOf, Row
      <4>2. QED
        <5>1. \A n \in Int : [f.rows[i] EXCEPT !.time = n] \in RowOf(a)
          BY <2>2, ChangedRow
        <5>2. QED
          BY <4>1, <5>1
    <3>3. [f.rows EXCEPT ![i] = [f.rows[i] EXCEPT !.time = @ + d]] \in Seq(RowOf(a))
      BY <1>1, <3>2, ReplacedRow
    <3>4. g = [f EXCEPT !.rows = [f.rows EXCEPT ![i] = [f.rows[i] EXCEPT !.time = @ + d]]]
      BY <3>1
    <3>5. QED
      BY <3>3, <3>4, FileFields
  <2>4. CASE g = [f EXCEPT !.rows[i].end = FundingInterval \div 2]
    <3>1. FundingInterval \div 2 \in Int /\ FundingInterval \div 2 <= FundingInterval
      BY ClockFacts
    <3>2. [f.rows[i] EXCEPT !.end = FundingInterval \div 2] \in RowOf(a)
      BY <2>2, <3>1, ChangedRow
    <3>3. [f.rows EXCEPT ![i] = [f.rows[i] EXCEPT !.end = FundingInterval \div 2]] \in Seq(RowOf(a))
      BY <1>1, <3>2, ReplacedRow
    <3>4. g = [f EXCEPT !.rows = [f.rows EXCEPT ![i] = [f.rows[i] EXCEPT !.end = FundingInterval \div 2]]]
      BY <2>4
    <3>5. QED
      BY <3>3, <3>4, FileFields
  <2>5. CASE g = [f EXCEPT !.rows = InsertAt(@, i + 1, [f.rows[i] EXCEPT !.time = @ + 5])]
    <3>1. [f.rows[i] EXCEPT !.time = @ + 5] \in RowOf(a)
      <4>1. f.rows[i].time \in Int
        BY <2>2 DEF RowOf, Row
      <4>2. QED
        <5>1. \A n \in Int : [f.rows[i] EXCEPT !.time = n] \in RowOf(a)
          BY <2>2, ChangedRow
        <5>2. QED
          BY <4>1, <5>1
    <3>2. i + 1 \in 1 .. Len(f.rows) + 1
      BY <1>1
    <3>3. InsertAt(f.rows, i + 1, [f.rows[i] EXCEPT !.time = @ + 5]) \in Seq(RowOf(a))
      BY <1>1, <3>1, <3>2, InsertElements
    <3>4. g = [f EXCEPT !.rows = InsertAt(f.rows, i + 1, [f.rows[i] EXCEPT !.time = @ + 5])]
      BY <2>5
    <3>5. QED
      BY <3>3, <3>4, FileFields
  <2>6. QED
    BY <2>1, <2>3, <2>4, <2>5 DEF FaultySettlement
<1>6. CASE a[1] = "marks" /\ \E t \in Omitted \cap Span(a) : g = LateRow(a, f, t)
  <2>1. PICK t \in Span(a) : g = [f EXCEPT !.rows = Insert(f.rows, PublishedRow(a, t))]
    BY <1>6 DEF LateRow
  <2>2. t \in Int
    BY <1>6, ArchiveFacts, ClockFacts DEF Span
  <2>3. PublishedRow(a, t) \in RowOf(a)
    BY <1>6, <2>2, ClockFacts DEF PublishedRow, RowOf, Row, Interval
  <2>4. QED
    BY <1>1, <2>1, <2>3, InsertTyped, FileFields
<1>7. \/ g \in FaultyFile(f)
      \/ \E i \in DOMAIN f.rows : g \in FaultyRow(a, f, i)
      \/ a[1] = "funding" /\ \E i \in DOMAIN f.rows : g \in FaultySettlement(f, i, Drifts)
      \/ a[1] = "marks" /\ \E t \in Omitted \cap Span(a) : g = LateRow(a, f, t)
  <2> DEFINE files == FaultyFile(f)
             wrong == UNION {FaultyRow(a, f, i) : i \in DOMAIN f.rows}
             settlements == UNION {FaultySettlement(f, i, Drifts) : i \in DOMAIN f.rows}
             late == {LateRow(a, f, t) : t \in Omitted \cap Span(a)}
  <2>1. Faulty(a, f, Drifts) = files \cup wrong \cup (IF a[1] = "funding" THEN settlements ELSE {})
                                \cup (IF a[1] = "marks" THEN late ELSE {})
    BY DEF Faulty
  <2>2. /\ g \in wrong => \E i \in DOMAIN f.rows : g \in FaultyRow(a, f, i)
        /\ g \in settlements => \E i \in DOMAIN f.rows : g \in FaultySettlement(f, i, Drifts)
        /\ g \in late => \E t \in Omitted \cap Span(a) : g = LateRow(a, f, t)
    OBVIOUS
  <2> HIDE DEF wrong, settlements, late
  <2>3. QED
    BY <2>1, <2>2
<1>8. QED
  BY <1>3, <1>4, <1>5, <1>6, <1>7

LEMMA PublishedTyped ==
  ASSUME NEW a \in Archives
  PROVE  Published(a) \in FileOf(a)
<1> DEFINE size == Cardinality(Span(a))
           ticks == [i \in 1 .. size |-> a[2] + i - 1]
           ts == PublishedTimes(a)
           list == [i \in DOMAIN ts |-> PublishedRow(a, ts[i])]
<1>1. size \in Nat
  <2>1. \E to \in Int : Span(a) = a[2] .. to
    BY ArchiveFacts, ClockFacts DEF Span
  <2>2. a[2] \in Int
    BY ArchiveFacts
  <2>3. IsFiniteSet(Span(a))
    BY <2>1, <2>2, FS_Interval
  <2>4. QED
    BY <2>3, FS_CardinalityType
<1>2. ticks \in Seq(Int)
  <2>1. \A i \in 1 .. size : a[2] + i - 1 \in Int
    BY ArchiveFacts, <1>1
  <2>2. QED
    BY <1>1, <2>1, IsASeq
<1>3. ts \in Seq(Int)
  BY <1>2, KeptElements, ZenonT(60) DEF PublishedTimes
<1> HIDE DEF ts
<1>4. \A i \in DOMAIN ts : PublishedRow(a, ts[i]) \in RowOf(a)
  <2>1. SUFFICES ASSUME NEW t \in Int PROVE PublishedRow(a, t) \in RowOf(a)
    BY <1>3
  <2>2. CASE a[1] = "funding"
    BY <2>2, ClockFacts DEF PublishedRow, RowOf, Row
  <2>3. CASE a[1] # "funding"
    <3>1. Interval(a[1]) \in Int
      BY <2>3, ClockFacts DEF Interval
    <3>2. QED
      BY <2>3, <3>1 DEF PublishedRow, RowOf, Row
  <2>4. QED
    BY <2>2, <2>3
<1>5. list \in Seq(RowOf(a))
  <2>1. DOMAIN ts = 1 .. Len(ts) /\ Len(ts) \in Nat
    BY <1>3
  <2>2. list \in [1 .. Len(ts) -> RowOf(a)]
    BY <1>4, <2>1
  <2>3. QED
    BY <2>1, <2>2, IsASeq
<1>6. Published(a) = [file |-> TRUE, checksum |-> "ok", csv |-> "ok", rows |-> list]
  BY DEF Published, ts
<1> HIDE DEF list
<1>7. QED
  BY <1>5, <1>6 DEF FileOf

LEMMA RawInit == Init => RawTyped
<1>1. ASSUME Init PROVE RawTyped
  <2>1. raw = [a \in Archives |-> Published(a)]
    BY <1>1 DEF Init
  <2>2. \A a \in Archives : Published(a) \in FileOf(a)
    BY PublishedTyped
  <2>3. QED
    BY <2>1, <2>2 DEF RawTyped
<1>2. QED
  BY <1>1

LEMMA RawNext == RawTyped /\ [Next]_vars => RawTyped'
<1>1. ASSUME RawTyped, SourceFault PROVE RawTyped'
  <2>0. PICK a \in Archives : \E f \in Faulty(a, raw[a], Drifts) : raw' = [raw EXCEPT ![a] = f]
    BY <1>1 DEF SourceFault
  <2>1. PICK f \in Faulty(a, raw[a], Drifts) : raw' = [raw EXCEPT ![a] = f]
    BY <2>0
  <2>2. f \in FileOf(a)
    BY <1>1, FaultyTyped DEF RawTyped
  <2>3. QED
    BY <1>1, <2>1, <2>2 DEF RawTyped
<1>2. ASSUME RawTyped, UNCHANGED raw PROVE RawTyped'
  BY <1>2 DEF RawTyped
<1>3. ASSUME [Next]_vars PROVE SourceFault \/ UNCHANGED raw
  BY <1>3 DEF Next, vars, CatalogFault, ProbeIndex, LoadBars, LoadMarksAndFunding, WriteCatalog, CrosscheckCatalog,
    Accept, Bind, BatchRead, BatchBar, FinishBatch, EngineRead, OnMarkPrice, OnFundingRate, OnBar, Parity
<1>4. QED
  BY <1>1, <1>2, <1>3

(* The monthly rows of one kind are rows of its archives. *)
LEMMA JoinedElements ==
  ASSUME RawTyped, NEW k \in {"bars", "marks", "funding"}
  PROVE  /\ Joined(raw, k) \in Seq(RowOf(<<k, 0>>))
         /\ \A x \in ToSet(Joined(raw, k)) :
               \E a \in Archives : a[1] = k /\ x \in ToSet(raw[a].rows)
<1> DEFINE parts == [i \in DOMAIN Months |-> raw[<<k, Months[i]>>].rows]
           S == RowOf(<<k, 0>>)
<1>1. \A i \in DOMAIN Months : <<k, Months[i]>> \in Archives
  BY ArchiveFacts
<1>2. \A a \in Archives : a[1] = k => raw[a].rows \in Seq(S)
  BY FileFields DEF RawTyped, RowOf
<1>3. \A i \in DOMAIN Months : parts[i] \in Seq(S)
  BY <1>1, <1>2
<1>4. parts \in Seq(Seq(S))
  <2>1. Months \in Seq(Int) /\ DOMAIN Months = 1 .. Len(Months) /\ Len(Months) \in Nat
    BY ArchiveFacts
  <2>2. parts \in [1 .. Len(Months) -> Seq(S)]
    BY <1>3, <2>1
  <2> HIDE DEF parts, S
  <2>3. QED
    BY <2>1, <2>2, IsASeq
<1>5. Joined(raw, k) = FlattenSeq(parts) /\ DOMAIN parts = DOMAIN Months
  BY DEF Joined
<1>6. FlattenSeq(parts) \in Seq(S)
      /\ \A x \in ToSet(FlattenSeq(parts)) : \E i \in DOMAIN parts : x \in ToSet(parts[i])
  BY <1>4, FlatElements
<1>7. \A i \in DOMAIN Months : parts[i] = raw[<<k, Months[i]>>].rows /\ <<k, Months[i]>>[1] = k
  OBVIOUS
<1> HIDE DEF parts, S
<1>8. QED
  BY <1>1, <1>5, <1>6, <1>7 DEF S

LEMMA FillElements ==
  ASSUME RawTyped
  PROVE  /\ FillRows(raw) \in Seq(Row)
         /\ \A x \in ToSet(FillRows(raw)) :
               \E a \in Archives : a[1] = "fill" /\ x \in ToSet(raw[a].rows)
<1> DEFINE parts == [i \in DOMAIN FillDays |-> raw[<<"fill", FillDays[i]>>].rows]
<1>1. \A i \in DOMAIN FillDays : <<"fill", FillDays[i]>> \in Archives
  BY ArchiveFacts
<1>2. \A a \in Archives : a[1] = "fill" => raw[a].rows \in Seq(Row)
  BY FileFields DEF RawTyped, RowOf
<1>3. \A i \in DOMAIN FillDays : parts[i] \in Seq(Row)
  BY <1>1, <1>2
<1>4. parts \in Seq(Seq(Row))
  <2>1. FillDays \in Seq(Int) /\ DOMAIN FillDays = 1 .. Len(FillDays) /\ Len(FillDays) \in Nat
    BY ClockAssumption
  <2>2. parts \in [1 .. Len(FillDays) -> Seq(Row)]
    BY <1>3, <2>1
  <2>3. QED
    BY <2>1, <2>2, IsASeq
<1>5. FillRows(raw) = FlattenSeq(parts) /\ DOMAIN parts = DOMAIN FillDays
  BY DEF FillRows
<1>6. FlattenSeq(parts) \in Seq(Row)
      /\ \A x \in ToSet(FlattenSeq(parts)) : \E i \in DOMAIN parts : x \in ToSet(parts[i])
  BY <1>4, FlatElements
<1>7. \A i \in DOMAIN FillDays : parts[i] = raw[<<"fill", FillDays[i]>>].rows /\ <<"fill", FillDays[i]>>[1] = "fill"
  OBVIOUS
<1> HIDE DEF parts
<1>8. QED
  BY <1>1, <1>5, <1>6, <1>7, ZenonT(60)

(* The recursion of Completed is well defined. *)
IsCompleted(f, list, added, n) ==
  f = [m \in 0 .. n |-> IF m = 0 THEN list ELSE Insert(f[m-1], added[m])]

LEMMA CompletedDef ==
  ASSUME NEW list, NEW added, Len(added) \in Nat
  PROVE  \E f : /\ f[0] = list
                /\ \A m \in 1 .. Len(added) : f[m] = Insert(f[m-1], added[m])
                /\ Completed(list, added) = f[Len(added)]
<1> DEFINE T == {n \in Nat : \E f : IsCompleted(f, list, added, n)}
           f == CHOOSE g : IsCompleted(g, list, added, Len(added))
<1>1. 0 \in T
  <2>1. IsCompleted([m \in 0 .. 0 |-> list], list, added, 0)
    BY DEF IsCompleted
  <2>2. QED
    BY <2>1
<1>2. ASSUME NEW n \in Nat, n \in T PROVE n + 1 \in T
  <2>1. PICK g : IsCompleted(g, list, added, n)
    BY <1>2
  <2> DEFINE h == [m \in 0 .. n + 1 |-> IF m <= n THEN g[m] ELSE Insert(g[m-1], added[m])]
  <2>2. ASSUME NEW m \in 0 .. n + 1
        PROVE  h[m] = IF m = 0 THEN list ELSE Insert(h[m-1], added[m])
    <3>1. CASE m <= n
      <4>1. g[m] = IF m = 0 THEN list ELSE Insert(g[m-1], added[m])
        BY <2>1, <3>1 DEF IsCompleted
      <4>2. h[m] = g[m] /\ (m # 0 => h[m-1] = g[m-1])
        BY <3>1
      <4>3. QED
        BY <4>1, <4>2
    <3>2. CASE m = n + 1
      <4>1. h[m] = Insert(g[m-1], added[m]) /\ h[m-1] = g[m-1] /\ m # 0
        BY <3>2
      <4>2. QED
        BY <4>1
    <3>3. QED
      BY <3>1, <3>2
  <2>3. IsCompleted(h, list, added, n + 1)
    BY <2>2 DEF IsCompleted
  <2>4. QED
    BY <2>3
<1>3. Nat \subseteq T
  BY <1>1, <1>2, Induction
<1>4. Len(added) \in T
  BY <1>3
<1>5. IsCompleted(f, list, added, Len(added))
  BY <1>4
<1>6. f = CHOOSE g : g = [m \in 0 .. Len(added) |->
                           IF m = 0 THEN list ELSE Insert(g[m-1], added[m])]
  BY DEF IsCompleted
<1>7. Completed(list, added) = f[Len(added)]
  BY <1>6 DEF Completed
<1>8. f[0] = list /\ \A m \in 1 .. Len(added) : f[m] = Insert(f[m-1], added[m])
  <2>1. ASSUME NEW m \in 0 .. Len(added)
        PROVE  f[m] = IF m = 0 THEN list ELSE Insert(f[m-1], added[m])
    BY <1>5 DEF IsCompleted
  <2>2. 0 \in 0 .. Len(added)
    OBVIOUS
  <2>3. QED
    BY <2>1, <2>2
<1>9. QED
  BY <1>7, <1>8

LEMMA CompletedElements ==
  ASSUME NEW list \in Seq(Row), NEW added \in Seq(Row)
  PROVE  /\ Completed(list, added) \in Seq(Row)
         /\ \A x : x \in ToSet(Completed(list, added)) <=> x \in ToSet(list) \/ x \in ToSet(added)
<1>0. Len(added) \in Nat
  OBVIOUS
<1>1. PICK f : /\ f[0] = list
               /\ \A m \in 1 .. Len(added) : f[m] = Insert(f[m-1], added[m])
               /\ Completed(list, added) = f[Len(added)]
  BY <1>0, CompletedDef
<1> DEFINE Good(n) == /\ f[n] \in Seq(Row)
                      /\ \A x : x \in ToSet(f[n]) <=> x \in ToSet(list) \/ \E i \in 1 .. n : x = added[i]
           T == {n \in Nat : n <= Len(added) => Good(n)}
<1>2. 0 \in T
  <2>1. Good(0)
    BY <1>1
  <2>2. QED
    BY <2>1
<1>3. ASSUME NEW n \in Nat, n \in T PROVE n + 1 \in T
  <2>1. SUFFICES ASSUME n + 1 <= Len(added) PROVE Good(n + 1)
    OBVIOUS
  <2>2. Good(n) /\ n + 1 \in 1 .. Len(added) /\ (n + 1) - 1 = n
    BY <1>3, <2>1
  <2>3. f[n + 1] = Insert(f[n], added[n + 1])
    <3>1. f[n + 1] = Insert(f[(n + 1) - 1], added[n + 1])
      BY <1>1, <2>2
    <3>2. QED
      BY <2>2, <3>1
  <2>4. added[n + 1] \in Row /\ RowOf(<<"marks", 0>>) = Row
    BY <2>2 DEF RowOf
  <2>8. ASSUME NEW l \in Seq(Row), NEW r \in Row
        PROVE  /\ Insert(l, r) \in Seq(Row)
               /\ \A x : x \in ToSet(Insert(l, r)) <=> x \in ToSet(l) \/ x = r
    <3>1. l \in Seq(RowOf(<<"marks", 0>>)) /\ r \in RowOf(<<"marks", 0>>)
      BY <2>4
    <3>2. QED
      BY <2>4, <3>1, InsertTyped
  <2>5. f[n + 1] \in Seq(Row)
        /\ \A x : x \in ToSet(f[n + 1]) <=> x \in ToSet(f[n]) \/ x = added[n + 1]
    <3>1. f[n] \in Seq(Row) /\ added[n + 1] \in Row
      BY <2>2, <2>4
    <3>2. /\ Insert(f[n], added[n + 1]) \in Seq(Row)
          /\ \A x : x \in ToSet(Insert(f[n], added[n + 1])) <=> x \in ToSet(f[n]) \/ x = added[n + 1]
      BY <2>8, <3>1
    <3>3. QED
      BY <2>3, <3>2
  <2>6. \A x : (\E i \in 1 .. n + 1 : x = added[i]) <=> (\E i \in 1 .. n : x = added[i]) \/ x = added[n + 1]
    OBVIOUS
  <2>7. QED
    BY <2>2, <2>5, <2>6
<1>4. Nat \subseteq T
  BY <1>2, <1>3, Induction
<1>5. Len(added) \in Nat /\ Len(added) \in T
  BY <1>4
<1>6. Good(Len(added))
  BY <1>5
<1>7. \A x : x \in ToSet(added) <=> \E i \in 1 .. Len(added) : x = added[i]
  BY DEF ToSet
<1>8. QED
  BY <1>1, <1>6, <1>7

LEMMA MarkElements ==
  ASSUME RawTyped
  PROVE  /\ MarkRows(raw) \in Seq(Row)
         /\ \A x \in ToSet(MarkRows(raw)) :
               \/ \E a \in Archives : a[1] = "marks" /\ x \in ToSet(raw[a].rows)
               \/ x.time >= 0 /\ \E a \in Archives : a[1] = "fill" /\ x \in ToSet(raw[a].rows)
<1> DEFINE monthly == Joined(raw, "marks")
           taken == {row.time : row \in ToSet(monthly)}
           chosen == {row \in ToSet(FillRows(raw)) : row.time >= 0 /\ row.time \notin taken}
           added == Kept(FillRows(raw), chosen)
<1>1. monthly \in Seq(Row) /\ \A x \in ToSet(monthly) : \E a \in Archives : a[1] = "marks" /\ x \in ToSet(raw[a].rows)
  <2>1. RowOf(<<"marks", 0>>) = Row
    BY DEF RowOf
  <2>2. QED
    BY <2>1, JoinedElements
<1>2. FillRows(raw) \in Seq(Row)
      /\ \A x \in ToSet(FillRows(raw)) : \E a \in Archives : a[1] = "fill" /\ x \in ToSet(raw[a].rows)
  BY FillElements
<1>3. added \in Seq(Row) /\ \A x \in ToSet(added) : x \in ToSet(FillRows(raw)) /\ x \in chosen
  BY <1>2, KeptElements
<1>4. MarkRows(raw) = Completed(monthly, added)
  BY DEF MarkRows
<1>5. \A x \in chosen : x.time >= 0
  OBVIOUS
<1> HIDE DEF monthly, chosen, added
<1>6. MarkRows(raw) \in Seq(Row) /\ \A x \in ToSet(MarkRows(raw)) : x \in ToSet(monthly) \/ x \in ToSet(added)
  BY <1>1, <1>3, <1>4, CompletedElements
<1>7. QED
  BY <1>1, <1>2, <1>3, <1>5, <1>6

-----------------------------------------------------------------------------
(* What the checks of the series establish. *)

LEMMA VerifiedRows ==
  ASSUME RawTyped, NEW a \in Archives, Verified(a, raw[a]), NEW x \in ToSet(raw[a].rows)
  PROVE  /\ a[1] = "bars" => x.end = x.time + BarInterval - 1 /\ x.end < WindowEnd
         /\ a[1] \in {"marks", "fill"} => x.end = x.time + MarkInterval - 1
<1>1. PICK i \in DOMAIN raw[a].rows : x = raw[a].rows[i]
  BY DEF ToSet
<1>2. CASE a[1] = "bars"
  <2>1. ValidKlineRow(x, BarInterval, 0)
    BY <1>1, <1>2 DEF Verified, Interval
  <2>2. QED
    BY <1>2, <2>1 DEF ValidKlineRow
<1>3. CASE a[1] = "marks"
  <2>1. ValidKlineRow(x, MarkInterval, 0)
    BY <1>1, <1>3 DEF Verified, Interval
  <2>2. QED
    BY <1>3, <2>1 DEF ValidKlineRow
<1>4. CASE a[1] = "fill"
  <2>1. ValidKlineRow(x, MarkInterval, -DayLength)
    BY <1>1, <1>4 DEF Verified
  <2>2. QED
    BY <1>4, <2>1 DEF ValidKlineRow
<1>5. QED
  BY <1>2, <1>3, <1>4

(* The bars that passed are every bar of the window. *)
LEMMA BarsWhole ==
  ASSUME RawTyped, AllVerified(raw, "bars"), ValidKlineSeries(Joined(raw, "bars"), BarInterval, {})
  PROVE  Events("bars", Joined(raw, "bars"))
            = [i \in 1 .. WindowEnd \div BarInterval |-> i * BarInterval - 1]
<1> DEFINE J == Joined(raw, "bars")
           n == Len(J)
<1>1. J \in Seq(Row) /\ n \in Nat /\ DOMAIN J = 1 .. n /\ J # <<>>
  <2>1. RowOf(<<"bars", 0>>) = Row
    BY DEF RowOf
  <2>2. J \in Seq(Row)
    BY <2>1, JoinedElements
  <2>3. QED
    BY <2>2 DEF ValidKlineSeries
<1>2. \A i \in 1 .. n : J[i] \in Row /\ J[i].end = J[i].time + BarInterval - 1
  <2>1. SUFFICES ASSUME NEW i \in 1 .. n PROVE J[i].end = J[i].time + BarInterval - 1
    BY <1>1
  <2>2. J[i] \in ToSet(J)
    BY <1>1 DEF ToSet
  <2>3. PICK a \in Archives : a[1] = "bars" /\ J[i] \in ToSet(raw[a].rows)
    BY <2>2, JoinedElements
  <2>4. QED
    BY <2>3, VerifiedRows DEF AllVerified
<1>3. J[1].time = 0 /\ J[n].time + BarInterval = WindowEnd
  BY DEF ValidKlineSeries, Last
<1>4. \A i \in 2 .. n : J[i].time - J[i-1].time = BarInterval
  <2>1. Gaps(J, BarInterval) = {}
    BY DEF ValidKlineSeries
  <2>2. \A i \in 2 .. n : i \in DOMAIN J /\ i > 1
    BY <1>1
  <2> HIDE DEF J
  <2>3. QED
    BY <2>1, <2>2 DEF Gaps
<1>5. BarInterval \in Nat \ {0} /\ WindowEnd \in Nat \ {0}
  BY ClockFacts
<1>6. \A i \in 1 .. n : J[i].time \in Int
  BY <1>2 DEF Row
<1> HIDE DEF J, n
<1> DEFINE T == {i \in Nat : i + 1 <= n => J[i + 1].time = i * BarInterval}
<1>7. 0 \in T
  BY <1>3, <1>5
<1>8. ASSUME NEW i \in Nat, i \in T PROVE i + 1 \in T
  <2>1. SUFFICES ASSUME i + 2 <= n PROVE J[i + 2].time = (i + 1) * BarInterval
    <3>1. (i + 1) + 1 = i + 2
      OBVIOUS
    <3>2. QED
      BY <2>1, <3>1
  <2>2. J[i + 1].time = i * BarInterval
    BY <1>1, <1>8, <2>1
  <2>3. i + 2 \in 2 .. n /\ (i + 2) - 1 = i + 1 /\ i + 1 \in 1 .. n /\ i + 2 \in 1 .. n
    BY <1>1, <2>1
  <2>4. J[i + 2].time - J[i + 1].time = BarInterval
    BY <1>4, <2>3
  <2>5. (i + 1) * BarInterval = i * BarInterval + BarInterval
    BY <1>5
  <2>6. QED
    BY <1>5, <1>6, <2>2, <2>3, <2>4, <2>5
<1>9. Nat \subseteq T
  BY <1>7, <1>8, Induction
<1>10. \A i \in 1 .. n : J[i].time = (i - 1) * BarInterval
  <2>1. SUFFICES ASSUME NEW i \in 1 .. n PROVE J[i].time = (i - 1) * BarInterval
    OBVIOUS
  <2>2. i - 1 \in Nat /\ (i - 1) + 1 = i /\ i <= n
    BY <1>1
  <2>3. i - 1 \in T
    BY <1>9, <2>2
  <2>4. QED
    BY <2>2, <2>3
<1>11. \A i \in 1 .. n : J[i].end = i * BarInterval - 1
  <2>1. SUFFICES ASSUME NEW i \in 1 .. n PROVE J[i].end = i * BarInterval - 1
    OBVIOUS
  <2>2. J[i].end = (i - 1) * BarInterval + BarInterval - 1
    BY <1>2, <1>10
  <2>3. (i - 1) * BarInterval + BarInterval = i * BarInterval
    BY <1>1, <1>5
  <2>4. QED
    BY <1>1, <1>5, <2>2, <2>3
<1>12. n = WindowEnd \div BarInterval
  <2>1. n \in 1 .. n
    BY <1>1
  <2>2. (n - 1) * BarInterval + BarInterval = WindowEnd
    BY <1>3, <1>10, <2>1
  <2>3. (n - 1) * BarInterval + BarInterval = n * BarInterval + 0
    BY <1>1, <1>5
  <2>4. WindowEnd = n * BarInterval + 0 /\ 0 \in 0 .. BarInterval - 1
    BY <1>5, <2>2, <2>3
  <2>5. QED
    BY <1>1, <1>5, <2>4, DivisionUnique
<1>13. Events("bars", J) = [i \in 1 .. n |-> J[i].end]
  BY <1>1 DEF Events
<1>14. QED
  BY <1>11, <1>12, <1>13 DEF J

(* The marks that passed miss no interval but one that may be omitted. *)
LEMMA MarksWhole ==
  ASSUME RawTyped, AllVerified(raw, "marks"), AllVerified(raw, "fill"), ValidMarkSeries(MarkRows(raw)),
         NEW t \in 0 .. WindowEnd - 1, t % MarkInterval = 0
  PROVE  t + MarkInterval - 1 \in ToSet(Events("marks", MarkRows(raw))) \/ t \in Omitted
<1> DEFINE M == MarkRows(raw)
           n == Len(M)
           times(k) == {M[i].time : i \in 1 .. k}
<1>1. M \in Seq(Row) /\ n \in Nat /\ DOMAIN M = 1 .. n /\ M # <<>>
  BY MarkElements DEF ValidMarkSeries, ValidKlineSeries
<1>2. \A i \in 1 .. n : M[i].time \in Int /\ M[i].end = M[i].time + MarkInterval - 1
  <2>1. SUFFICES ASSUME NEW i \in 1 .. n PROVE M[i].time \in Int /\ M[i].end = M[i].time + MarkInterval - 1
    OBVIOUS
  <2>2. M[i] \in ToSet(M) /\ M[i] \in Row
    BY <1>1 DEF ToSet
  <2>3. PICK a \in Archives : a[1] \in {"marks", "fill"} /\ M[i] \in ToSet(raw[a].rows)
    BY <2>2, MarkElements
  <2>4. Verified(a, raw[a])
    BY <2>3 DEF AllVerified
  <2>5. QED
    BY <2>2, <2>3, <2>4, VerifiedRows DEF Row
<1>3. M[1].time = 0 /\ M[n].time + MarkInterval = WindowEnd
  BY DEF ValidMarkSeries, ValidKlineSeries, Last
<1>4. \A i \in Gaps(M, MarkInterval) : <<M[i-1].time, M[i].time>> \in AllowedGaps
  BY DEF ValidMarkSeries, ValidKlineSeries
<1>5. MarkInterval \in Nat \ {0} /\ WindowEnd \in Nat \ {0} /\ t \in Nat
  BY ClockFacts
<1> HIDE DEF M, n
<1>6. \A i \in 1 .. n - 1 : \/ M[i + 1].time = M[i].time + MarkInterval
                            \/ /\ M[i + 1].time = M[i].time + 2 * MarkInterval
                               /\ M[i].time + MarkInterval \in Omitted
  <2>1. SUFFICES ASSUME NEW i \in 1 .. n - 1, M[i + 1].time # M[i].time + MarkInterval
                 PROVE  /\ M[i + 1].time = M[i].time + 2 * MarkInterval
                        /\ M[i].time + MarkInterval \in Omitted
    OBVIOUS
  <2>2. i + 1 \in 1 .. n /\ i + 1 > 1 /\ (i + 1) - 1 = i /\ i \in 1 .. n
    BY <1>1
  <2>3. M[i + 1].time - M[i].time # MarkInterval
    BY <1>2, <1>5, <2>1, <2>2
  <2>4. i + 1 \in Gaps(M, MarkInterval)
    BY <1>1, <2>2, <2>3 DEF Gaps
  <2>5. <<M[i].time, M[i + 1].time>> \in AllowedGaps
    BY <1>4, <2>2, <2>4
  <2>6. QED
    BY <2>5, ClockAssumption, SMTT(30) DEF Omitted
<1> DEFINE T == {k \in Nat : k + 1 <= n =>
                   /\ M[k + 1].time % MarkInterval = 0
                   /\ t <= M[k + 1].time => t \in times(k + 1) \/ t \in Omitted}
<1>7. 0 \in T
  <2>1. 0 % MarkInterval = 0
    <3>1. 0 = 0 * MarkInterval + 0 /\ 0 \in 0 .. MarkInterval - 1
      BY <1>5
    <3>2. QED
      BY <1>5, <3>1, DivisionUnique
  <2>2. t <= 0 => t = M[1].time
    BY <1>3, <1>5
  <2>3. 1 \in 1 .. 0 + 1
    OBVIOUS
  <2>4. QED
    BY <1>3, <2>1, <2>2, <2>3
<1>8. ASSUME NEW k \in Nat, k \in T PROVE k + 1 \in T
  <2> DEFINE a == M[k + 1].time
             b == M[k + 2].time
  <2>1. SUFFICES ASSUME k + 2 <= n
                 PROVE  /\ b % MarkInterval = 0
                        /\ t <= b => t \in times(k + 2) \/ t \in Omitted
    <3>1. (k + 1) + 1 = k + 2
      OBVIOUS
    <3>2. QED
      BY <2>1, <3>1
  <2>2. /\ a % MarkInterval = 0
        /\ t <= a => t \in times(k + 1) \/ t \in Omitted
    BY <1>1, <1>8, <2>1
  <2>3. k + 1 \in 1 .. n - 1 /\ k + 1 \in 1 .. n /\ k + 2 \in 1 .. n /\ (k + 1) + 1 = k + 2
    BY <1>1, <2>1
  <2>4. times(k + 1) \subseteq times(k + 2) /\ b \in times(k + 2)
    OBVIOUS
  <2>5. a \in Int /\ b \in Int
    BY <1>2, <2>3
  <2>6. \/ b = a + MarkInterval
        \/ b = a + 2 * MarkInterval /\ a + MarkInterval \in Omitted
    BY <1>6, <2>3
  <2> HIDE DEF a, b, times
  <2>7. a + MarkInterval \in Int /\ (a + MarkInterval) % MarkInterval = 0
    <3>1. a + MarkInterval \in Int
      BY <1>5, <2>5
    <3>2. (a + MarkInterval) % MarkInterval = 0
      BY <1>5, <2>2, <2>5, AddModulus, Zenon
    <3>3. QED
      BY <3>1, <3>2
  <2>8. (a + MarkInterval + MarkInterval) % MarkInterval = 0
    BY <1>5, <2>7, AddModulus
  <2>9. a + MarkInterval + MarkInterval = a + 2 * MarkInterval
    BY <1>5, <2>5
  <2>10. b % MarkInterval = 0
    BY <2>6, <2>7, <2>8, <2>9
  <2>11. ASSUME a < t, t <= a + MarkInterval PROVE t = a + MarkInterval
    <3>1. t \in Int
      BY <1>5
    <3>2. QED
      BY <1>5, <2>2, <2>5, <2>11, <3>1, NextMultiple, Zenon
  <2>12. ASSUME a + MarkInterval < t, t <= a + MarkInterval + MarkInterval
         PROVE  t = a + MarkInterval + MarkInterval
    BY <1>5, <2>7, <2>12, NextMultiple
  <2>13. ASSUME t <= b PROVE t \in times(k + 2) \/ t \in Omitted
    <3>1. CASE t <= a
      BY <2>2, <2>4, <3>1
    <3>2. CASE a < t /\ t <= a + MarkInterval
      BY <2>4, <2>6, <2>11, <3>2
    <3>3. CASE a + MarkInterval < t
      <4>1. b = a + 2 * MarkInterval
        BY <1>5, <2>5, <2>6, <2>13, <3>3
      <4>2. t = b
        BY <2>9, <2>12, <2>13, <3>3, <4>1
      <4>3. QED
        BY <2>4, <4>2
    <3>4. QED
      BY <1>5, <2>5, <3>1, <3>2, <3>3
  <2>14. QED
    BY <2>10, <2>13
<1>9. Nat \subseteq T
  BY <1>7, <1>8, Induction
<1>10. /\ M[n].time % MarkInterval = 0
       /\ t <= M[n].time => t \in times(n) \/ t \in Omitted
  <2>1. n - 1 \in Nat /\ (n - 1) + 1 = n
    BY <1>1 DEF M, n
  <2>2. n - 1 \in T
    BY <1>9, <2>1
  <2>3. QED
    BY <1>1, <2>1, <2>2
<1>11. t <= M[n].time
  <2>1. n \in 1 .. n /\ M[n].time \in Int
    BY <1>1, <1>2 DEF M, n
  <2>2. SUFFICES ASSUME M[n].time < t PROVE FALSE
    BY <1>5, <2>1
  <2>3. t <= M[n].time + MarkInterval /\ t # M[n].time + MarkInterval
    BY <1>3, <1>5, <2>1
  <2>4. QED
    BY <1>5, <1>10, <2>1, <2>2, <2>3, NextMultiple
<1>12. CASE t \in times(n)
  <2>1. PICK i \in 1 .. n : t = M[i].time
    BY <1>12
  <2>2. Events("marks", M)[i] = t + MarkInterval - 1 /\ i \in DOMAIN Events("marks", M)
    BY <1>1, <1>2, <2>1 DEF Events
  <2>3. QED
    BY <2>2 DEF ToSet, M
<1>13. QED
  BY <1>10, <1>11, <1>12

-----------------------------------------------------------------------------
(* The homology of the splits finds an event that is lost or written twice. *)

LEMMA StrictIncreases ==
  ASSUME NEW s \in Seq(Int), Strict(s), NEW i \in DOMAIN s, NEW j \in DOMAIN s, i < j
  PROVE  s[i] < s[j]
<1>1. DOMAIN s = 1 .. Len(s) /\ Len(s) \in Nat
  OBVIOUS
<1> DEFINE T == {k \in Nat : i + k + 1 <= Len(s) => s[i] < s[i + k + 1]}
<1>2. ASSUME NEW k \in 2 .. Len(s) PROVE s[k-1] < s[k]
  <2>1. k \in DOMAIN s \ {1}
    BY <1>1
  <2>2. \A n \in DOMAIN s \ {1} : s[n-1] < s[n]
    BY DEF Strict
  <2>3. QED
    BY <2>1, <2>2
<1>3. \A k \in 1 .. Len(s) : s[k] \in Int
  BY <1>1
<1>4. 0 \in T
  <2>1. SUFFICES ASSUME i + 1 <= Len(s) PROVE s[i] < s[i + 1]
    BY <1>1
  <2>2. i + 1 \in 2 .. Len(s) /\ (i + 1) - 1 = i
    BY <1>1, <2>1
  <2>3. QED
    BY <1>2, <2>2
<1>5. ASSUME NEW k \in Nat, k \in T PROVE k + 1 \in T
  <2> DEFINE m == i + k + 1
  <2>1. i + (k + 1) + 1 = m + 1
    BY <1>1
  <2>2. SUFFICES ASSUME m + 1 <= Len(s) PROVE s[i] < s[m + 1]
    BY <2>1
  <2>3. m + 1 \in 2 .. Len(s) /\ (m + 1) - 1 = m /\ m \in 1 .. Len(s) /\ m + 1 \in 1 .. Len(s)
    BY <1>1, <2>2, SMTT(30)
  <2>4. s[i] < s[m]
    BY <1>5, <2>3
  <2> HIDE DEF m
  <2>5. s[m] < s[m + 1]
    BY <1>2, <2>3
  <2>6. QED
    BY <1>1, <1>3, <2>3, <2>4, <2>5
<1>6. Nat \subseteq T
  BY <1>4, <1>5, Induction
<1>7. j - i - 1 \in Nat /\ i + (j - i - 1) + 1 = j /\ j <= Len(s)
  BY <1>1
<1>8. j - i - 1 \in T
  BY <1>6, <1>7
<1>9. QED
  BY <1>7, <1>8

LEMMA ElementCount ==
  ASSUME NEW S, NEW s \in Seq(S)
  PROVE  IsFiniteSet(ToSet(s)) /\ Cardinality(ToSet(s)) \in Nat /\ Cardinality(ToSet(s)) <= Len(s)
<1>1. DOMAIN s = 1 .. Len(s) /\ Len(s) \in Nat
  OBVIOUS
<1> DEFINE f == [i \in 1 .. Len(s) |-> s[i]]
<1>2. f \in Surjection(1 .. Len(s), ToSet(s))
  BY <1>1 DEF Surjection, ToSet
<1>3. IsFiniteSet(1 .. Len(s)) /\ Cardinality(1 .. Len(s)) = Len(s)
  BY <1>1, FS_Interval
<1>4. IsFiniteSet(ToSet(s)) /\ Cardinality(ToSet(s)) <= Cardinality(1 .. Len(s))
  BY <1>2, <1>3, FS_Surjection
<1>5. QED
  BY <1>3, <1>4, FS_CardinalityType

(* A series that repeats an element of S keeps more of S than there is. *)
LEMMA RepeatNotStrict ==
  ASSUME NEW s \in Seq(Int), NEW S, NEW i \in DOMAIN s, NEW j \in DOMAIN s,
         i # j, s[i] = s[j], s[i] \in S, Strict(Kept(s, S))
  PROVE  FALSE
<1> DEFINE I == {k \in DOMAIN s : s[k] \in S}
           K == Kept(s, S)
           f == [k \in I \ {i} |-> s[k]]
           g == [k \in 1 .. Len(K) |-> K[k]]
<1>1. K \in Seq(Int) /\ Len(K) = Cardinality(I) /\ \A x : x \in ToSet(K) <=> x \in ToSet(s) /\ x \in S
  <2>1. K \in Seq(Int) /\ \A x : x \in ToSet(K) <=> x \in ToSet(s) /\ x \in S
    BY KeptElements
  <2>2. Len(K) = Cardinality(I)
    BY KeptCount
  <2>3. QED
    BY <2>1, <2>2
<1>2. IsFiniteSet(I) /\ Cardinality(I) \in Nat
  <2>1. DOMAIN s = 1 .. Len(s) /\ Len(s) \in Nat
    OBVIOUS
  <2>2. IsFiniteSet(DOMAIN s)
    BY <2>1, FS_Interval
  <2>3. I \in SUBSET DOMAIN s
    OBVIOUS
  <2>4. QED
    BY <2>2, <2>3, FS_Subset, FS_CardinalityType
<1>3. i \in I /\ j \in I \ {i}
  OBVIOUS
<1>4. IsFiniteSet(I \ {i}) /\ Cardinality(I \ {i}) = Cardinality(I) - 1
  BY <1>2, <1>3, FS_RemoveElement
<1>5. f \in Surjection(I \ {i}, ToSet(K))
  <2>1. \A k \in I \ {i} : f[k] \in ToSet(K)
    BY <1>1 DEF ToSet
  <2>2. ASSUME NEW x \in ToSet(K) PROVE \E k \in I \ {i} : f[k] = x
    <3>1. PICK k \in I : s[k] = x
      BY <1>1 DEF ToSet
    <3>2. CASE k = i
      BY <1>3, <3>1, <3>2
    <3>3. CASE k # i
      BY <3>1, <3>3
    <3>4. QED
      BY <3>2, <3>3
  <2>3. QED
    BY <2>1, <2>2 DEF Surjection
<1>6. Cardinality(ToSet(K)) <= Cardinality(I) - 1 /\ IsFiniteSet(ToSet(K))
  BY <1>4, <1>5, FS_Surjection
<1>7. g \in Injection(1 .. Len(K), ToSet(K))
  <2>1. DOMAIN K = 1 .. Len(K) /\ Len(K) \in Nat
    BY <1>1
  <2>2. \A k \in 1 .. Len(K) : g[k] \in ToSet(K)
    BY <2>1 DEF ToSet
  <2>3. ASSUME NEW k \in 1 .. Len(K), NEW m \in 1 .. Len(K), g[k] = g[m] PROVE k = m
    <3>1. K[k] = K[m] /\ K[k] \in Int
      BY <1>1, <2>3
    <3>a. Strict(K) /\ k \in DOMAIN K /\ m \in DOMAIN K
      BY <2>1
    <3> HIDE DEF K
    <3>2. CASE k < m
      <4>1. K[k] < K[m]
        BY <1>1, <3>a, <3>2, StrictIncreases
      <4>2. QED
        BY <3>1, <4>1
    <3>3. CASE m < k
      <4>1. K[m] < K[k]
        BY <1>1, <3>a, <3>3, StrictIncreases
      <4>2. QED
        BY <3>1, <4>1
    <3>4. QED
      BY <2>1, <3>2, <3>3
  <2>4. QED
    BY <2>2, <2>3 DEF Injection, IsInjective
<1>8. Cardinality(1 .. Len(K)) = Len(K)
  BY <1>1, <1>2, FS_Interval
<1>9. Len(K) <= Cardinality(ToSet(K))
  BY <1>6, <1>7, <1>8, FS_Injection
<1>10. QED
  BY <1>1, <1>2, <1>6, <1>9, FS_CardinalityType

SplitPart(times, i) == Within(times, Splits[i][1], Splits[i][2])
Positions(times) == UNION {{i} \X DOMAIN SplitPart(times, i) : i \in DOMAIN Splits}

(* The splits hold no more events than there are different ones. *)
LEMMA SplitsCount ==
  ASSUME NEW C \in Seq(Int), \A i \in DOMAIN Splits : Strict(SplitPart(C, i))
  PROVE  /\ Cardinality(Positions(C)) <= Cardinality(ToSet(C))
         /\ Cardinality(Positions(C)) = Cardinality(ToSet(C)) =>
               \A v \in ToSet(C) : \E i \in DOMAIN Splits : v \in Splits[i][1] .. Splits[i][2] - 1
<1> DEFINE P == Positions(C)
           g == [p \in P |-> SplitPart(C, p[1])[p[2]]]
<1>1. \A i \in DOMAIN Splits : Splits[i][1] \in Int /\ Splits[i][2] \in Int
  BY DatasetAssumption
<1>2. ASSUME NEW i \in DOMAIN Splits
      PROVE  /\ SplitPart(C, i) \in Seq(Int)
             /\ \A x : x \in ToSet(SplitPart(C, i)) <=> x \in ToSet(C) /\ x \in Splits[i][1] .. Splits[i][2] - 1
  BY KeptElements DEF SplitPart, Within
<1>3. \A p \in P : p[1] \in DOMAIN Splits /\ p[2] \in DOMAIN SplitPart(C, p[1]) /\ p = <<p[1], p[2]>>
  BY DEF Positions
<1>4. \A p \in P : g[p] \in ToSet(SplitPart(C, p[1]))
  BY <1>3 DEF ToSet
<1>5. \A p \in P : g[p] \in ToSet(C) /\ g[p] \in Splits[p[1]][1] .. Splits[p[1]][2] - 1
  BY <1>2, <1>3, <1>4
<1>6. ASSUME NEW p \in P, NEW q \in P, g[p] = g[q] PROVE p = q
  <2>1. p[1] \in DOMAIN Splits /\ q[1] \in DOMAIN Splits /\ DOMAIN Splits = 1 .. Len(Splits) /\ Len(Splits) \in Nat
    BY <1>3, DatasetAssumption
  <2>2. g[p] \in Splits[p[1]][1] .. Splits[p[1]][2] - 1 /\ g[p] \in Splits[q[1]][1] .. Splits[q[1]][2] - 1
    BY <1>5, <1>6
  <2>3. p[1] = q[1]
    <3>1. \A i, j \in DOMAIN Splits : i < j => Splits[i][2] <= Splits[j][1]
      BY DatasetAssumption
    <3> HIDE DEF g
    <3>2. ~ (p[1] < q[1])
      BY <1>1, <2>1, <2>2, <3>1, SMTT(30)
    <3>3. ~ (q[1] < p[1])
      BY <1>1, <2>1, <2>2, <3>1, SMTT(30)
    <3>4. QED
      BY <2>1, <3>2, <3>3
  <2> DEFINE part == SplitPart(C, p[1])
  <2>4. part \in Seq(Int) /\ Strict(part) /\ p[2] \in DOMAIN part /\ q[2] \in DOMAIN part /\ part[p[2]] = part[q[2]]
    BY <1>2, <1>3, <1>6, <2>1, <2>3
  <2> HIDE DEF part, g
  <2>5. DOMAIN part = 1 .. Len(part) /\ Len(part) \in Nat /\ part[p[2]] \in Int
    BY <2>4
  <2>6. ~ (p[2] < q[2]) /\ ~ (q[2] < p[2])
    <3>1. ASSUME p[2] < q[2] PROVE FALSE
      <4>1. part[p[2]] < part[q[2]]
        BY <2>4, <3>1, StrictIncreases
      <4>2. QED
        BY <2>4, <2>5, <4>1
    <3>2. ASSUME q[2] < p[2] PROVE FALSE
      <4>1. part[q[2]] < part[p[2]]
        BY <2>4, <3>2, StrictIncreases
      <4>2. QED
        BY <2>4, <2>5, <4>1
    <3>3. QED
      BY <3>1, <3>2
  <2>7. p[2] = q[2]
    BY <2>4, <2>5, <2>6
  <2>8. QED
    BY <1>3, <2>3, <2>7
<1>7. g \in Injection(P, ToSet(C))
  BY <1>5, <1>6 DEF Injection, IsInjective
<1>8. IsFiniteSet(ToSet(C))
  BY ElementCount
<1>9. Cardinality(P) <= Cardinality(ToSet(C)) /\ (Cardinality(P) = Cardinality(ToSet(C)) => g \in Surjection(P, ToSet(C)))
  BY <1>7, <1>8, FS_Injection
<1>10. ASSUME g \in Surjection(P, ToSet(C)), NEW v \in ToSet(C)
       PROVE  \E i \in DOMAIN Splits : v \in Splits[i][1] .. Splits[i][2] - 1
  <2>1. PICK p \in P : g[p] = v
    BY <1>10 DEF Surjection
  <2>2. QED
    BY <1>3, <1>5, <2>1
<1> HIDE DEF g
<1>11. QED
  BY <1>9, <1>10

LEMMA Inserted ==
  ASSUME NEW S, NEW s \in Seq(S), NEW i \in 1 .. Len(s) + 1, NEW e \in S, NEW j \in 1 .. Len(s) + 1
  PROVE  InsertAt(s, i, e)[j] = IF j < i THEN s[j] ELSE IF j = i THEN e ELSE s[j-1]
<1>1. \A k \in 1 .. Len(s) + 1 :
           InsertAt(s, i, e)[k] = IF k < i THEN s[k] ELSE IF k = i THEN e ELSE s[k-1]
  BY InsertElements
<1>2. QED
  BY <1>1

(* An element written twice. *)
LEMMA DoubledElements ==
  ASSUME NEW S, NEW s \in Seq(S), NEW i \in DOMAIN s
  PROVE  /\ InsertAt(s, i, s[i]) \in Seq(S)
         /\ Len(InsertAt(s, i, s[i])) = Len(s) + 1
         /\ \A x : x \in ToSet(InsertAt(s, i, s[i])) <=> x \in ToSet(s) \/ x = s[i]
<1>1. s[i] \in S /\ i \in 1 .. Len(s) + 1
  OBVIOUS
<1>2. ASSUME NEW e \in S
      PROVE  /\ InsertAt(s, i, e) \in Seq(S)
             /\ Len(InsertAt(s, i, e)) = Len(s) + 1
             /\ \A x : x \in ToSet(InsertAt(s, i, e)) <=> x \in ToSet(s) \/ x = e
  BY <1>1, InsertElements
<1>3. QED
  BY <1>1, <1>2

LEMMA HomologyFindsTheChange ==
  ASSUME NEW F \in Seq(Int), NEW C \in Miswritten(F) \cup {F},
         \A i \in DOMAIN Splits : Strict(SplitPart(C, i)),
         Cardinality(Positions(C)) = Len(F)
  PROVE  C = F
<1>1. DOMAIN F = 1 .. Len(F) /\ Len(F) \in Nat /\ \A i \in DOMAIN F : F[i] \in Int
  OBVIOUS
<1>2. ASSUME NEW i \in DOMAIN F, C = RemoveAt(F, i) PROVE FALSE
  <2>1. C \in Seq(Int) /\ Len(C) = Len(F) - 1
    BY <1>2, RemoveElements
  <2>2. Cardinality(ToSet(C)) <= Len(C) /\ Cardinality(ToSet(C)) \in Nat
    BY <2>1, ElementCount
  <2>3. Len(F) <= Cardinality(ToSet(C))
    BY <2>1, SplitsCount
  <2>4. QED
    BY <1>1, <2>1, <2>2, <2>3
<1>3. ASSUME NEW i \in DOMAIN F, C = InsertAt(F, i, F[i]) PROVE FALSE
  <2>1. i \in 1 .. Len(F) + 1 /\ i + 1 \in 1 .. Len(F) + 1 /\ i \in Int /\ F[i] \in Int
    BY <1>1
  <2>2. /\ C \in Seq(Int) /\ Len(C) = Len(F) + 1
        /\ \A x : x \in ToSet(C) <=> x \in ToSet(F) \/ x = F[i]
        /\ \A j \in 1 .. Len(F) + 1 : C[j] = IF j < i THEN F[j] ELSE IF j = i THEN F[i] ELSE F[j-1]
    <3>1. /\ InsertAt(F, i, F[i]) \in Seq(Int) /\ Len(InsertAt(F, i, F[i])) = Len(F) + 1
          /\ \A x : x \in ToSet(InsertAt(F, i, F[i])) <=> x \in ToSet(F) \/ x = F[i]
      BY DoubledElements
    <3>2. ASSUME NEW j \in 1 .. Len(F) + 1
          PROVE  InsertAt(F, i, F[i])[j] = IF j < i THEN F[j] ELSE IF j = i THEN F[i] ELSE F[j-1]
      BY <2>1, Inserted, SMTT(30)
    <3>3. QED
      BY <1>3, <3>1, <3>2
  <2>3. C[i] = F[i] /\ C[i + 1] = F[i]
    <3>1. (i + 1) - 1 = i /\ ~ (i + 1 < i) /\ i + 1 # i
      BY <2>1
    <3>2. C[i + 1] = F[(i + 1) - 1]
      BY <2>1, <2>2, <3>1
    <3>3. QED
      BY <2>1, <2>2, <3>1, <3>2
  <2>4. F[i] \in ToSet(F)
    BY DEF ToSet
  <2>5. \A x : x \in ToSet(C) <=> x \in ToSet(F)
    BY <2>2, <2>4
  <2>6. ToSet(C) = ToSet(F)
    BY <2>5
  <2>7. Cardinality(ToSet(C)) <= Len(F) /\ Cardinality(ToSet(C)) \in Nat
    BY <2>6, ElementCount
  <2>8. Cardinality(Positions(C)) = Cardinality(ToSet(C))
    BY <1>1, <2>2, <2>7, SplitsCount
  <2>9. PICK k \in DOMAIN Splits : F[i] \in Splits[k][1] .. Splits[k][2] - 1
    BY <2>2, <2>4, <2>8, SplitsCount
  <2>10. Strict(Kept(C, Splits[k][1] .. Splits[k][2] - 1))
    BY DEF SplitPart, Within
  <2>11. i \in DOMAIN C /\ i + 1 \in DOMAIN C /\ i # i + 1
    BY <2>1, <2>2
  <2>12. QED
    BY <2>2, <2>3, <2>9, <2>10, <2>11, RepeatNotStrict, ZenonT(60)
<1>4. QED
  BY <1>2, <1>3 DEF Miswritten

-----------------------------------------------------------------------------
(* What the other checks of the loaders give. *)

LEMMA FundingRows ==
  ASSUME RawTyped
  PROVE  LET J == Joined(raw, "funding")
         IN  /\ J \in Seq(Row) /\ Len(J) \in Nat /\ DOMAIN J = 1 .. Len(J)
             /\ \A i \in DOMAIN J : J[i].time \in Int /\ J[i].end \in Int /\ J[i].end <= FundingInterval
             /\ Events("funding", J) \in Seq(Int)
             /\ Len(Events("funding", J)) = Len(J)
             /\ \A i \in DOMAIN J : Events("funding", J)[i] = J[i].time
<1> DEFINE J == Joined(raw, "funding")
           E == Events("funding", J)
           S == {row \in Row : row.end <= FundingInterval}
<1>1. J \in Seq(S)
  <2>1. RowOf(<<"funding", 0>>) = S
    BY DEF RowOf
  <2>2. QED
    BY <2>1, JoinedElements
<1> HIDE DEF J
<1>2. Len(J) \in Nat /\ DOMAIN J = 1 .. Len(J) /\ \A i \in DOMAIN J : J[i] \in S
  BY <1>1
<1>3. J \in Seq(Row)
  <2>1. S \subseteq Row
    OBVIOUS
  <2>2. QED
    BY <1>1, <2>1, SeqMonotonic
<1>4. \A i \in DOMAIN J : J[i].time \in Int /\ J[i].end \in Int /\ J[i].end <= FundingInterval
  BY <1>2 DEF Row
<1>5. E = [i \in DOMAIN J |-> J[i].time]
  BY DEF Events
<1>6. E \in [1 .. Len(J) -> Int]
  BY <1>2, <1>4, <1>5
<1>7. E \in Seq(Int) /\ Len(E) = Len(J)
  BY <1>2, <1>6, IsASeq, LenProperties
<1>8. QED
  BY <1>2, <1>3, <1>4, <1>5, <1>7 DEF J

LEMMA FundingSteps ==
  ASSUME RawTyped, ValidFundingSeries(Joined(raw, "funding")),
         NEW i \in DOMAIN Events("funding", Joined(raw, "funding")) \ {1}
  PROVE  Events("funding", Joined(raw, "funding"))[i] - Events("funding", Joined(raw, "funding"))[i-1]
            \in 1 .. FundingInterval + FundingTolerance
<1> DEFINE J == Joined(raw, "funding")
           E == Events("funding", J)
<1>1. /\ Len(J) \in Nat /\ DOMAIN J = 1 .. Len(J)
      /\ \A k \in DOMAIN J : J[k].time \in Int /\ J[k].end \in Int /\ J[k].end <= FundingInterval
      /\ Len(E) = Len(J) /\ E \in Seq(Int)
      /\ \A k \in DOMAIN J : E[k] = J[k].time
  BY FundingRows
<1>2. DOMAIN E = 1 .. Len(J)
  BY <1>1
<1>3. i \in 1 .. Len(J) /\ i - 1 \in 1 .. Len(J) /\ i - 1 < i /\ i \in DOMAIN J \ {1}
  BY <1>1, <1>2
<1>4. J[i-1].time < J[i].time
  <2>1. \A k, m \in DOMAIN J : k < m => J[k].time < J[m].time
    BY DEF ValidFundingSeries, InOrder
  <2>2. QED
    BY <1>1, <1>3, <2>1
<1>5. J[i].time - J[i-1].time <= J[i-1].end + FundingTolerance
  <2>1. \A k \in DOMAIN J \ {1} : J[k].time - J[k-1].time <= J[k-1].end + FundingTolerance
    BY DEF ValidFundingSeries
  <2>2. QED
    BY <1>3, <2>1
<1>6. E[i] = J[i].time /\ E[i-1] = J[i-1].time
  BY <1>1, <1>3
<1>7. J[i].time \in Int /\ J[i-1].time \in Int /\ J[i-1].end \in Int /\ J[i-1].end <= FundingInterval
  BY <1>1, <1>3
<1>8. FundingInterval \in Nat /\ FundingTolerance \in Nat
  BY ClockFacts
<1> HIDE DEF J, E
<1>9. E[i] - E[i-1] \in 1 .. FundingInterval + FundingTolerance
  BY <1>4, <1>5, <1>6, <1>7, <1>8
<1>10. QED
  BY <1>9 DEF E, J

LEMMA FundingMarked ==
  ASSUME RawTyped, RecentMark(MarkRows(raw), EarlyRows(raw), Joined(raw, "funding")),
         NEW i \in DOMAIN Events("funding", Joined(raw, "funding"))
  PROVE  \E m \in ToSet(Events("marks", MarkRows(raw))) \cup {row.end : row \in EarlyRows(raw)} :
            Events("funding", Joined(raw, "funding"))[i] - m \in 0 .. MarkMaxAge
<1> DEFINE J == Joined(raw, "funding")
           M == MarkRows(raw)
<1>1. i \in DOMAIN J /\ Events("funding", J)[i] = J[i].time
  BY DEF Events
<1>2. PICK row \in ToSet(M) \cup EarlyRows(raw) : J[i].time - row.end \in 0 .. MarkMaxAge
  BY <1>1 DEF RecentMark
<1>3. CASE row \in ToSet(M)
  <2>1. PICK k \in DOMAIN M : row = M[k]
    BY <1>3 DEF ToSet
  <2>2. row.end \in ToSet(Events("marks", M))
    BY <2>1 DEF Events, ToSet
  <2>3. QED
    BY <1>1, <1>2, <2>2
<1>4. CASE row \in EarlyRows(raw)
  BY <1>1, <1>2, <1>4
<1>5. QED
  BY <1>2, <1>3, <1>4

LEMMA BarsAnswered ==
  ASSUME RawTyped, AllVerified(raw, "bars"), \A row \in ToSet(FetchedRows("bars")) : row.value = "v",
         NEW i \in DOMAIN Joined(raw, "bars"),
         Events("bars", Joined(raw, "bars"))[i] >= Crosscheck[1]
  PROVE  Joined(raw, "bars")[i].value = "v"
<1> DEFINE J == Joined(raw, "bars")
           S == {row \in ToSet(J) : Crosscheck[1] <= row.end /\ row.end < Crosscheck[2]}
<1>1. J \in Seq(Row) /\ J[i] \in ToSet(J) /\ J[i] \in Row
  <2>1. RowOf(<<"bars", 0>>) = Row
    BY DEF RowOf
  <2>2. J \in Seq(Row)
    BY <2>1, JoinedElements
  <2>3. QED
    BY <2>2 DEF ToSet
<1>2. PICK a \in Archives : a[1] = "bars" /\ J[i] \in ToSet(raw[a].rows)
  BY <1>1, JoinedElements
<1>3. J[i].end < WindowEnd
  <2>1. Verified(a, raw[a])
    BY <1>2 DEF AllVerified
  <2>2. QED
    BY <1>2, <2>1, VerifiedRows
<1>4. Crosscheck[1] <= J[i].end
  <2>1. Events("bars", J)[i] = J[i].end
    BY DEF Events
  <2>2. J[i].end \in Int /\ Crosscheck[1] \in Int
    BY <1>1, DatasetAssumption DEF Row
  <2>3. QED
    BY <2>1, <2>2
<1>5. J[i].end < Crosscheck[2]
  <2>1. J[i].end \in Int /\ Crosscheck[2] \in Int /\ Crosscheck[2] >= WindowEnd /\ WindowEnd \in Int
    BY <1>1, DatasetAssumption, ClockFacts DEF Row
  <2>2. QED
    BY <1>3, <2>1
<1>6. J[i] \in S
  BY <1>1, <1>4, <1>5
<1>7. FetchedRows("bars") = Kept(J, S)
  BY DEF FetchedRows
<1> HIDE DEF J, S
<1>8. J[i] \in ToSet(FetchedRows("bars"))
  BY <1>1, <1>6, <1>7, KeptElements
<1>9. QED
  BY <1>8 DEF J

-----------------------------------------------------------------------------
(* The stages up to the acceptance. *)

BarsGood ==
    AllVerified(raw, "bars") /\ ValidKlineSeries(Joined(raw, "bars"), BarInterval, {})
MarksGood ==
    /\ AllVerified(raw, "marks") /\ AllVerified(raw, "fill")
    /\ ValidMarkSeries(MarkRows(raw)) /\ ValidFundingSeries(Joined(raw, "funding"))
    /\ RecentMark(MarkRows(raw), EarlyRows(raw), Joined(raw, "funding"))
BarsAnswer == \A row \in ToSet(FetchedRows("bars")) : row.value = "v"
(* Bars and marks were read back, funding may have been miswritten. *)
CatalogWritten ==
    \E times \in Miswritten(SourceEvents.funding) \cup {SourceEvents.funding} :
        catalog = [SourceEvents EXCEPT !.funding = times]

Sound ==
    /\ RawTyped
    /\ stage \in {"bars", "loaded", "written", "checked", "accepted"} => BarsGood
    /\ stage \in {"loaded", "written", "checked", "accepted"} => MarksGood
    /\ stage \in {"written", "checked"} => CatalogWritten
    /\ stage \in {"checked", "accepted"} => BarsAnswer
    /\ stage = "accepted" => accepted.events = SourceEvents

LEMMA SoundIsWhole == Sound => AcceptedIsWhole
<1>1. SUFFICES ASSUME Sound, stage = "accepted" PROVE AcceptedIsWhole
  BY DEF AcceptedIsWhole
<1>2. /\ RawTyped /\ accepted.events = SourceEvents /\ BarsGood /\ MarksGood /\ BarsAnswer
  BY <1>1 DEF Sound
<1>3. /\ SourceEvents.bars = Events("bars", Joined(raw, "bars"))
      /\ SourceEvents.marks = Events("marks", MarkRows(raw))
      /\ SourceEvents.funding = Events("funding", Joined(raw, "funding"))
  BY DEF SourceEvents
<1>4. SourceEvents.bars = [i \in 1 .. WindowEnd \div BarInterval |-> i * BarInterval - 1]
  BY <1>2, <1>3, BarsWhole DEF BarsGood
<1>5. \A t \in {n \in 0 .. WindowEnd - 1 : n % MarkInterval = 0} :
         t + MarkInterval - 1 \in ToSet(SourceEvents.marks) \/ t \in Omitted
  BY <1>2, <1>3, MarksWhole DEF MarksGood
<1>6. \A i \in DOMAIN SourceEvents.funding \ {1} :
         SourceEvents.funding[i] - SourceEvents.funding[i-1] \in 1 .. FundingInterval + FundingTolerance
  BY <1>2, <1>3, FundingSteps DEF MarksGood
<1>7. \A i \in DOMAIN SourceEvents.funding :
         \E m \in ToSet(SourceEvents.marks) \cup {row.end : row \in EarlyRows(raw)} :
             SourceEvents.funding[i] - m \in 0 .. MarkMaxAge
  BY <1>2, <1>3, FundingMarked DEF MarksGood
<1>8. \A i \in DOMAIN Joined(raw, "bars") :
         SourceEvents.bars[i] >= Crosscheck[1] => Joined(raw, "bars")[i].value = "v"
  BY <1>2, <1>3, BarsAnswered DEF BarsGood, BarsAnswer
<1>9. QED
  BY <1>1, <1>2, <1>4, <1>5, <1>6, <1>7, <1>8 DEF AcceptedIsWhole

LEMMA SoundInit == Init => Sound
<1>1. SUFFICES ASSUME Init PROVE Sound
  OBVIOUS
<1>2. RawTyped /\ stage = "raw"
  BY <1>1, RawInit DEF Init
<1>3. QED
  BY <1>2 DEF Sound

(* The steps that leave the data as it is and lead to no stage in between. *)
LEMMA SoundKept ==
  ASSUME Sound, raw' = raw, stage' \notin {"bars", "loaded", "written", "checked", "accepted"}, RawTyped'
  PROVE  Sound'
BY DEF Sound

LEMMA SameData ==
  ASSUME raw' = raw
  PROVE  /\ SourceEvents' = SourceEvents /\ BarsGood' = BarsGood /\ MarksGood' = MarksGood
         /\ FetchedRows("bars")' = FetchedRows("bars")
BY DEF SourceEvents, BarsGood, MarksGood, FetchedRows

LEMMA WriteIsSound ==
  ASSUME Sound, WriteCatalog
  PROVE  stage' = "written" => CatalogWritten'
<1> DEFINE SE == SourceEvents
<1>1. PICK k \in Kinds : \E fault \in BOOLEAN :
         \E times \in IF fault THEN Miswritten(SE[k]) ELSE {SE[k]} :
            LET written == [SE EXCEPT ![k] = times]
                ok == GapCount("marks") \in {0, Cardinality(AllowedGaps)} /\ ReadBack(written)
            IN  Pass("write", ok, "written") /\ catalog' = IF ok THEN written ELSE Empty
  BY DEF WriteCatalog
<1>2. PICK times \in Miswritten(SE[k]) \cup {SE[k]} :
            LET written == [SE EXCEPT ![k] = times]
                ok == GapCount("marks") \in {0, Cardinality(AllowedGaps)} /\ ReadBack(written)
            IN  Pass("write", ok, "written") /\ catalog' = IF ok THEN written ELSE Empty
  BY <1>1
<1> DEFINE written == [SE EXCEPT ![k] = times]
<1>3. SUFFICES ASSUME stage' = "written" PROVE CatalogWritten'
  OBVIOUS
<1>4. ReadBack(written) /\ catalog' = written
  BY <1>2, <1>3 DEF Pass
<1>5. written["bars"] = SE["bars"] /\ written["marks"] = SE["marks"]
  BY <1>4 DEF ReadBack
<1>6. /\ DOMAIN SE = Kinds /\ SE = [j \in Kinds |-> SE[j]]
      /\ \A t : [SE EXCEPT !.funding = t] = [j \in Kinds |-> IF j = "funding" THEN t ELSE SE[j]]
  BY DEF SourceEvents, Kinds
<1>7. SE' = SE
  BY SameData DEF WriteCatalog
<1>8. CASE k = "funding"
  <2>1. written = [SE EXCEPT !.funding = times]
    BY <1>8
  <2>2. QED
    BY <1>2, <1>4, <1>7, <1>8, <2>1 DEF CatalogWritten
<1>9. CASE k \in {"bars", "marks"}
  <2>1. times = SE[k]
    BY <1>5, <1>6, <1>9 DEF Kinds
  <2>2. written = [SE EXCEPT !.funding = SE["funding"]]
    BY <1>6, <2>1 DEF Kinds
  <2>3. catalog' = [SE EXCEPT !.funding = SE.funding]
    BY <1>4, <2>2
  <2>4. QED
    BY <1>7, <2>3 DEF CatalogWritten
<1>10. QED
  BY <1>8, <1>9 DEF Kinds

LEMMA AcceptIsWhole ==
  ASSUME RawTyped, CatalogWritten, HomologyComplete("funding")
  PROVE  catalog = SourceEvents
<1> DEFINE F == SourceEvents.funding
<1>1. PICK C \in Miswritten(F) \cup {F} : catalog = [SourceEvents EXCEPT !.funding = C]
  BY DEF CatalogWritten
<1>2. catalog["funding"] = C /\ SourceEvents = [SourceEvents EXCEPT !.funding = F]
  BY <1>1 DEF SourceEvents
<1>3. F \in Seq(Int)
  <2>1. F = Events("funding", Joined(raw, "funding"))
    BY DEF SourceEvents
  <2>2. Events("funding", Joined(raw, "funding")) \in Seq(Int)
    BY FundingRows
  <2>3. QED
    BY <2>1, <2>2
<1>4. SplitParts("funding") = [i \in DOMAIN Splits |-> SplitPart(C, i)]
  BY <1>2 DEF SplitParts, SplitPart
<1>5. Coverage["funding"].rows = Len(F)
  BY DEF Coverage, Kinds
<1>6. \A i \in DOMAIN Splits : Strict(SplitPart(C, i))
  BY <1>4 DEF HomologyComplete
<1>7. Cardinality(Positions(C)) = Len(F)
  <2>1. Positions(C) = UNION {{i} \X DOMAIN SplitParts("funding")[i] : i \in DOMAIN SplitParts("funding")}
    BY <1>4 DEF Positions
  <2>2. QED
    BY <1>5, <2>1 DEF HomologyComplete
<1> HIDE DEF F
<1>8. C = F
  BY <1>3, <1>6, <1>7, HomologyFindsTheChange
<1>9. QED
  BY <1>1, <1>2, <1>8

LEMMA SoundNext == Sound /\ [Next]_vars => Sound'
<1>1. SUFFICES ASSUME Sound, [Next]_vars PROVE Sound'
  OBVIOUS
<1>2. RawTyped /\ RawTyped'
  BY <1>1, RawNext DEF Sound
<1>3. CASE SourceFault
  BY <1>1, <1>2, <1>3 DEF SourceFault, Sound
<1>4. CASE CatalogFault
  <2>1. raw' = raw /\ stage' = stage /\ accepted' = accepted /\ stage \in {"accepted", "bound", "batched"}
    BY <1>4 DEF CatalogFault
  <2>2. QED
    BY <1>1, <1>2, <2>1, SameData DEF Sound, BarsAnswer
<1>5. CASE ProbeIndex
  <2>1. raw' = raw /\ stage' \in {"probed", "refused"}
    BY <1>5 DEF ProbeIndex, Pass
  <2>2. QED
    BY <1>1, <1>2, <2>1, SoundKept
<1>6. CASE LoadBars
  <2>1. raw' = raw /\ stage' \in {"bars", "refused"} /\ (stage' = "bars" => BarsGood)
    BY <1>6 DEF LoadBars, Pass, BarsGood
  <2>2. QED
    BY <1>1, <1>2, <2>1, SameData DEF Sound
<1>7. CASE LoadMarksAndFunding
  <2>1. raw' = raw /\ stage' \in {"loaded", "refused"} /\ stage = "bars" /\ (stage' = "loaded" => MarksGood)
    BY <1>7 DEF LoadMarksAndFunding, Pass, MarksGood
  <2>2. QED
    BY <1>1, <1>2, <2>1, SameData DEF Sound
<1>8. CASE WriteCatalog
  <2>1. raw' = raw /\ stage' \in {"written", "refused"} /\ stage = "loaded"
    BY <1>8 DEF WriteCatalog, Pass
  <2>2. stage' = "written" => CatalogWritten'
    BY <1>1, <1>8, WriteIsSound
  <2>3. QED
    BY <1>1, <1>2, <2>1, <2>2, SameData DEF Sound
<1>9. CASE CrosscheckCatalog
  <2>1. /\ raw' = raw /\ catalog' = catalog /\ stage' \in {"checked", "refused"} /\ stage = "written"
        /\ stage' = "checked" => BarsAnswer
    BY <1>9 DEF CrosscheckCatalog, Pass, CrosscheckAgrees, BarsAnswer
  <2>2. CatalogWritten' <=> CatalogWritten
    BY <2>1, SameData DEF CatalogWritten
  <2>3. QED
    BY <1>1, <1>2, <2>1, <2>2, SameData DEF Sound, BarsAnswer
<1>10. CASE Accept
  <2>1. /\ raw' = raw /\ stage' \in {"accepted", "refused"} /\ stage = "checked"
        /\ stage' = "accepted" => RecordComplete
        /\ RecordComplete => accepted' = AcceptanceRecord
    BY <1>10 DEF Accept, Pass
  <2>2. ASSUME stage' = "accepted" PROVE accepted'.events = SourceEvents
    <3>1. HomologyComplete("funding") /\ CatalogWritten
      BY <1>1, <2>1, <2>2 DEF RecordComplete, Sound
    <3>2. catalog = SourceEvents
      BY <1>2, <3>1, AcceptIsWhole
    <3>3. accepted'.events = catalog
      BY <2>1, <2>2 DEF AcceptanceRecord
    <3>4. QED
      BY <3>2, <3>3
  <2>3. QED
    BY <1>1, <1>2, <2>1, <2>2, SameData DEF Sound, BarsAnswer
<1>11. CASE Bind \/ BatchRead \/ BatchBar \/ FinishBatch \/ EngineRead
            \/ OnMarkPrice \/ OnFundingRate \/ OnBar \/ Parity
  <2>1. raw' = raw /\ stage' \in {"bound", "batch", "batched", "trained", "engine", "published", "refused"}
    BY <1>11 DEF Bind, BatchRead, BatchBar, FinishBatch, EngineRead, OnMarkPrice, OnFundingRate,
                 OnBar, Parity, Pass
  <2>2. QED
    BY <1>1, <1>2, <2>1, SoundKept
<1>12. CASE UNCHANGED vars
  <2>1. raw' = raw /\ stage' = stage /\ accepted' = accepted /\ catalog' = catalog
    BY <1>12 DEF vars
  <2>2. CatalogWritten' <=> CatalogWritten
    BY <2>1, SameData DEF CatalogWritten
  <2>3. QED
    BY <1>1, <1>2, <2>1, <2>2, SameData DEF Sound, BarsAnswer
<1>13. QED
  BY <1>1, <1>3, <1>4, <1>5, <1>6, <1>7, <1>8, <1>9, <1>10, <1>11, <1>12 DEF Next

(* What was accepted is what the archives say and the whole of it, whatever    *)
(* the archives lacked and whatever was lost or repeated when it was written   *)
(* (prepare_stage2_dataset).                                                   *)
THEOREM AcceptedIsWholeHolds == Spec => []AcceptedIsWhole
<1>1. Init => Sound
  BY SoundInit
<1>2. Sound /\ [Next]_vars => Sound'
  BY SoundNext
<1>3. Sound => AcceptedIsWhole
  BY SoundIsWhole
<1>4. QED
  BY <1>1, <1>2, <1>3, PTL DEF Spec

-----------------------------------------------------------------------------
(* The recursions of the second half: the state that is fed a sequence of      *)
(* events, and the order of the engine's read.                                 *)

Push(kind, s, t) == IF kind = "marks" THEN PushMark(s, t) ELSE PushFunding(s, t)

IsPushed(f, s, kind, times, n) ==
  f = [m \in 0 .. n |-> IF m = 0 THEN s ELSE Push(kind, f[m-1], times[m])]

PushSteps(f, s, kind, times) ==
    /\ f[0] = s
    /\ \A m \in 1 .. Len(times) : f[m] = Push(kind, f[m-1], times[m])
    /\ PushAll(s, kind, times) = f[Len(times)]

LEMMA PushedDef ==
  ASSUME NEW s, NEW kind, NEW times, Len(times) \in Nat
  PROVE  \E f : PushSteps(f, s, kind, times)
<1> DEFINE T == {n \in Nat : \E f : IsPushed(f, s, kind, times, n)}
           f == CHOOSE g : IsPushed(g, s, kind, times, Len(times))
<1>1. 0 \in T
  <2>1. IsPushed([m \in 0 .. 0 |-> s], s, kind, times, 0)
    BY DEF IsPushed
  <2>2. QED
    BY <2>1
<1>2. ASSUME NEW n \in Nat, n \in T PROVE n + 1 \in T
  <2>1. PICK g : IsPushed(g, s, kind, times, n)
    BY <1>2
  <2> DEFINE h == [m \in 0 .. n + 1 |-> IF m <= n THEN g[m] ELSE Push(kind, g[m-1], times[m])]
  <2>2. ASSUME NEW m \in 0 .. n + 1
        PROVE  h[m] = IF m = 0 THEN s ELSE Push(kind, h[m-1], times[m])
    <3>1. CASE m <= n
      <4>1. g[m] = IF m = 0 THEN s ELSE Push(kind, g[m-1], times[m])
        BY <2>1, <3>1 DEF IsPushed
      <4>2. h[m] = g[m] /\ (m # 0 => h[m-1] = g[m-1])
        BY <3>1
      <4>3. QED
        BY <4>1, <4>2
    <3>2. CASE m = n + 1
      <4>1. h[m] = Push(kind, g[m-1], times[m]) /\ h[m-1] = g[m-1] /\ m # 0
        BY <3>2
      <4>2. QED
        BY <4>1
    <3>3. QED
      BY <3>1, <3>2
  <2>3. IsPushed(h, s, kind, times, n + 1)
    BY <2>2 DEF IsPushed
  <2>4. QED
    BY <2>3
<1>3. Nat \subseteq T
  BY <1>1, <1>2, Induction
<1>4. Len(times) \in T
  BY <1>3
<1>5. IsPushed(f, s, kind, times, Len(times))
  BY <1>4
<1>6. f = CHOOSE g : g = [m \in 0 .. Len(times) |->
                           IF m = 0 THEN s ELSE Push(kind, g[m-1], times[m])]
  BY DEF IsPushed
<1>7. PushAll(s, kind, times) = f[Len(times)]
  BY <1>6 DEF PushAll, Push
<1>8. f[0] = s /\ \A m \in 1 .. Len(times) : f[m] = Push(kind, f[m-1], times[m])
  <2>1. ASSUME NEW m \in 0 .. Len(times)
        PROVE  f[m] = IF m = 0 THEN s ELSE Push(kind, f[m-1], times[m])
    BY <1>5 DEF IsPushed
  <2>2. 0 \in 0 .. Len(times)
    OBVIOUS
  <2>3. QED
    BY <2>1, <2>2
<1>9. PushSteps(f, s, kind, times)
  <2> HIDE DEF f
  <2>1. QED
    BY <1>7, <1>8 DEF PushSteps
<1>10. QED
  BY <1>9

IsInTimeOrder(f, times, n) ==
  f = [m \in 0 .. n |-> IF m = 0 THEN <<>> ELSE InsertTime(f[m-1], times[m])]

LEMMA InTimeOrderDef ==
  ASSUME NEW times, Len(times) \in Nat
  PROVE  \E f : /\ f[0] = <<>>
                /\ \A m \in 1 .. Len(times) : f[m] = InsertTime(f[m-1], times[m])
                /\ InTimeOrder(times) = f[Len(times)]
<1> DEFINE T == {n \in Nat : \E f : IsInTimeOrder(f, times, n)}
           f == CHOOSE g : IsInTimeOrder(g, times, Len(times))
<1>1. 0 \in T
  <2>1. IsInTimeOrder([m \in 0 .. 0 |-> <<>>], times, 0)
    BY DEF IsInTimeOrder
  <2>2. QED
    BY <2>1
<1>2. ASSUME NEW n \in Nat, n \in T PROVE n + 1 \in T
  <2>1. PICK g : IsInTimeOrder(g, times, n)
    BY <1>2
  <2> DEFINE h == [m \in 0 .. n + 1 |-> IF m <= n THEN g[m] ELSE InsertTime(g[m-1], times[m])]
  <2>2. ASSUME NEW m \in 0 .. n + 1
        PROVE  h[m] = IF m = 0 THEN <<>> ELSE InsertTime(h[m-1], times[m])
    <3>1. CASE m <= n
      <4>1. g[m] = IF m = 0 THEN <<>> ELSE InsertTime(g[m-1], times[m])
        BY <2>1, <3>1 DEF IsInTimeOrder
      <4>2. h[m] = g[m] /\ (m # 0 => h[m-1] = g[m-1])
        BY <3>1
      <4>3. QED
        BY <4>1, <4>2
    <3>2. CASE m = n + 1
      <4>1. h[m] = InsertTime(g[m-1], times[m]) /\ h[m-1] = g[m-1] /\ m # 0
        BY <3>2
      <4>2. QED
        BY <4>1
    <3>3. QED
      BY <3>1, <3>2
  <2>3. IsInTimeOrder(h, times, n + 1)
    BY <2>2 DEF IsInTimeOrder
  <2>4. QED
    BY <2>3
<1>3. Nat \subseteq T
  BY <1>1, <1>2, Induction
<1>4. Len(times) \in T
  BY <1>3
<1>5. IsInTimeOrder(f, times, Len(times))
  BY <1>4
<1>6. f = CHOOSE g : g = [m \in 0 .. Len(times) |->
                           IF m = 0 THEN <<>> ELSE InsertTime(g[m-1], times[m])]
  BY DEF IsInTimeOrder
<1>7. InTimeOrder(times) = f[Len(times)]
  BY <1>6 DEF InTimeOrder
<1>8. f[0] = <<>> /\ \A m \in 1 .. Len(times) : f[m] = InsertTime(f[m-1], times[m])
  <2>1. ASSUME NEW m \in 0 .. Len(times)
        PROVE  f[m] = IF m = 0 THEN <<>> ELSE InsertTime(f[m-1], times[m])
    BY <1>5 DEF IsInTimeOrder
  <2>2. 0 \in 0 .. Len(times)
    OBVIOUS
  <2>3. QED
    BY <2>1, <2>2
<1>9. QED
  BY <1>7, <1>8

(* A series that lost, repeats or swaps events has no other events. *)
LEMMA AlteredElements ==
  ASSUME NEW s \in Seq(Int), NEW t \in Miswritten(s) \cup Swapped(s)
  PROVE  t \in Seq(Int) /\ ToSet(t) \subseteq ToSet(s)
<1>1. ASSUME NEW i \in DOMAIN s, t = RemoveAt(s, i) PROVE t \in Seq(Int) /\ ToSet(t) \subseteq ToSet(s)
  BY <1>1, RemoveElements
<1>2. ASSUME NEW i \in DOMAIN s, t = InsertAt(s, i, s[i]) PROVE t \in Seq(Int) /\ ToSet(t) \subseteq ToSet(s)
  <2>1. /\ InsertAt(s, i, s[i]) \in Seq(Int)
        /\ \A x : x \in ToSet(InsertAt(s, i, s[i])) <=> x \in ToSet(s) \/ x = s[i]
    BY DoubledElements
  <2>2. s[i] \in ToSet(s)
    BY DEF ToSet
  <2>3. QED
    BY <1>2, <2>1, <2>2
<1>3. ASSUME NEW i \in DOMAIN s, i + 1 \in DOMAIN s, t = [s EXCEPT ![i] = s[i+1], ![i+1] = s[i]]
      PROVE  t \in Seq(Int) /\ ToSet(t) \subseteq ToSet(s)
  <2>1. DOMAIN s = 1 .. Len(s) /\ Len(s) \in Nat /\ s[i] \in Int /\ s[i+1] \in Int
    BY <1>3
  <2>2. t \in [1 .. Len(s) -> Int] /\ DOMAIN t = DOMAIN s
    BY <1>3, <2>1
  <2>3. \A j \in DOMAIN t : t[j] \in {s[i], s[i+1], s[j]}
    BY <1>3, <2>1
  <2>4. t \in Seq(Int)
    BY <2>1, <2>2, IsASeq
  <2>5. QED
    BY <1>3, <2>2, <2>3, <2>4 DEF ToSet
<1>4. QED
  BY <1>1, <1>2, <1>3 DEF Miswritten, Swapped

LEMMA OrderedElements ==
  ASSUME NEW times \in Seq(Int)
  PROVE  InTimeOrder(times) \in Seq(Int) /\ ToSet(InTimeOrder(times)) \subseteq ToSet(times)
<1>0. Len(times) \in Nat /\ DOMAIN times = 1 .. Len(times)
  OBVIOUS
<1>1. PICK f : /\ f[0] = <<>>
               /\ \A m \in 1 .. Len(times) : f[m] = InsertTime(f[m-1], times[m])
               /\ InTimeOrder(times) = f[Len(times)]
  BY <1>0, InTimeOrderDef
<1> DEFINE Good(n) == f[n] \in Seq(Int) /\ ToSet(f[n]) \subseteq ToSet(times)
           T == {n \in Nat : n <= Len(times) => Good(n)}
<1>2. 0 \in T
  <2>1. Good(0)
    BY <1>1 DEF ToSet
  <2>2. QED
    BY <2>1
<1>3. ASSUME NEW n \in Nat, n \in T PROVE n + 1 \in T
  <2>1. SUFFICES ASSUME n + 1 <= Len(times) PROVE Good(n + 1)
    OBVIOUS
  <2>2. Good(n) /\ n + 1 \in 1 .. Len(times) /\ (n + 1) - 1 = n
    BY <1>0, <1>3, <2>1
  <2>3. f[n + 1] = InsertTime(f[n], times[n + 1])
    <3>1. f[n + 1] = InsertTime(f[(n + 1) - 1], times[n + 1])
      BY <1>1, <2>2
    <3>2. QED
      BY <2>2, <3>1
  <2>4. times[n + 1] \in Int /\ times[n + 1] \in ToSet(times)
    BY <1>0, <2>2 DEF ToSet
  <2> DEFINE g == f[n]
             t == times[n + 1]
             earlier == {i \in DOMAIN g : g[i] <= t}
  <2>5. g \in Seq(Int) /\ DOMAIN g = 1 .. Len(g) /\ Len(g) \in Nat /\ ToSet(g) \subseteq ToSet(times)
    BY <2>2
  <2> HIDE DEF g, t
  <2>6. Place(g, t) \in 1 .. Len(g) + 1
    <3>1. earlier \subseteq 1 .. Len(g) /\ IsFiniteSet(1 .. Len(g)) /\ Cardinality(1 .. Len(g)) = Len(g)
      <4>1. earlier \subseteq 1 .. Len(g)
        BY <2>5
      <4> HIDE DEF earlier
      <4>2. \A m \in Nat : IsFiniteSet(1 .. m) /\ Cardinality(1 .. m) = m
        BY FS_Interval
      <4>3. QED
        BY <2>5, <4>1, <4>2
    <3> HIDE DEF earlier
    <3>2. IsFiniteSet(earlier) /\ Cardinality(earlier) <= Cardinality(1 .. Len(g))
      BY <3>1, FS_Subset
    <3>3. Cardinality(earlier) \in Nat
      BY <3>2, FS_CardinalityType
    <3>4. Place(g, t) = Cardinality(earlier) + 1
      BY DEF Place, earlier
    <3>5. QED
      BY <2>5, <3>1, <3>2, <3>3, <3>4
  <2>7. t \in Int /\ t \in ToSet(times) /\ f[n + 1] = InsertAt(g, Place(g, t), t)
    BY <2>3, <2>4 DEF InsertTime, g, t
  <2> DEFINE p == Place(g, t)
  <2>8. p \in 1 .. Len(g) + 1
    BY <2>6
  <2> HIDE DEF p
  <2>9. InsertAt(g, p, t) \in Seq(Int) /\ \A x : x \in ToSet(InsertAt(g, p, t)) <=> x \in ToSet(g) \/ x = t
    BY <2>5, <2>7, <2>8, InsertElements
  <2>10. f[n + 1] = InsertAt(g, p, t)
    BY <2>7 DEF p
  <2>11. QED
    BY <2>5, <2>7, <2>9, <2>10
<1>4. Nat \subseteq T
  BY <1>2, <1>3, Induction
<1>5. Len(times) \in T
  BY <1>0, <1>4
<1>6. QED
  BY <1>0, <1>1, <1>5

FeatureFields == DOMAIN Fresh

LEMMA PushedFields ==
  ASSUME NEW s, DOMAIN s = FeatureFields, NEW kind, NEW times, Len(times) \in Nat
  PROVE  DOMAIN PushAll(s, kind, times) = FeatureFields
<1>a. PICK f : PushSteps(f, s, kind, times)
  BY PushedDef
<1>1. /\ f[0] = s
      /\ \A m \in 1 .. Len(times) : f[m] = Push(kind, f[m-1], times[m])
      /\ PushAll(s, kind, times) = f[Len(times)]
  BY <1>a DEF PushSteps
<1> DEFINE T == {n \in Nat : n <= Len(times) => DOMAIN f[n] = FeatureFields}
<1>2. 0 \in T
  BY <1>1
<1>3. ASSUME NEW n \in Nat, n \in T PROVE n + 1 \in T
  <2>1. SUFFICES ASSUME n + 1 <= Len(times) PROVE DOMAIN f[n + 1] = FeatureFields
    OBVIOUS
  <2>2. DOMAIN f[n] = FeatureFields /\ n + 1 \in 1 .. Len(times) /\ (n + 1) - 1 = n
    BY <1>3, <2>1
  <2>3. f[n + 1] = Push(kind, f[n], times[n + 1])
    <3>1. f[n + 1] = Push(kind, f[(n + 1) - 1], times[n + 1])
      BY <1>1, <2>2
    <3>2. QED
      BY <2>2, <3>1
  <2>4. \A g, t : DOMAIN Push(kind, g, t) = DOMAIN g
    BY DEF Push, PushMark, PushFunding
  <2>5. QED
    BY <2>2, <2>3, <2>4
<1>4. Nat \subseteq T
  BY <1>2, <1>3, Induction
<1>5. QED
  BY <1>1, <1>4

(* A bar adds at most one row, and the row is the bar's. *)
LEMMA BarRow ==
  ASSUME NEW s, DOMAIN s = FeatureFields, NEW d
  PROVE  /\ DOMAIN PushBar(s, d) = FeatureFields
         /\ PushBar(s, d).row = <<>> \/ \E r : PushBar(s, d).row = <<r>> /\ r.ts = d
<1> DEFINE p == Pruned(s, d)
<1>1. DOMAIN p = FeatureFields
  BY DEF Pruned
<1> HIDE DEF p
<1>2. PICK t : \E ready, good, values : /\ DOMAIN t = DOMAIN p
               /\ PushBar(s, d) = [t EXCEPT !.ok = @ /\ good,
                      !.row = IF ready /\ good THEN <<[ts |-> d, values |-> values]>> ELSE <<>>]
  <2> DEFINE all == Append(p.bars, d)
             kept == IF Len(all) > Lookback + 1 THEN Tail(all) ELSE all
             t == [p EXCEPT !.bars = kept]
             ready == Len(kept) = Lookback + 1
             follows == p.bars # <<>> => d - Last(p.bars) = BarInterval
             good == follows /\ (d + 1) % BarInterval = 0 /\ (ready => AuxiliaryFresh(t, d) /\ Covered(t, d))
  <2>1. PushBar(s, d) = [t EXCEPT !.ok = @ /\ good,
                      !.row = IF ready /\ good THEN <<[ts |-> d, values |-> FeatureValues(t, d)]>> ELSE <<>>]
    BY DEF PushBar, p
  <2>2. DOMAIN t = DOMAIN p
    OBVIOUS
  <2> HIDE DEF t, ready, good
  <2>3. QED
    BY <2>1, <2>2
<1>3. "row" \in FeatureFields
  BY DEF FeatureFields, Fresh
<1>4. QED
  BY <1>1, <1>2, <1>3

-----------------------------------------------------------------------------
(* The type of every variable. *)

LEMMA SourceTyped ==
  ASSUME RawTyped
  PROVE  SourceEvents \in [Kinds -> Seq(Int)]
<1>1. ASSUME NEW list \in Seq(Row), NEW k PROVE Events(k, list) \in Seq(Int)
  <2>1. Len(list) \in Nat /\ DOMAIN list = 1 .. Len(list) /\ \A i \in DOMAIN list : list[i] \in Row
    OBVIOUS
  <2>2. Events(k, list) \in [1 .. Len(list) -> Int]
    BY <2>1 DEF Events, Row
  <2>3. QED
    BY <2>1, <2>2, IsASeq
<1>2. Joined(raw, "bars") \in Seq(Row) /\ Joined(raw, "funding") \in Seq(Row)
  <2>1. RowOf(<<"bars", 0>>) = Row
    BY DEF RowOf
  <2>2. QED
    BY <2>1, JoinedElements, FundingRows
<1>3. MarkRows(raw) \in Seq(Row)
  BY MarkElements
<1>4. QED
  BY <1>1, <1>2, <1>3 DEF SourceEvents, Kinds

LEMMA WithinElements ==
  ASSUME NEW times \in Seq(Int), NEW from, NEW to
  PROVE  Within(times, from, to) \in Seq(Int) /\ ToSet(Within(times, from, to)) \subseteq ToSet(times)
BY KeptElements DEF Within

LEMMA EndElements ==
  ASSUME NEW times \in Seq(Int), times # <<>>
  PROVE  /\ Head(times) \in ToSet(times)
         /\ Tail(times) \in Seq(Int) /\ ToSet(Tail(times)) \subseteq ToSet(times)
<1>1. Len(times) \in Nat \ {0} /\ DOMAIN times = 1 .. Len(times)
  OBVIOUS
<1>2. Head(times) = times[1] /\ 1 \in DOMAIN times
  BY <1>1
<1>3. /\ Tail(times) \in Seq(Int) /\ DOMAIN Tail(times) = 1 .. Len(times) - 1
      /\ \A i \in 1 .. Len(times) - 1 : Tail(times)[i] = times[i+1]
  BY <1>1
<1>4. \A i \in 1 .. Len(times) - 1 : i + 1 \in DOMAIN times
  BY <1>1
<1>5. QED
  BY <1>2, <1>3, <1>4 DEF ToSet

Rowed(list, S) == list \in Seq(ToSet(list)) /\ Times(list) \subseteq S

LEMMA TimesOf == ASSUME NEW list PROVE Times(list) = {x.ts : x \in ToSet(list)}
BY DEF Times, ToSet

LEMMA RowedAdded ==
  ASSUME NEW S, NEW list, Rowed(list, S), NEW t, t = <<>> \/ \E r : t = <<r>> /\ r.ts \in S
  PROVE  Rowed(list \o t, S)
<1>1. CASE t = <<>>
  <2>1. list \o t = list
    BY <1>1 DEF Rowed
  <2>2. QED
    BY <2>1
<1>2. ASSUME NEW r, t = <<r>>, r.ts \in S PROVE Rowed(list \o t, S)
  <2> DEFINE T == ToSet(list) \cup {r}
  <2>1. list \in Seq(T) /\ t \in Seq(T) /\ ToSet(t) = {r}
    <3>1. ToSet(list) \subseteq T /\ list \in Seq(ToSet(list))
      BY DEF Rowed
    <3>2. list \in Seq(T)
      BY <3>1, SeqMonotonic
    <3>3. r \in T
      OBVIOUS
    <3> HIDE DEF T
    <3>4. t \in Seq(T) /\ DOMAIN t = {1} /\ t[1] = r
      BY <1>2, <3>3
    <3>5. QED
      BY <3>2, <3>4 DEF ToSet
  <2>2. list \o t \in Seq(T) /\ \A x : x \in ToSet(list \o t) <=> x \in ToSet(list) \/ x \in ToSet(t)
    BY <2>1, ConcatElements
  <2>3. ToSet(list \o t) = T
    BY <2>1, <2>2
  <2>4. Times(list \o t) \subseteq S
    <3>1. \A x \in ToSet(list) : x.ts \in S
      BY TimesOf DEF Rowed
    <3>2. QED
      BY <1>2, <2>3, <3>1, TimesOf
  <2>5. QED
    BY <2>2, <2>3, <2>4 DEF Rowed
<1>3. QED
  BY <1>1, <1>2

LEMMA RowedKept ==
  ASSUME NEW S, NEW list, Rowed(list, S), NEW T
  PROVE  Rowed(Kept(list, T), S)
<1> DEFINE K == Kept(list, T)
<1>1. /\ K \in Seq(ToSet(list)) /\ \A x : x \in ToSet(K) <=> x \in ToSet(list) /\ x \in T
      /\ K \in Seq(ToSet(list) \cap T)
  BY KeptElements DEF Rowed
<1> HIDE DEF K
<1>2. ToSet(K) = ToSet(list) \cap T
  BY <1>1
<1>3. K \in Seq(ToSet(K))
  BY <1>1, <1>2
<1>4. Times(K) \subseteq Times(list)
  BY <1>2, TimesOf
<1>5. Rowed(K, S)
  BY <1>3, <1>4 DEF Rowed
<1>6. QED
  BY <1>5 DEF K

Stages == {"raw", "probed", "bars", "loaded", "written", "checked", "accepted",
           "bound", "batch", "batched", "engine", "published", "trained", "refused"}
Controlled ==
    /\ stage \in Stages
    /\ failed \in Operations \cup {"none"} /\ (failed # "none" <=> stage = "refused")
    /\ faults \in 0 .. MaxFaults /\ window \in Windows \cup {NoWindow}

(* The times of the rows and of the events still to be read are accepted ones. *)
Drawn ==
    LET bars == ToSet(accepted.events.bars)
    IN  /\ Rowed(rows, bars) /\ Rowed(decisions, bars)
        /\ stage \in {"raw", "probed", "bars", "loaded", "written", "checked"} =>
               rows = <<>> /\ decisions = <<>>
        /\ stage \in {"accepted", "bound", "batch", "batched", "engine"} =>
               catalog \in [Kinds -> Seq(Int)] /\ ToSet(catalog.bars) \subseteq bars
        /\ stage \in {"batch", "engine"} =>
               input \in [Kinds -> Seq(Int)] /\ ToSet(input.bars) \subseteq bars

Shaped == DOMAIN catalog = Kinds /\ DOMAIN input = Kinds /\ DOMAIN features = FeatureFields

Typed == Sound /\ Controlled /\ Shaped /\ Drawn

LEMMA TypedInit == Init => Typed
<1>1. SUFFICES ASSUME Init PROVE Typed
  OBVIOUS
<1>2. Controlled
  BY <1>1, DatasetAssumption DEF Init, Controlled, Stages, Operations
<1>3. Shaped
  BY <1>1 DEF Init, Shaped, Empty, Kinds, FeatureFields
<1>4. Drawn
  <2>1. Rowed(<<>>, ToSet(accepted.events.bars))
    BY DEF Rowed, Times, ToSet
  <2>2. QED
    BY <1>1, <2>1 DEF Init, Drawn
<1>5. QED
  BY <1>1, <1>2, <1>3, <1>4, SoundInit DEF Typed

LEMMA TypedHolds == Typed => TypeOK
<1>1. SUFFICES ASSUME Typed PROVE TypeOK
  OBVIOUS
<1>2. DOMAIN raw = Archives
  BY <1>1 DEF Typed, Sound, RawTyped
<1>3. Times(rows) \cup Times(decisions) \subseteq ToSet(accepted.events.bars)
  BY <1>1 DEF Typed, Drawn, Rowed
<1>4. QED
  BY <1>1, <1>2, <1>3 DEF Typed, Controlled, Shaped, Stages, TypeOK

LEMMA ControlNext == Controlled /\ [Next]_vars => Controlled'
<1>1. SUFFICES ASSUME Controlled, [Next]_vars PROVE Controlled'
  OBVIOUS
<1> USE <1>1 DEF Controlled
<1>2. CASE SourceFault \/ CatalogFault
  <2>1. faults' = faults + 1 /\ faults < MaxFaults /\ UNCHANGED <<stage, failed, window>>
    BY <1>2 DEF SourceFault, CatalogFault, research
  <2>2. QED
    BY <2>1, DatasetAssumption
<1>3. CASE WriteCatalog
  <2>1. stage = "loaded" /\ window' = window
    BY <1>3 DEF WriteCatalog, research
  <2>2. (stage' = "written" /\ failed' = failed) \/ (stage' = "refused" /\ failed' = "write")
    BY <1>3 DEF WriteCatalog, Pass
  <2>3. faults' \in 0 .. MaxFaults
    <3>1. PICK fault \in BOOLEAN : (fault => faults < MaxFaults) /\ faults' = faults + (IF fault THEN 1 ELSE 0)
      BY <1>3 DEF WriteCatalog
    <3>2. QED
      BY <3>1, DatasetAssumption
  <2>4. QED
    BY <2>1, <2>2, <2>3 DEF Stages, Operations
<1>4. CASE Bind
  BY <1>4 DEF Bind, Pass, Stages, Operations
<1>5. CASE ProbeIndex \/ LoadBars \/ LoadMarksAndFunding \/ CrosscheckCatalog \/ Accept
  <2>1. /\ UNCHANGED <<faults, window>> /\ stage # "refused"
        /\ \E op \in Operations : \E next \in Stages \ {"refused"} :
              (stage' = next /\ failed' = failed) \/ (stage' = "refused" /\ failed' = op)
    BY <1>5 DEF ProbeIndex, LoadBars, LoadMarksAndFunding, CrosscheckCatalog, Accept, Pass, Stages, Operations, research
  <2>2. QED
    BY <2>1 DEF Stages, Operations
<1>6. CASE BatchRead \/ BatchBar \/ FinishBatch \/ EngineRead
  <2>1. /\ UNCHANGED <<faults, window>> /\ stage # "refused"
        /\ \E op \in Operations : \E next \in Stages \ {"refused"} :
              (stage' = next /\ failed' = failed) \/ (stage' = "refused" /\ failed' = op)
    BY <1>6 DEF BatchRead, BatchBar, FinishBatch, EngineRead, Pass, Stages, Operations
  <2>2. QED
    BY <2>1 DEF Stages, Operations
<1>7. CASE OnMarkPrice \/ OnFundingRate \/ OnBar \/ Parity
  <2>1. /\ UNCHANGED <<faults, window>> /\ stage # "refused"
        /\ \E op \in Operations : \E next \in Stages \ {"refused"} :
              (stage' = next /\ failed' = failed) \/ (stage' = "refused" /\ failed' = op)
    BY <1>7 DEF OnMarkPrice, OnFundingRate, OnBar, Parity, Pass, Stages, Operations, research
  <2>2. QED
    BY <2>1 DEF Stages, Operations
<1>8. CASE UNCHANGED vars
  BY <1>8 DEF vars, research
<1>9. QED
  BY <1>1, <1>2, <1>3, <1>4, <1>5, <1>6, <1>7, <1>8 DEF Next

(* A bar that is fed to the state adds at most its own row. *)
LEMMA FedRow ==
  ASSUME NEW s, DOMAIN s = FeatureFields, NEW events \in [Kinds -> Seq(Int)], NEW d
  PROVE  /\ DOMAIN FeedBar(s, events, d) = FeatureFields
         /\ FeedBar(s, events, d).row = <<>> \/ \E r : FeedBar(s, events, d).row = <<r>> /\ r.ts = d
<1> DEFINE marked == PushAll(s, "marks", UpTo(events.marks, d))
           settled == PushAll(marked, "funding", UpTo(events.funding, d))
<1>1. Len(UpTo(events.marks, d)) \in Nat /\ Len(UpTo(events.funding, d)) \in Nat
  <2>1. events.marks \in Seq(Int) /\ events.funding \in Seq(Int)
    BY DEF Kinds
  <2>2. \A times \in Seq(Int) : \A S : Kept(times, S) \in Seq(Int)
    BY KeptElements
  <2>3. UpTo(events.marks, d) \in Seq(Int) /\ UpTo(events.funding, d) \in Seq(Int)
    BY <2>1, <2>2 DEF UpTo
  <2>4. QED
    BY <2>3
<1>2. DOMAIN marked = FeatureFields
  BY <1>1, PushedFields
<1> HIDE DEF marked
<1>3. DOMAIN settled = FeatureFields
  BY <1>1, <1>2, PushedFields
<1> HIDE DEF settled
<1>4. FeedBar(s, events, d) = PushBar(settled, d)
  BY DEF FeedBar, settled, marked
<1>5. QED
  BY <1>3, <1>4, BarRow

LEMMA ShapedNext == Typed /\ [Next]_vars => Shaped'
<1>1. SUFFICES ASSUME Typed, [Next]_vars PROVE Shaped'
  OBVIOUS
<1>2. DOMAIN catalog = Kinds /\ DOMAIN input = Kinds /\ DOMAIN features = FeatureFields
  BY <1>1 DEF Typed, Shaped
<1>3. \A g, t : DOMAIN PushMark(g, t) = DOMAIN g /\ DOMAIN PushFunding(g, t) = DOMAIN g
  BY DEF PushMark, PushFunding
<1>4. DOMAIN Fresh = FeatureFields /\ DOMAIN Empty = Kinds
  BY DEF FeatureFields, Empty, Kinds
<1>5. CASE CatalogFault
  <2>1. UNCHANGED <<input, features>> /\ DOMAIN catalog' = DOMAIN catalog
    BY <1>5 DEF CatalogFault, research
  <2>2. QED
    BY <1>2, <2>1 DEF Shaped
<1>6. CASE WriteCatalog
  <2>1. UNCHANGED <<input, features>>
    BY <1>6 DEF WriteCatalog, research
  <2>2. \/ catalog' = Empty
        \/ \E k, t : catalog' = [SourceEvents EXCEPT ![k] = t]
    BY <1>6 DEF WriteCatalog
  <2>3. DOMAIN SourceEvents = Kinds
    BY DEF SourceEvents, Kinds
  <2>4. QED
    BY <1>2, <1>4, <2>1, <2>2, <2>3 DEF Shaped
<1>7. CASE BatchRead
  <2>1. catalog' = catalog /\ features' = Fresh /\ (input' = WindowEvents \/ input' = input)
    BY <1>7 DEF BatchRead
  <2>2. QED
    BY <1>2, <1>4, <2>1 DEF Shaped, WindowEvents
<1>8. CASE BatchBar
  <2>1. /\ catalog' = catalog /\ DOMAIN input' = DOMAIN input /\ stage = "batch"
        /\ features' = FeedBar(features, input, Head(Undecided))
    BY <1>8 DEF BatchBar
  <2>2. input \in [Kinds -> Seq(Int)]
    BY <1>1, <2>1 DEF Typed, Drawn
  <2>3. DOMAIN features' = FeatureFields
    BY <1>2, <2>1, <2>2, FedRow
  <2>4. QED
    BY <1>2, <2>1, <2>3 DEF Shaped
<1>9. CASE EngineRead
  <2>1. catalog' = catalog /\ features' = Fresh /\ DOMAIN input' = Kinds
    BY <1>9 DEF EngineRead
  <2>2. QED
    BY <1>2, <1>4, <2>1 DEF Shaped
<1>10. CASE OnMarkPrice \/ OnFundingRate
  <2>1. /\ catalog' = catalog /\ DOMAIN input' = DOMAIN input
        /\ \E t : features' = PushMark(features, t) \/ features' = PushFunding(features, t)
    BY <1>10 DEF OnMarkPrice, OnFundingRate
  <2>2. QED
    BY <1>2, <1>3, <2>1 DEF Shaped
<1>11. CASE OnBar
  <2>1. catalog' = catalog /\ DOMAIN input' = DOMAIN input /\ features' = PushBar(features, Head(input.bars))
    BY <1>11 DEF OnBar
  <2>2. QED
    BY <1>2, <2>1, BarRow DEF Shaped
<1>12. CASE SourceFault \/ ProbeIndex \/ LoadBars \/ LoadMarksAndFunding \/ CrosscheckCatalog
            \/ Accept \/ Bind \/ FinishBatch \/ Parity \/ UNCHANGED vars
  <2>1. UNCHANGED <<catalog, input, features>>
    BY <1>12 DEF SourceFault, ProbeIndex, LoadBars, LoadMarksAndFunding, CrosscheckCatalog,
                 Accept, Bind, FinishBatch, Parity, vars, research
  <2>2. QED
    BY <1>2, <2>1 DEF Shaped
<1>13. QED
  BY <1>1, <1>5, <1>6, <1>7, <1>8, <1>9, <1>10, <1>11, <1>12 DEF Next

LEMMA DrawnNext == Typed /\ [Next]_vars => Drawn'
<1>1. SUFFICES ASSUME Typed, [Next]_vars PROVE Drawn'
  OBVIOUS
<1> DEFINE bars == ToSet(accepted.events.bars)
<1>2. /\ Sound /\ RawTyped /\ Shaped
      /\ Rowed(rows, bars) /\ Rowed(decisions, bars)
      /\ stage \in {"raw", "probed", "bars", "loaded", "written", "checked"} =>
             rows = <<>> /\ decisions = <<>>
      /\ stage \in {"accepted", "bound", "batch", "batched", "engine"} =>
             catalog \in [Kinds -> Seq(Int)] /\ ToSet(catalog.bars) \subseteq bars
      /\ stage \in {"batch", "engine"} =>
             input \in [Kinds -> Seq(Int)] /\ ToSet(input.bars) \subseteq bars
  BY <1>1 DEF Typed, Drawn, Sound
<1>3. Rowed(rows, bars)' <=> Rowed(rows', bars')
  BY DEF Rowed, Times
<1>4. Rowed(decisions, bars)' <=> Rowed(decisions', bars')
  BY DEF Rowed, Times
<1> HIDE DEF bars
<1>5. SUFFICES /\ Rowed(rows', bars') /\ Rowed(decisions', bars')
               /\ stage' \in {"raw", "probed", "bars", "loaded", "written", "checked"} =>
                      rows' = <<>> /\ decisions' = <<>>
               /\ stage' \in {"accepted", "bound", "batch", "batched", "engine"} =>
                      catalog' \in [Kinds -> Seq(Int)] /\ ToSet(catalog'.bars) \subseteq bars'
               /\ stage' \in {"batch", "engine"} =>
                      input' \in [Kinds -> Seq(Int)] /\ ToSet(input'.bars) \subseteq bars'
  BY <1>3, <1>4 DEF Drawn, bars
<1>6. accepted' = accepted => bars' = bars
  BY DEF bars
<1>7. CASE SourceFault \/ ProbeIndex \/ LoadBars \/ LoadMarksAndFunding \/ WriteCatalog \/ CrosscheckCatalog
  <2>1. /\ UNCHANGED <<accepted, rows, decisions>>
        /\ stage \in {"raw", "probed", "bars", "loaded", "written"}
        /\ stage' \in {"raw", "probed", "bars", "loaded", "written", "checked", "refused"}
    BY <1>7 DEF SourceFault, ProbeIndex, LoadBars, LoadMarksAndFunding, WriteCatalog, CrosscheckCatalog,
                Pass, research
  <2>2. QED
    BY <1>2, <1>6, <2>1
<1>8. CASE CatalogFault
  <2>1. /\ UNCHANGED <<accepted, rows, decisions, stage>> /\ stage \in {"accepted", "bound", "batched"}
        /\ \E k \in Kinds : \E times \in Miswritten(catalog[k]) \cup Swapped(catalog[k]) :
              catalog' = [catalog EXCEPT ![k] = times]
    BY <1>8 DEF CatalogFault, research
  <2>2. PICK k \in Kinds : \E times \in Miswritten(catalog[k]) \cup Swapped(catalog[k]) :
              catalog' = [catalog EXCEPT ![k] = times]
    BY <2>1
  <2>3. PICK times \in Miswritten(catalog[k]) \cup Swapped(catalog[k]) : catalog' = [catalog EXCEPT ![k] = times]
    BY <2>2
  <2>4. catalog \in [Kinds -> Seq(Int)] /\ ToSet(catalog.bars) \subseteq bars /\ catalog[k] \in Seq(Int)
    BY <1>2, <2>1
  <2>5. times \in Seq(Int) /\ ToSet(times) \subseteq ToSet(catalog[k])
    BY <2>4, AlteredElements
  <2>6. catalog' \in [Kinds -> Seq(Int)] /\ ToSet(catalog'.bars) \subseteq bars
    <3>1. catalog' \in [Kinds -> Seq(Int)]
      BY <2>3, <2>4, <2>5
    <3>2. CASE k = "bars"
      <4>1. catalog'.bars = times
        BY <2>3, <2>4, <3>2 DEF Kinds
      <4>2. QED
        BY <2>4, <2>5, <3>1, <3>2, <4>1
    <3>3. CASE k # "bars"
      <4>1. catalog'.bars = catalog.bars
        BY <2>3, <2>4, <3>3 DEF Kinds
      <4>2. QED
        BY <2>4, <3>1, <4>1
    <3>4. QED
      BY <3>2, <3>3
  <2>7. QED
    BY <1>2, <1>6, <2>1, <2>6
<1>9. CASE Accept
  <2>1. /\ UNCHANGED <<catalog, rows, decisions>> /\ stage = "checked"
        /\ stage' \in {"accepted", "refused"}
        /\ stage' = "accepted" => RecordComplete
        /\ RecordComplete => accepted' = AcceptanceRecord
        /\ ~ RecordComplete => accepted' = accepted
    BY <1>9 DEF Accept, Pass, research
  <2>2. rows = <<>> /\ decisions = <<>>
    BY <1>2, <2>1
  <2>3. \A S : Rowed(<<>>, S)
    BY DEF Rowed, Times, ToSet
  <2>4. ASSUME stage' = "accepted"
        PROVE  catalog \in [Kinds -> Seq(Int)] /\ accepted'.events = catalog
    <3>1. HomologyComplete("funding") /\ CatalogWritten
      BY <1>2, <2>1, <2>4 DEF RecordComplete, Sound
    <3>2. catalog = SourceEvents
      BY <1>2, <3>1, AcceptIsWhole
    <3>3. QED
      BY <1>2, <2>1, <2>4, <3>2, SourceTyped DEF AcceptanceRecord
  <2>5. stage' = "accepted" => ToSet(catalog'.bars) \subseteq bars'
    BY <2>1, <2>4 DEF bars
  <2>6. QED
    BY <2>1, <2>2, <2>3, <2>4, <2>5
<1>10. CASE Bind
  <2>1. UNCHANGED <<accepted, rows, decisions, catalog>> /\ stage = "accepted" /\ stage' \in {"bound", "refused"}
    BY <1>10 DEF Bind, Pass
  <2>2. QED
    BY <1>2, <1>6, <2>1
<1>11. CASE BatchRead
  <2>1. /\ UNCHANGED <<accepted, rows, decisions, catalog>> /\ stage = "bound" /\ stage' \in {"batch", "refused"}
        /\ stage' = "batch" => input' = WindowEvents
    BY <1>11 DEF BatchRead, Pass
  <2>2. catalog \in [Kinds -> Seq(Int)] /\ ToSet(catalog.bars) \subseteq bars
    BY <1>2, <2>1
  <2>3. WindowEvents \in [Kinds -> Seq(Int)] /\ ToSet(WindowEvents.bars) \subseteq ToSet(catalog.bars)
    <3>1. ASSUME NEW k \in Kinds
          PROVE  /\ WindowEvents[k] \in Seq(Int) /\ ToSet(WindowEvents[k]) \subseteq ToSet(catalog[k])
      <4>1. catalog[k] \in Seq(Int) /\ WindowEvents[k] = Within(catalog[k], WindowFrom[k], WindowTo[k])
        BY <2>2 DEF WindowEvents
      <4>2. QED
        BY <4>1, WithinElements
    <3>2. "bars" \in Kinds /\ WindowEvents = [k \in Kinds |-> WindowEvents[k]]
      BY DEF Kinds, WindowEvents
    <3>3. QED
      BY <3>1, <3>2
  <2>4. QED
    BY <1>2, <1>6, <2>1, <2>2, <2>3
<1>12. CASE BatchBar
  <2> DEFINE d == Head(Undecided)
             s == FeedBar(features, input, d)
  <2>1. /\ UNCHANGED <<accepted, decisions, catalog>> /\ stage = "batch" /\ Undecided # <<>>
        /\ stage' \in {"batch", "refused"}
        /\ rows' = IF s.ok THEN rows \o s.row ELSE rows
        /\ input' = [input EXCEPT !.marks = After(@, d), !.funding = After(@, d)]
    BY <1>12 DEF BatchBar, Pass
  <2>2. input \in [Kinds -> Seq(Int)] /\ ToSet(input.bars) \subseteq bars
    BY <1>2, <2>1
  <2>3. Undecided \in Seq(Int) /\ ToSet(Undecided) \subseteq ToSet(input.bars)
    <3>1. input.bars \in Seq(Int)
      BY <2>2 DEF Kinds
    <3>2. \A S : Kept(input.bars, S) \in Seq(Int) /\ ToSet(Kept(input.bars, S)) \subseteq ToSet(input.bars)
      BY <3>1, KeptElements
    <3>3. QED
      BY <3>2 DEF Undecided
  <2>4. d \in bars
    BY <2>1, <2>2, <2>3, EndElements
  <2> HIDE DEF d
  <2>5. s.row = <<>> \/ \E r : s.row = <<r>> /\ r.ts \in bars
    BY <1>2, <2>2, <2>4, FedRow DEF Shaped
  <2> HIDE DEF s
  <2>6. Rowed(rows', bars)
    <3>1. Rowed(rows \o s.row, bars)
      BY <1>2, <2>5, RowedAdded
    <3>2. QED
      BY <1>2, <2>1, <3>1
  <2>7. input' \in [Kinds -> Seq(Int)] /\ input'.bars = input.bars
    <3>1. After(input.marks, d) \in Seq(Int) /\ After(input.funding, d) \in Seq(Int)
      <4>1. input.marks \in Seq(Int) /\ input.funding \in Seq(Int)
        BY <2>2 DEF Kinds
      <4>2. \A times \in Seq(Int) : \A S : Kept(times, S) \in Seq(Int)
        BY KeptElements
      <4>3. QED
        BY <4>1, <4>2 DEF After
    <3>2. QED
      BY <2>1, <2>2, <3>1 DEF Kinds
  <2>8. QED
    BY <1>2, <1>6, <2>1, <2>2, <2>6, <2>7
<1>13. CASE FinishBatch
  <2>1. /\ UNCHANGED <<accepted, decisions, catalog>> /\ stage = "batch"
        /\ stage' \in {"batched", "trained", "refused"}
        /\ rows' = rows \/ rows' = Purged(rows)
    BY <1>13 DEF FinishBatch, Pass
  <2>2. Rowed(Purged(rows), bars)
    BY <1>2, RowedKept DEF Purged
  <2>3. QED
    BY <1>2, <1>6, <2>1, <2>2
<1>14. CASE EngineRead
  <2> DEFINE read == [k \in Kinds |-> Within(catalog[k], window.start, window.end)]
  <2>1. /\ UNCHANGED <<accepted, rows, decisions, catalog>> /\ stage = "batched"
        /\ stage' \in {"engine", "refused"}
        /\ input' = [k \in Kinds |-> InTimeOrder(read[k])]
    BY <1>14 DEF EngineRead, Pass
  <2>2. catalog \in [Kinds -> Seq(Int)] /\ ToSet(catalog.bars) \subseteq bars
    BY <1>2, <2>1
  <2>3. ASSUME NEW k \in Kinds
        PROVE  input'[k] \in Seq(Int) /\ ToSet(input'[k]) \subseteq ToSet(catalog[k])
    <3>1. catalog[k] \in Seq(Int) /\ read[k] = Within(catalog[k], window.start, window.end)
      BY <2>2
    <3>2. read[k] \in Seq(Int) /\ ToSet(read[k]) \subseteq ToSet(catalog[k])
      BY <3>1, WithinElements
    <3>3. input'[k] = InTimeOrder(read[k])
      BY <2>1
    <3> HIDE DEF read
    <3>4. QED
      BY <3>2, <3>3, OrderedElements
  <2>4. input' \in [Kinds -> Seq(Int)] /\ ToSet(input'.bars) \subseteq ToSet(catalog.bars)
    <3>1. "bars" \in Kinds /\ input' = [k \in Kinds |-> input'[k]]
      BY <2>1 DEF Kinds
    <3>2. QED
      BY <2>3, <3>1
  <2>5. QED
    BY <1>2, <1>6, <2>1, <2>2, <2>4
<1>15. CASE OnMarkPrice \/ OnFundingRate
  <2>1. /\ UNCHANGED <<accepted, rows, decisions, catalog>> /\ stage = "engine"
        /\ stage' \in {"engine", "refused"}
        /\ \/ input.marks # <<>> /\ input' = [input EXCEPT !.marks = Tail(@)]
           \/ input.funding # <<>> /\ input' = [input EXCEPT !.funding = Tail(@)]
    BY <1>15 DEF OnMarkPrice, OnFundingRate, IsNextEvent, Pass
  <2>2. input \in [Kinds -> Seq(Int)] /\ ToSet(input.bars) \subseteq bars
    BY <1>2, <2>1
  <2>3. input.marks \in Seq(Int) /\ input.funding \in Seq(Int)
    BY <2>2 DEF Kinds
  <2>4. input' \in [Kinds -> Seq(Int)] /\ input'.bars = input.bars
    <3>1. \A times \in Seq(Int) : times # <<>> => Tail(times) \in Seq(Int)
      OBVIOUS
    <3>2. QED
      BY <2>1, <2>2, <2>3, <3>1 DEF Kinds
  <2>5. QED
    BY <1>2, <1>6, <2>1, <2>2, <2>4
<1>16. CASE OnBar
  <2> DEFINE d == Head(input.bars)
             s == PushBar(features, d)
  <2>1. /\ UNCHANGED <<accepted, rows, catalog>> /\ stage = "engine" /\ input.bars # <<>>
        /\ stage' \in {"engine", "refused"}
        /\ decisions' = decisions \/ decisions' = decisions \o s.row
        /\ input' = [input EXCEPT !.bars = Tail(@)]
    BY <1>16 DEF OnBar, IsNextEvent, Pass
  <2>2. input \in [Kinds -> Seq(Int)] /\ ToSet(input.bars) \subseteq bars /\ input.bars \in Seq(Int)
    BY <1>2, <2>1 DEF Kinds
  <2>3. /\ d \in bars
        /\ Tail(input.bars) \in Seq(Int) /\ ToSet(Tail(input.bars)) \subseteq ToSet(input.bars)
    BY <2>1, <2>2, EndElements
  <2> HIDE DEF d
  <2>4. s.row = <<>> \/ \E r : s.row = <<r>> /\ r.ts \in bars
    BY <1>2, <2>3, BarRow DEF Shaped
  <2> HIDE DEF s
  <2>5. Rowed(decisions \o s.row, bars)
    BY <1>2, <2>4, RowedAdded
  <2>6. input' \in [Kinds -> Seq(Int)] /\ input'.bars = Tail(input.bars)
    BY <2>1, <2>2, <2>3 DEF Kinds
  <2>7. QED
    BY <1>2, <1>6, <2>1, <2>2, <2>3, <2>5, <2>6
<1>17. CASE Parity
  <2>1. UNCHANGED <<accepted, rows, decisions>> /\ stage' \in {"published", "refused"}
    BY <1>17 DEF Parity, Pass, research
  <2>2. QED
    BY <1>2, <1>6, <2>1
<1>18. CASE UNCHANGED vars
  <2>1. UNCHANGED <<accepted, rows, decisions, catalog, input, stage>>
    BY <1>18 DEF vars, research
  <2>2. QED
    BY <1>2, <1>6, <2>1
<1>19. QED
  BY <1>1, <1>7, <1>8, <1>9, <1>10, <1>11, <1>12, <1>13, <1>14, <1>15, <1>16, <1>17, <1>18 DEF Next

(* Every variable has its type; the rows and the decisions are of accepted     *)
(* bars, although the catalog may have changed since and the engine reads it   *)
(* a second time.                                                              *)
THEOREM TypeOKHolds == Spec => []TypeOK
<1>1. Init => Typed
  BY TypedInit
<1>2. Typed /\ [Next]_vars => Typed'
  <2>1. SUFFICES ASSUME Typed, [Next]_vars PROVE Typed'
    OBVIOUS
  <2>2. Sound' /\ Controlled'
    BY <2>1, SoundNext, ControlNext DEF Typed
  <2>3. Shaped' /\ Drawn'
    BY <2>1, ShapedNext, DrawnNext
  <2>4. QED
    BY <2>2, <2>3 DEF Typed
<1>3. Typed => TypeOK
  BY TypedHolds
<1>4. QED
  BY <1>1, <1>2, <1>3, PTL DEF Spec

-----------------------------------------------------------------------------
(* The order of what is read. *)

(* What holds of every element and every later one. *)
Pairwise(seq, R) == \A j \in DOMAIN seq : \A i \in 1 .. j - 1 : <<seq[i], seq[j]>> \in R

LEMMA AppendedPairs ==
  ASSUME NEW T, NEW R, NEW seq \in Seq(T), Pairwise(seq, R), NEW t \in T,
         \A i \in DOMAIN seq : <<seq[i], t>> \in R
  PROVE  Append(seq, t) \in Seq(T) /\ Pairwise(Append(seq, t), R)
<1>1. Len(seq) \in Nat /\ DOMAIN seq = 1 .. Len(seq)
  OBVIOUS
<1>2. /\ Append(seq, t) \in Seq(T) /\ DOMAIN Append(seq, t) = 1 .. Len(seq) + 1
      /\ Append(seq, t)[Len(seq) + 1] = t
      /\ \A i \in 1 .. Len(seq) : Append(seq, t)[i] = seq[i]
  BY <1>1
<1> DEFINE a == Append(seq, t)
<1> HIDE DEF a
<1>3. SUFFICES ASSUME NEW j \in 1 .. Len(seq) + 1, NEW i \in 1 .. j - 1 PROVE <<a[i], a[j]>> \in R
  BY <1>2 DEF Pairwise, a
<1>4. i \in 1 .. Len(seq) /\ a[i] = seq[i]
  BY <1>1, <1>2 DEF a
<1>5. CASE j = Len(seq) + 1
  BY <1>1, <1>2, <1>4, <1>5 DEF a
<1>6. CASE j \in 1 .. Len(seq)
  <2>1. a[j] = seq[j]
    BY <1>2, <1>6 DEF a
  <2>2. <<seq[i], seq[j]>> \in R
    BY <1>1, <1>6 DEF Pairwise
  <2>3. QED
    BY <1>4, <2>1, <2>2
<1>7. QED
  BY <1>1, <1>5, <1>6

LEMMA KeptPairs ==
  ASSUME NEW T, NEW S, NEW R, NEW seq \in Seq(T), Pairwise(seq, R)
  PROVE  Pairwise(Kept(seq, S), R)
<1> DEFINE parts == [i \in DOMAIN seq |-> IF seq[i] \in S THEN <<seq[i]>> ELSE <<>>]
           K == Kept(seq, S)
<1>1. Len(seq) \in Nat /\ DOMAIN seq = 1 .. Len(seq) /\ \A i \in DOMAIN seq : seq[i] \in T
  OBVIOUS
<1>2. CASE Len(seq) = 0
  <2>1. ToSet(seq) = {}
    BY <1>1, <1>2 DEF ToSet
  <2>2. \A x : x \notin ToSet(K)
    BY <2>1, KeptElements
  <2> HIDE DEF K
  <2>3. DOMAIN K = {}
    BY <2>2 DEF ToSet
  <2>4. QED
    BY <2>3 DEF Pairwise, K
<1>3. CASE Len(seq) # 0
  <2>1. Len(parts) = Len(seq) /\ Len(seq) \in Nat \ {0}
    <3>1. parts \in Seq(Seq(T \cap S)) /\ Len(parts) = Len(seq)
      BY PartsType, ZenonT(60)
    <3>2. QED
      BY <1>1, <1>3, <3>1
  <2>2. PICK f : /\ \A i \in 1 .. Len(parts) : f[i] = IF i = 1 THEN parts[i] ELSE f[i-1] \o parts[i]
                 /\ FlattenSeq(parts) = f[Len(parts)]
    <3> HIDE DEF parts
    <3>1. QED
      BY <2>1, FlatDef
  <2> DEFINE Good(n) == f[n] \in Seq(T) /\ Pairwise(f[n], R) /\ ToSet(f[n]) \subseteq {seq[i] : i \in 1 .. n}
             Q == {n \in Nat : n + 1 <= Len(seq) => Good(n + 1)}
  <2>3. \A i \in 1 .. Len(seq) : parts[i] = <<seq[i]>> \/ parts[i] = <<>>
    BY <1>1
  <2> HIDE DEF parts
  <2>4. 0 \in Q
    <3>1. f[1] = <<seq[1]>> \/ f[1] = <<>>
      BY <2>1, <2>2, <2>3
    <3>2. seq[1] \in T /\ 1 \in 1 .. 1 /\ 1 \in 1 .. Len(seq)
      BY <1>1, <2>1
    <3>3. CASE f[1] = <<>>
      <4>1. DOMAIN f[1] = {} /\ f[1] \in Seq(T)
        BY <3>3
      <4>2. QED
        BY <4>1 DEF Pairwise, ToSet
    <3>4. CASE f[1] = <<seq[1]>>
      <4>1. DOMAIN f[1] = {1} /\ f[1][1] = seq[1] /\ f[1] \in Seq(T)
        BY <3>2, <3>4
      <4>2. QED
        BY <3>2, <4>1 DEF Pairwise, ToSet
    <3>5. QED
      BY <3>1, <3>3, <3>4
  <2>5. ASSUME NEW n \in Nat, n \in Q PROVE n + 1 \in Q
    <3> DEFINE m == n + 1
    <3>1. SUFFICES ASSUME m + 1 <= Len(seq) PROVE Good(m + 1)
      OBVIOUS
    <3>2. m \in Nat \ {0} /\ m <= Len(seq) /\ m + 1 \in 1 .. Len(seq) /\ (m + 1) - 1 = m /\ m + 1 # 1
      BY <2>1, <3>1
    <3>3. Good(m)
      BY <2>1, <2>5, <3>1
    <3> HIDE DEF m
    <3>4. f[m + 1] = f[m] \o parts[m + 1]
      <4>1. f[m + 1] = f[(m + 1) - 1] \o parts[m + 1]
        BY <2>1, <2>2, <3>2
      <4>2. QED
        BY <3>2, <4>1
    <3>5. {seq[i] : i \in 1 .. m} \subseteq {seq[i] : i \in 1 .. m + 1}
      BY <3>2
    <3>6. CASE parts[m + 1] = <<>>
      <4>1. f[m] \o <<>> = f[m]
        BY <3>3, ConcatEmptySeq
      <4>2. f[m + 1] = f[m]
        BY <3>4, <3>6, <4>1
      <4>3. QED
        BY <3>3, <3>5, <4>2
    <3>7. CASE parts[m + 1] = <<seq[m + 1]>>
      <4> DEFINE g == f[m]
                 t == seq[m + 1]
      <4>1. g \in Seq(T) /\ Pairwise(g, R) /\ ToSet(g) \subseteq {seq[i] : i \in 1 .. m}
        BY <3>3
      <4>2. t \in T
        BY <1>1, <3>2
      <4>3. \A i \in 1 .. m : <<seq[i], t>> \in R
        <5>1. m + 1 \in DOMAIN seq
          BY <1>1, <3>2
        <5>2. \A i \in 1 .. (m + 1) - 1 : <<seq[i], seq[m + 1]>> \in R
          BY <5>1 DEF Pairwise
        <5>3. QED
          BY <3>2, <5>2
      <4> HIDE DEF g, t
      <4>4. f[m + 1] = Append(g, t)
        <5>1. f[m + 1] = g \o <<t>>
          BY <3>4, <3>7 DEF g, t
        <5>2. g \o <<t>> = Append(g, t)
          BY <4>1, <4>2
        <5>3. QED
          BY <5>1, <5>2
      <4>5. \A i \in DOMAIN g : <<g[i], t>> \in R
        BY <4>1, <4>3 DEF ToSet
      <4>6. Append(g, t) \in Seq(T) /\ Pairwise(Append(g, t), R)
        BY <4>1, <4>2, <4>5, AppendedPairs
      <4>7. ToSet(Append(g, t)) \subseteq ToSet(g) \cup {t}
        BY <4>1, <4>2 DEF ToSet
      <4>8. t \in {seq[i] : i \in 1 .. m + 1}
        BY <3>2 DEF t
      <4>9. QED
        BY <3>5, <4>1, <4>4, <4>6, <4>7, <4>8, SMTT(30)
    <3>8. QED
      BY <2>3, <3>2, <3>6, <3>7
  <2>6. Nat \subseteq Q
    BY <2>4, <2>5, Induction
  <2>7. Len(seq) - 1 \in Nat /\ (Len(seq) - 1) + 1 = Len(seq)
    BY <2>1
  <2>8. Pairwise(f[Len(seq)], R)
    <3>1. Len(seq) - 1 \in Q
      BY <2>6, <2>7
    <3>2. QED
      BY <2>1, <2>7, <3>1
  <2>9. K = FlattenSeq(parts)
    BY DEF Kept, parts
  <2>10. QED
    BY <2>1, <2>2, <2>8, <2>9
<1>4. QED
  BY <1>2, <1>3

LEMMA Greatest ==
  ASSUME NEW n \in Nat, NEW S, S \subseteq 1 .. n, S # {}
  PROVE  \E h \in S : \A i \in S : i <= h
<1> DEFINE T == {k \in Nat : \A A : A \subseteq 1 .. k /\ A # {} => \E h \in A : \A i \in A : i <= h}
<1>1. 0 \in T
  OBVIOUS
<1>2. ASSUME NEW k \in Nat, k \in T PROVE k + 1 \in T
  <2>1. SUFFICES ASSUME NEW A, A \subseteq 1 .. k + 1, A # {} PROVE \E h \in A : \A i \in A : i <= h
    OBVIOUS
  <2>2. CASE k + 1 \in A
    BY <2>1, <2>2
  <2>3. CASE k + 1 \notin A
    <3>1. A \subseteq 1 .. k
      BY <2>1, <2>3
    <3>2. QED
      BY <1>2, <2>1, <3>1
  <2>4. QED
    BY <2>2, <2>3
<1>3. Nat \subseteq T
  BY <1>1, <1>2, Induction
<1>4. n \in T
  BY <1>3
<1>5. QED
  BY <1>4

LEMMA FirstOnes ==
  ASSUME NEW n \in Nat, NEW S, S \subseteq 1 .. n, \A i \in S : \A k \in 1 .. i : k \in S
  PROVE  Cardinality(S) \in 0 .. n /\ S = 1 .. Cardinality(S)
<1>1. \A m \in Nat : Cardinality(1 .. m) = m
  BY FS_Interval
<1>2. CASE S = {}
  <2>1. Cardinality(S) = 0
    BY <1>2, FS_EmptySet
  <2>2. QED
    BY <1>2, <2>1
<1>3. CASE S # {}
  <2>1. PICK h \in S : \A i \in S : i <= h
    BY <1>3, Greatest
  <2>2. h \in 1 .. n /\ S = 1 .. h
    <3>1. h \in 1 .. n /\ \A i \in S : i \in 1 .. h
      BY <2>1
    <3>2. \A i \in 1 .. h : i \in S
      BY <2>1
    <3>3. QED
      BY <3>1, <3>2
  <2>3. Cardinality(S) = h
    BY <1>1, <2>2
  <2>4. QED
    BY <2>2, <2>3
<1>4. QED
  BY <1>2, <1>3

LEMMA InsertedInOrder ==
  ASSUME NEW g \in Seq(Int), Pairwise(g, {p \in Int \X Int : p[1] <= p[2]}), NEW t \in Int
  PROVE  /\ InsertTime(g, t) \in Seq(Int)
         /\ Pairwise(InsertTime(g, t), {p \in Int \X Int : p[1] <= p[2]})
<1> DEFINE earlier == {i \in DOMAIN g : g[i] <= t}
           p == Place(g, t)
           h == InsertTime(g, t)
<1>1. Len(g) \in Nat /\ DOMAIN g = 1 .. Len(g) /\ \A i \in 1 .. Len(g) : g[i] \in Int
  OBVIOUS
<1>2. ASSUME NEW j \in 1 .. Len(g), NEW i \in 1 .. Len(g), i <= j PROVE g[i] <= g[j]
  <2>1. CASE i = j
    BY <1>1, <2>1
  <2>2. CASE i # j
    <3>1. i \in 1 .. j - 1 /\ j \in DOMAIN g
      BY <1>1, <1>2, <2>2
    <3>2. <<g[i], g[j]>> \in {q \in Int \X Int : q[1] <= q[2]}
      BY <3>1 DEF Pairwise
    <3>3. QED
      BY <3>2
  <2>3. QED
    BY <2>1, <2>2
<1>3. Cardinality(earlier) \in 0 .. Len(g) /\ earlier = 1 .. Cardinality(earlier)
  <2>1. earlier \subseteq 1 .. Len(g)
    BY <1>1
  <2>2. ASSUME NEW i \in earlier, NEW k \in 1 .. i PROVE k \in earlier
    <3>1. k \in 1 .. Len(g) /\ i \in 1 .. Len(g) /\ k <= i /\ g[i] <= t
      BY <1>1, <2>2
    <3>2. g[k] <= g[i] /\ g[k] \in Int /\ g[i] \in Int
      BY <1>1, <1>2, <3>1
    <3>3. QED
      BY <1>1, <3>1, <3>2
  <2> HIDE DEF earlier
  <2>3. QED
    BY <1>1, <2>1, <2>2, FirstOnes
<1>4. p = Cardinality(earlier) + 1
  BY DEF Place
<1>5. p \in 1 .. Len(g) + 1 /\ earlier = 1 .. p - 1
  <2> HIDE DEF p, earlier
  <2>1. QED
    BY <1>1, <1>3, <1>4
<1>6. h = InsertAt(g, p, t)
  BY DEF InsertTime
<1>7. /\ h \in Seq(Int) /\ DOMAIN h = 1 .. Len(g) + 1
      /\ \A j \in 1 .. Len(g) + 1 : h[j] = IF j < p THEN g[j] ELSE IF j = p THEN t ELSE g[j-1]
  <2> HIDE DEF p
  <2>1. /\ InsertAt(g, p, t) \in Seq(Int) /\ Len(InsertAt(g, p, t)) = Len(g) + 1
        /\ \A j \in 1 .. Len(g) + 1 :
               InsertAt(g, p, t)[j] = IF j < p THEN g[j] ELSE IF j = p THEN t ELSE g[j-1]
    BY <1>5, InsertElements, SMTT(30)
  <2> HIDE DEF h
  <2>2. QED
    BY <1>1, <1>6, <2>1
<1>8. \A i \in 1 .. Len(g) : g[i] <= t <=> i < p
  <2>1. \A i \in 1 .. Len(g) : g[i] <= t <=> i \in earlier
    BY <1>1
  <2> HIDE DEF earlier, p
  <2>2. QED
    BY <1>5, <2>1
<1> HIDE DEF p, earlier, h
<1>9. ASSUME NEW j \in 1 .. Len(g) + 1, NEW i \in 1 .. j - 1 PROVE h[i] <= h[j]
  <2>1. i \in 1 .. Len(g) + 1 /\ i < j
    BY <1>1
  <2>2. CASE j < p
    <3>1. h[i] = g[i] /\ h[j] = g[j] /\ i \in 1 .. Len(g) /\ j \in 1 .. Len(g) /\ i <= j
      BY <1>1, <1>5, <1>7, <2>1, <2>2
    <3>2. QED
      BY <1>2, <3>1
  <2>3. CASE j = p
    <3>1. h[i] = g[i] /\ h[j] = t /\ i \in 1 .. Len(g) /\ i < p
      BY <1>1, <1>5, <1>7, <2>1, <2>3
    <3>2. QED
      BY <1>8, <3>1
  <2>4. CASE j > p
    <3>1. h[j] = g[j-1] /\ j - 1 \in 1 .. Len(g) /\ ~ (j - 1 < p)
      BY <1>1, <1>5, <1>7, <2>1, <2>4
    <3>2. CASE i < p
      <4>1. h[i] = g[i] /\ i \in 1 .. Len(g) /\ i <= j - 1
        BY <1>1, <1>5, <1>7, <2>1, <2>4, <3>2
      <4>2. QED
        BY <1>2, <3>1, <4>1
    <3>3. CASE i = p
      <4>1. h[i] = t /\ ~ (g[j-1] <= t) /\ g[j-1] \in Int
        BY <1>1, <1>5, <1>7, <1>8, <2>1, <3>1, <3>3
      <4>2. QED
        BY <3>1, <4>1
    <3>4. CASE i > p
      <4>1. h[i] = g[i-1] /\ i - 1 \in 1 .. Len(g) /\ i - 1 <= j - 1
        BY <1>1, <1>5, <1>7, <2>1, <2>4, <3>4
      <4>2. QED
        BY <1>2, <3>1, <4>1
    <3>5. QED
      BY <1>5, <2>1, <3>2, <3>3, <3>4
  <2>5. QED
    BY <1>5, <2>2, <2>3, <2>4
<1>10. Pairwise(h, {q \in Int \X Int : q[1] <= q[2]})
  <2>1. ASSUME NEW j \in DOMAIN h, NEW i \in 1 .. j - 1 PROVE <<h[i], h[j]>> \in {q \in Int \X Int : q[1] <= q[2]}
    <3>1. j \in 1 .. Len(g) + 1 /\ i \in 1 .. Len(g) + 1
      BY <1>1, <1>7
    <3>2. h[i] \in Int /\ h[j] \in Int
      BY <1>7, <3>1
    <3>3. QED
      BY <1>9, <3>1, <3>2
  <2>2. QED
    BY <2>1 DEF Pairwise
<1>11. QED
  BY <1>7, <1>10 DEF h

(* The second read is in the order of time, whatever order the catalog has. *)
LEMMA InTimeOrderIs ==
  ASSUME NEW times \in Seq(Int)
  PROVE  Pairwise(InTimeOrder(times), {p \in Int \X Int : p[1] <= p[2]})
<1> DEFINE R == {p \in Int \X Int : p[1] <= p[2]}
<1>0. Len(times) \in Nat /\ DOMAIN times = 1 .. Len(times)
  OBVIOUS
<1>1. PICK f : /\ f[0] = <<>>
               /\ \A m \in 1 .. Len(times) : f[m] = InsertTime(f[m-1], times[m])
               /\ InTimeOrder(times) = f[Len(times)]
  BY <1>0, InTimeOrderDef
<1> DEFINE Good(n) == f[n] \in Seq(Int) /\ Pairwise(f[n], R)
           T == {n \in Nat : n <= Len(times) => Good(n)}
<1>2. 0 \in T
  <2>1. DOMAIN f[0] = {} /\ f[0] \in Seq(Int)
    BY <1>1
  <2>2. QED
    BY <2>1 DEF Pairwise
<1>3. ASSUME NEW n \in Nat, n \in T PROVE n + 1 \in T
  <2>1. SUFFICES ASSUME n + 1 <= Len(times) PROVE Good(n + 1)
    OBVIOUS
  <2>2. Good(n) /\ n + 1 \in 1 .. Len(times) /\ (n + 1) - 1 = n
    BY <1>0, <1>3, <2>1
  <2>3. f[n + 1] = InsertTime(f[n], times[n + 1])
    <3>1. f[n + 1] = InsertTime(f[(n + 1) - 1], times[n + 1])
      BY <1>1, <2>2
    <3>2. QED
      BY <2>2, <3>1
  <2>4. times[n + 1] \in Int
    BY <1>0, <2>2
  <2>5. QED
    BY <2>2, <2>3, <2>4, InsertedInOrder
<1>4. Nat \subseteq T
  BY <1>2, <1>3, Induction
<1>5. Len(times) \in T
  BY <1>0, <1>4
<1>6. QED
  BY <1>0, <1>1, <1>5

-----------------------------------------------------------------------------
(* The settlements the state keeps. *)

FundingGrid == FixedGrid("funding")
Slot(t) == GridIndex(FundingGrid, t)
InSlots(settled) ==
    /\ \A i \in DOMAIN settled : OnGrid(FundingGrid, settled[i])
    /\ Pairwise(settled, {p \in Int \X Int : Slot(p[1]) < Slot(p[2])})
(* Of two settlements up to the bar, the earlier one is in the bar's window. *)
InWindow(settled, bar) ==
    Pairwise(settled, {p \in Int \X Int : p[2] <= bar => p[1] > bar - FundingWindow})

Retains(s) ==
    /\ DOMAIN s = FeatureFields /\ s.ok \in BOOLEAN
    /\ s.funding \in Seq(Nat) /\ s.bars \in Seq(Int) /\ Len(s.bars) <= Lookback + 1
    /\ s.funding # <<>> => s.lastFunding = Last(s.funding)
    /\ s.ok => InSlots(s.funding)
    /\ s.bars # <<>> => InWindow(s.funding, Last(s.bars))

LEMMA FeatureFacts ==
  /\ Lookback \in Nat /\ Horizon \in Nat /\ FundingWindow \in Nat /\ FundingMaxAge \in Nat
  /\ (FundingWindow % FundingInterval) + 2 * FundingTolerance <= FundingInterval
BY FeatureAssumption

LEMMA FieldNames ==
  FeatureFields = {"ok", "bars", "mark", "funding", "lastMark", "firstMark",
                   "lastFunding", "firstFunding", "row"}
BY DEF FeatureFields, Fresh

LEMMA LastIsElement ==
  ASSUME NEW T, NEW seq \in Seq(T), seq # <<>>
  PROVE  /\ Len(seq) \in Nat \ {0} /\ DOMAIN seq = 1 .. Len(seq)
         /\ Last(seq) = seq[Len(seq)] /\ Last(seq) \in T
BY DEF Last

LEMMA LastAppended ==
  ASSUME NEW T, NEW seq \in Seq(T), NEW t \in T
  PROVE  /\ Append(seq, t) \in Seq(T) /\ Append(seq, t) # <<>>
         /\ Len(Append(seq, t)) = Len(seq) + 1 /\ Last(Append(seq, t)) = t
<1>1. /\ Append(seq, t) \in Seq(T) /\ Len(Append(seq, t)) = Len(seq) + 1 /\ Len(seq) \in Nat
      /\ Append(seq, t)[Len(seq) + 1] = t
  OBVIOUS
<1>2. QED
  BY <1>1 DEF Last

LEMMA SlotFacts ==
  ASSUME NEW t \in Int
  PROVE  /\ Slot(t) \in Int
         /\ OnGrid(FundingGrid, t) => t - Slot(t) * FundingInterval \in -FundingTolerance .. FundingTolerance
<1>1. FundingGrid.first = 0 /\ FundingGrid.cadence = FundingInterval /\ FundingGrid.tolerance = FundingTolerance
  BY DEF FundingGrid, FixedGrid
<1>2. FundingInterval \in Nat \ {0} /\ FundingTolerance \in Nat
  BY ClockFacts
<1>3. Slot(t) \in Int
  <2>1. Slot(t) = (2 * (t - 0) + FundingInterval) \div (2 * FundingInterval)
    BY <1>1 DEF Slot, GridIndex
  <2>2. 2 * (t - 0) + FundingInterval \in Int /\ 2 * FundingInterval \in Nat \ {0}
    BY <1>2
  <2>3. QED
    BY <2>1, <2>2, DivisionType
<1>4. ASSUME OnGrid(FundingGrid, t)
      PROVE  t - Slot(t) * FundingInterval \in -FundingTolerance .. FundingTolerance
  <2>1. Magnitude(t - 0 - Slot(t) * FundingInterval) <= FundingTolerance
    BY <1>1, <1>4 DEF OnGrid, Slot
  <2> DEFINE x == Slot(t) * FundingInterval
  <2>2. x \in Int
    BY <1>2, <1>3
  <2> HIDE DEF x
  <2>3. Magnitude(t - 0 - x) <= FundingTolerance
    BY <2>1 DEF x
  <2>4. t - x \in -FundingTolerance .. FundingTolerance
    BY <1>2, <2>2, <2>3 DEF Magnitude
  <2>5. QED
    BY <2>4 DEF x
<1>5. QED
  BY <1>3, <1>4

LEMMA MarkRetains ==
  ASSUME NEW s, Retains(s), NEW t
  PROVE  Retains(PushMark(s, t)) /\ PushMark(s, t).bars = s.bars
<1> DEFINE next == IsNext(FixedGrid("marks"), t, s.lastMark)
<1>0. next \in BOOLEAN
  BY DEF IsNext
<1>1. /\ PushMark(s, t).funding = s.funding /\ PushMark(s, t).bars = s.bars
      /\ PushMark(s, t).lastFunding = s.lastFunding /\ PushMark(s, t).ok = (s.ok /\ next)
      /\ DOMAIN PushMark(s, t) = FeatureFields
  <2> HIDE DEF next
  <2>1. QED
    BY FieldNames DEF Retains, PushMark, next
<1> HIDE DEF next
<1>2. QED
  BY <1>0, <1>1 DEF Retains

LEMMA FundingRetains ==
  ASSUME NEW s, Retains(s), NEW t \in Nat, s.bars # <<>> => t > Last(s.bars)
  PROVE  Retains(PushFunding(s, t)) /\ PushFunding(s, t).bars = s.bars
<1> DEFINE next == IsNext(FundingGrid, t, s.lastFunding)
           f == s.funding
           g == Append(f, t)
<1>1. /\ PushFunding(s, t).funding = g /\ PushFunding(s, t).bars = s.bars
      /\ PushFunding(s, t).lastFunding = t /\ PushFunding(s, t).ok = (s.ok /\ next)
      /\ DOMAIN PushFunding(s, t) = FeatureFields
  <2> HIDE DEF next
  <2>1. QED
    BY FieldNames DEF Retains, PushFunding, next, FundingGrid
<1>2. next \in BOOLEAN /\ s.ok \in BOOLEAN /\ f \in Seq(Nat) /\ s.bars \in Seq(Int)
  BY DEF Retains, IsNext
<1>3. g \in Seq(Nat) /\ Last(g) = t /\ g # <<>>
  BY <1>2, LastAppended
<1>4. \A i \in DOMAIN f : f[i] \in Nat
  BY <1>2
<1>5. ASSUME s.ok, next PROVE InSlots(g)
  <2>1. InSlots(f)
    BY <1>5 DEF Retains
  <2>2. OnGrid(FundingGrid, t)
    BY <1>5 DEF IsNext
  <2>3. ASSUME NEW i \in DOMAIN f PROVE Slot(f[i]) < Slot(t)
    <3>1. f # <<>>
      BY <2>3
    <3>2. s.lastFunding = f[Len(f)] /\ Len(f) \in DOMAIN f /\ DOMAIN f = 1 .. Len(f) /\ Len(f) \in Nat
      BY <1>2, <3>1, LastIsElement DEF Retains
    <3>3. s.lastFunding # None
      BY <1>4, <3>2 DEF None
    <3>4. Slot(t) > Slot(f[Len(f)])
      BY <1>5, <3>2, <3>3 DEF IsNext, Slot
    <3>5. Slot(f[i]) \in Int /\ Slot(f[Len(f)]) \in Int /\ Slot(t) \in Int
      <4>1. \A x \in Int : Slot(x) \in Int
        BY SlotFacts
      <4>2. f[i] \in Int /\ f[Len(f)] \in Int /\ t \in Int
        BY <1>4, <2>3, <3>2
      <4>3. QED
        BY <4>1, <4>2
    <3>6. CASE i = Len(f)
      BY <3>4, <3>5, <3>6
    <3>7. CASE i # Len(f)
      <4>1. i \in 1 .. Len(f) - 1
        BY <3>2, <3>7
      <4>2. <<f[i], f[Len(f)]>> \in {p \in Int \X Int : Slot(p[1]) < Slot(p[2])}
        BY <2>1, <3>2, <4>1 DEF InSlots, Pairwise
      <4>3. Slot(f[i]) < Slot(f[Len(f)])
        BY <4>2
      <4>4. QED
        BY <3>4, <3>5, <4>3
    <3>8. QED
      BY <3>6, <3>7
  <2>4. \A i \in DOMAIN f : <<f[i], t>> \in {p \in Int \X Int : Slot(p[1]) < Slot(p[2])}
    BY <1>4, <2>3
  <2>5. Pairwise(g, {p \in Int \X Int : Slot(p[1]) < Slot(p[2])})
    BY <1>2, <2>1, <2>4, AppendedPairs DEF InSlots
  <2>6. \A i \in DOMAIN g : OnGrid(FundingGrid, g[i])
    <3>1. \A i \in DOMAIN g : g[i] = t \/ \E k \in DOMAIN f : g[i] = f[k]
      BY <1>2
    <3> HIDE DEF g
    <3>2. QED
      BY <2>1, <2>2, <3>1 DEF InSlots
  <2>7. QED
    BY <2>5, <2>6 DEF InSlots
<1>6. ASSUME s.bars # <<>> PROVE InWindow(g, Last(s.bars))
  <2> DEFINE b == Last(s.bars)
  <2>1. b \in Int /\ InWindow(f, b) /\ t > b
    BY <1>2, <1>6, LastIsElement DEF Retains
  <2> HIDE DEF b
  <2>2. \A i \in DOMAIN f : <<f[i], t>> \in {p \in Int \X Int : p[2] <= b => p[1] > b - FundingWindow}
    BY <1>4, <2>1
  <2>3. QED
    BY <1>2, <2>1, <2>2, AppendedPairs DEF InWindow, b
<1>7. Len(s.bars) <= Lookback + 1
  BY DEF Retains
<1> HIDE DEF next, f, g
<1>8. QED
  BY <1>1, <1>2, <1>3, <1>5, <1>6, <1>7 DEF Retains

Later(s, kind, times) ==
    kind = "marks" \/ \A t \in ToSet(times) : t \in Nat /\ (s.bars # <<>> => t > Last(s.bars))

LEMMA AllRetain ==
  ASSUME NEW s, Retains(s), NEW kind, NEW times, Len(times) \in Nat, DOMAIN times = 1 .. Len(times),
         Later(s, kind, times)
  PROVE  Retains(PushAll(s, kind, times)) /\ PushAll(s, kind, times).bars = s.bars
<1>a. PICK f : PushSteps(f, s, kind, times)
  BY PushedDef
<1>1. /\ f[0] = s
      /\ \A m \in 1 .. Len(times) : f[m] = Push(kind, f[m-1], times[m])
      /\ PushAll(s, kind, times) = f[Len(times)]
  BY <1>a DEF PushSteps
<1> DEFINE T == {n \in Nat : n <= Len(times) => Retains(f[n]) /\ f[n].bars = s.bars}
<1>2. 0 \in T
  BY <1>1
<1>3. ASSUME NEW n \in Nat, n \in T PROVE n + 1 \in T
  <2>1. SUFFICES ASSUME n + 1 <= Len(times) PROVE Retains(f[n + 1]) /\ f[n + 1].bars = s.bars
    OBVIOUS
  <2>2. Retains(f[n]) /\ f[n].bars = s.bars /\ n + 1 \in 1 .. Len(times) /\ (n + 1) - 1 = n
    BY <1>3, <2>1
  <2> DEFINE g == f[n]
             t == times[n + 1]
  <2>3. f[n + 1] = Push(kind, g, t)
    <3>1. f[n + 1] = Push(kind, f[(n + 1) - 1], times[n + 1])
      BY <1>1, <2>2
    <3>2. QED
      BY <2>2, <3>1
  <2>4. t \in ToSet(times)
    BY <2>2 DEF ToSet
  <2>5. Retains(g) /\ g.bars = s.bars
    BY <2>2
  <2> HIDE DEF g, t
  <2>6. CASE kind = "marks"
    <3>1. f[n + 1] = PushMark(g, t)
      BY <2>3, <2>6 DEF Push
    <3>2. QED
      BY <2>5, <3>1, MarkRetains
  <2>7. CASE kind # "marks"
    <3>1. f[n + 1] = PushFunding(g, t)
      BY <2>3, <2>7 DEF Push
    <3>2. t \in Nat /\ (g.bars # <<>> => t > Last(g.bars))
      BY <2>4, <2>5, <2>7 DEF Later
    <3>3. QED
      BY <2>5, <3>1, <3>2, FundingRetains
  <2>8. QED
    BY <2>6, <2>7
<1>4. Nat \subseteq T
  BY <1>2, <1>3, Induction
<1>5. QED
  BY <1>1, <1>4

(* Pruning leaves of the settlements before the newest those of the window.    *)
LEMMA PrunedRetains ==
  ASSUME NEW s, Retains(s), NEW d \in Int
  PROVE  /\ DOMAIN Pruned(s, d) = FeatureFields
         /\ Pruned(s, d).bars = s.bars /\ Pruned(s, d).ok = s.ok
         /\ Pruned(s, d).funding \in Seq(Nat)
         /\ Pruned(s, d).funding # <<>> => Pruned(s, d).lastFunding = Last(Pruned(s, d).funding)
         /\ s.ok => InSlots(Pruned(s, d).funding)
         /\ InWindow(Pruned(s, d).funding, d)
<1> DEFINE f == s.funding
           R == {p \in Int \X Int : Slot(p[1]) < Slot(p[2])}
           W == {p \in Int \X Int : p[2] <= d => p[1] > d - FundingWindow}
<1>1. f \in Seq(Nat) /\ Len(f) \in Nat /\ DOMAIN f = 1 .. Len(f) /\ \A i \in 1 .. Len(f) : f[i] \in Nat
  BY DEF Retains
<1>a. f = s.funding
  OBVIOUS
<1> HIDE DEF f
<1>2. CASE Len(f) < 2
  <2>1. Pruned(s, d) = s
    BY <1>a, <1>2 DEF Pruned
  <2>2. \A j \in DOMAIN f : 1 .. j - 1 = {}
    BY <1>1, <1>2
  <2>3. InWindow(f, d)
    BY <2>2 DEF InWindow, Pairwise
  <2>4. QED
    BY <1>a, <2>1, <2>3 DEF Retains
<1>3. CASE Len(f) >= 2
  <2> DEFINE front == Front(f)
             S == {t \in ToSet(front) : t > d - FundingWindow}
             K == Kept(front, S)
             last == Last(f)
             g == Append(K, last)
  <2>1. /\ front \in Seq(Nat) /\ DOMAIN front = 1 .. Len(f) - 1
        /\ \A i \in 1 .. Len(f) - 1 : front[i] = f[i]
    <3>1. front = SubSeq(f, 1, Len(f) - 1)
      BY DEF Front
    <3>2. QED
      BY <1>1, <1>3, <3>1
  <2>2. last = f[Len(f)] /\ last \in Nat /\ f # <<>> /\ Len(f) \in 1 .. Len(f)
    BY <1>1, <1>3 DEF Last
  <2>3. Pruned(s, d) = [s EXCEPT !.funding = g]
    BY <1>a, <1>3, <1>1 DEF Pruned, Front
  <2>4. /\ DOMAIN Pruned(s, d) = FeatureFields
        /\ Pruned(s, d).bars = s.bars /\ Pruned(s, d).ok = s.ok
        /\ Pruned(s, d).funding = g /\ Pruned(s, d).lastFunding = s.lastFunding
    <3> HIDE DEF g
    <3>1. QED
      BY <2>3, FieldNames DEF Retains
  <2>5. s.lastFunding = last
    BY <1>a, <2>2 DEF Retains
  <2> HIDE DEF front, last
  <2>6. K \in Seq(Nat) /\ \A x : x \in ToSet(K) <=> x \in ToSet(front) /\ x \in S
    BY <2>1, KeptElements
  <2>7. g \in Seq(Nat) /\ Last(g) = last /\ g # <<>>
    <3> HIDE DEF K
    <3>1. QED
      BY <2>2, <2>6, LastAppended
  <2>8. \A i \in DOMAIN K : K[i] \in ToSet(front) /\ K[i] \in Nat /\ K[i] > d - FundingWindow
    <3> HIDE DEF K
    <3>1. \A i \in DOMAIN K : K[i] \in ToSet(K) /\ K[i] \in Nat
      BY <2>6 DEF ToSet
    <3>2. QED
      BY <2>6, <3>1
  <2>9. ASSUME s.ok PROVE InSlots(g)
    <3>1. (\A i \in DOMAIN f : OnGrid(FundingGrid, f[i])) /\ Pairwise(f, R)
      BY <1>a, <2>9 DEF Retains, InSlots
    <3>2. Pairwise(front, R)
      <4>1. ASSUME NEW j \in DOMAIN front, NEW i \in 1 .. j - 1 PROVE <<front[i], front[j]>> \in R
        <5>0. j \in 1 .. Len(f) - 1 /\ i \in 1 .. Len(f) - 1
          BY <1>1, <2>1
        <5>1. j \in DOMAIN f
          BY <1>1, <5>0
        <5>a. front[j] = f[j] /\ front[i] = f[i]
          BY <2>1, <5>0
        <5>2. <<f[i], f[j]>> \in R
          BY <3>1, <5>1 DEF Pairwise
        <5>3. QED
          BY <5>a, <5>2
      <4> HIDE DEF R
      <4>2. QED
        BY <4>1 DEF Pairwise
    <3>3. Pairwise(K, R)
      BY <2>1, <3>2, KeptPairs
    <3>4. \A x \in ToSet(front) : <<x, last>> \in R /\ OnGrid(FundingGrid, x)
      <4>1. ASSUME NEW i \in DOMAIN front PROVE <<front[i], last>> \in R /\ OnGrid(FundingGrid, front[i])
        <5>0. i \in 1 .. Len(f) - 1
          BY <2>1
        <5>1. front[i] = f[i] /\ i \in DOMAIN f /\ Len(f) \in DOMAIN f
          BY <1>1, <1>3, <2>1, <5>0
        <5>2. <<f[i], f[Len(f)]>> \in R
          BY <3>1, <5>0, <5>1 DEF Pairwise
        <5>3. QED
          BY <2>2, <3>1, <5>1, <5>2
      <4>2. QED
        BY <4>1 DEF ToSet
    <3>5. \A i \in DOMAIN K : <<K[i], last>> \in R /\ OnGrid(FundingGrid, K[i])
      BY <2>8, <3>4
    <3>6. OnGrid(FundingGrid, last)
      BY <1>1, <2>2, <3>1
    <3> HIDE DEF R, K
    <3>7. Pairwise(g, R)
      BY <2>2, <2>6, <3>3, <3>5, AppendedPairs
    <3>8. \A i \in DOMAIN g : OnGrid(FundingGrid, g[i])
      <4>1. \A i \in DOMAIN g : g[i] = last \/ \E k \in DOMAIN K : g[i] = K[k]
        BY <2>6, <2>2
      <4> HIDE DEF g
      <4>2. QED
        BY <3>5, <3>6, <4>1
    <3>9. QED
      BY <3>7, <3>8 DEF InSlots, R
  <2>10. InWindow(g, d)
    <3>1. FundingWindow \in Nat
      BY FeatureFacts
    <3>2. Pairwise(K, W)
      <4>1. ASSUME NEW j \in DOMAIN K, NEW i \in 1 .. j - 1 PROVE <<K[i], K[j]>> \in W
        <5> HIDE DEF K
        <5>1. i \in DOMAIN K
          BY <2>6
        <5>2. QED
          BY <2>8, <3>1, <5>1
      <4> HIDE DEF W, K
      <4>2. QED
        BY <4>1 DEF Pairwise
    <3>3. \A i \in DOMAIN K : <<K[i], last>> \in W
      BY <2>2, <2>8, <3>1
    <3> HIDE DEF W, K
    <3>4. Pairwise(g, W)
      BY <2>2, <2>6, <3>2, <3>3, AppendedPairs
    <3>5. QED
      BY <3>4 DEF InWindow, W
  <2> HIDE DEF g
  <2>11. QED
    BY <2>4, <2>5, <2>7, <2>9, <2>10
<1>4. QED
  BY <1>1, <1>2, <1>3

LEMMA BarRetains ==
  ASSUME NEW s, Retains(s), NEW d \in Int
  PROVE  /\ Retains(PushBar(s, d))
         /\ PushBar(s, d).bars # <<>> /\ Last(PushBar(s, d).bars) = d
<1> DEFINE p == Pruned(s, d)
           all == Append(p.bars, d)
           kept == IF Len(all) > Lookback + 1 THEN Tail(all) ELSE all
           t == [p EXCEPT !.bars = kept]
           ready == Len(kept) = Lookback + 1
           follows == p.bars # <<>> => d - Last(p.bars) = BarInterval
           good == follows /\ (d + 1) % BarInterval = 0 /\ (ready => AuxiliaryFresh(t, d) /\ Covered(t, d))
           row == IF ready /\ good THEN <<[ts |-> d, values |-> FeatureValues(t, d)]>> ELSE <<>>
<1>1. PushBar(s, d) = [t EXCEPT !.ok = @ /\ good, !.row = row]
  BY DEF PushBar
<1>2. good \in BOOLEAN
  BY DEF AuxiliaryFresh, AsOf, Covered, WindowCovered
<1>3. /\ DOMAIN p = FeatureFields /\ p.bars = s.bars /\ p.ok = s.ok
      /\ p.funding \in Seq(Nat)
      /\ p.funding # <<>> => p.lastFunding = Last(p.funding)
      /\ s.ok => InSlots(p.funding)
      /\ InWindow(p.funding, d)
  BY PrunedRetains
<1>4. s.bars \in Seq(Int) /\ Len(s.bars) <= Lookback + 1 /\ Len(s.bars) \in Nat /\ s.ok \in BOOLEAN /\ Lookback \in Nat
  BY FeatureFacts DEF Retains
<1> HIDE DEF p, good, row
<1>5. all \in Seq(Int) /\ all # <<>> /\ Len(all) = Len(s.bars) + 1 /\ Last(all) = d
  BY <1>3, <1>4, LastAppended, SMTT(30)
<1>6. kept \in Seq(Int) /\ kept # <<>> /\ Len(kept) <= Lookback + 1 /\ Last(kept) = d
  <2> HIDE DEF all
  <2>1. CASE Len(all) > Lookback + 1
    <3>1. Len(all) >= 2 /\ kept = Tail(all)
      BY <1>4, <1>5, <2>1
    <3>2. Tail(all) \in Seq(Int) /\ Len(Tail(all)) = Len(all) - 1 /\ \A i \in 1 .. Len(all) - 1 : Tail(all)[i] = all[i + 1]
      BY <1>5
    <3>3. Tail(all)[Len(all) - 1] = all[Len(all)] /\ Tail(all) # <<>>
      <4>1. Len(all) - 1 \in 1 .. Len(all) - 1 /\ (Len(all) - 1) + 1 = Len(all)
        BY <1>4, <1>5, <3>1
      <4>2. Tail(all)[Len(all) - 1] = all[(Len(all) - 1) + 1]
        BY <3>2, <4>1
      <4>3. QED
        BY <3>2, <4>1, <4>2
    <3>4. Last(Tail(all)) = d
      BY <1>5, <3>2, <3>3 DEF Last
    <3>5. Len(Tail(all)) <= Lookback + 1
      BY <1>4, <1>5, <3>2
    <3>6. QED
      BY <3>1, <3>2, <3>3, <3>4, <3>5
  <2>2. CASE ~ (Len(all) > Lookback + 1)
    BY <1>4, <1>5, <2>2
  <2>3. QED
    BY <2>1, <2>2
<1> HIDE DEF kept
<1>7. /\ DOMAIN PushBar(s, d) = FeatureFields /\ PushBar(s, d).ok = (s.ok /\ good)
      /\ PushBar(s, d).bars = kept /\ PushBar(s, d).funding = p.funding
      /\ PushBar(s, d).lastFunding = p.lastFunding
  BY <1>1, <1>3, FieldNames
<1>8. QED
  BY <1>2, <1>3, <1>4, <1>6, <1>7 DEF Retains

LEMMA SlotsGrow ==
  ASSUME NEW f \in Seq(Nat), InSlots(f), NEW j \in DOMAIN f, NEW i \in 1 .. j
  PROVE  Slot(f[j]) - Slot(f[i]) >= j - i
<1>1. DOMAIN f = 1 .. Len(f) /\ Len(f) \in Nat /\ \A k \in 1 .. Len(f) : f[k] \in Int
  OBVIOUS
<1>2. \A k \in 1 .. Len(f) : Slot(f[k]) \in Int
  BY <1>1, SlotFacts
<1>3. ASSUME NEW k \in 2 .. Len(f) PROVE Slot(f[k-1]) < Slot(f[k])
  <2>1. k \in DOMAIN f /\ k - 1 \in 1 .. k - 1
    BY <1>1
  <2>2. <<f[k-1], f[k]>> \in {p \in Int \X Int : Slot(p[1]) < Slot(p[2])}
    BY <2>1 DEF InSlots, Pairwise
  <2>3. QED
    BY <2>2
<1> DEFINE T == {n \in Nat : i + n <= Len(f) => Slot(f[i + n]) - Slot(f[i]) >= n}
<1>4. i \in 1 .. Len(f) /\ j \in 1 .. Len(f)
  BY <1>1
<1>5. 0 \in T
  <2>1. i + 0 = i /\ Slot(f[i]) \in Int
    BY <1>2, <1>4
  <2>2. QED
    BY <2>1
<1>6. ASSUME NEW n \in Nat, n \in T PROVE n + 1 \in T
  <2> DEFINE m == i + n
  <2>1. i + (n + 1) = m + 1 /\ m \in Nat
    BY <1>4
  <2>2. SUFFICES ASSUME m + 1 <= Len(f) PROVE Slot(f[m + 1]) - Slot(f[i]) >= n + 1
    BY <2>1
  <2>3. m + 1 \in 2 .. Len(f) /\ (m + 1) - 1 = m /\ m \in 1 .. Len(f) /\ m + 1 \in 1 .. Len(f)
    BY <1>1, <1>4, <2>2
  <2>4. Slot(f[m]) - Slot(f[i]) >= n
    BY <1>6, <2>3
  <2> HIDE DEF m
  <2>5. Slot(f[m]) < Slot(f[m + 1])
    <3>1. Slot(f[(m + 1) - 1]) < Slot(f[m + 1])
      BY <1>3, <2>3
    <3>2. QED
      BY <2>3, <3>1
  <2>6. Slot(f[m]) \in Int /\ Slot(f[m + 1]) \in Int /\ Slot(f[i]) \in Int
    BY <1>2, <1>4, <2>3
  <2>7. QED
    BY <2>4, <2>5, <2>6
<1>7. Nat \subseteq T
  BY <1>5, <1>6, Induction
<1>8. j - i \in Nat /\ i + (j - i) = j /\ j <= Len(f)
  BY <1>4
<1>9. j - i \in T
  BY <1>7, <1>8
<1>10. QED
  BY <1>8, <1>9

(* So many multiples of the interval fit in less than a window and the drift.  *)
LEMMA FewIntervals ==
  ASSUME NEW k \in Int, k * FundingInterval < FundingWindow + 2 * FundingTolerance
  PROVE  k <= FundingWindow \div FundingInterval
<1> DEFINE q == FundingWindow \div FundingInterval
           r == FundingWindow % FundingInterval
           m == FundingInterval
<1>1. m \in Nat \ {0} /\ FundingTolerance \in Nat /\ FundingWindow \in Nat
  BY ClockFacts, FeatureFacts
<1>2. FundingWindow = q * m + r /\ q \in Int /\ r \in 0 .. m - 1
  BY <1>1, Division, DivisionType
<1>3. r + 2 * FundingTolerance <= m
  BY FeatureFacts
<1>4. k * m < FundingWindow + 2 * FundingTolerance
  OBVIOUS
<1> HIDE DEF q, r, m
<1>5. q * m \in Int /\ k * m \in Int /\ (q + 1) * m = q * m + m
  BY <1>1, <1>2
<1>6. k * m < (q + 1) * m
  BY <1>1, <1>2, <1>3, <1>4, <1>5
<1>7. SUFFICES ASSUME k >= q + 1 PROVE FALSE
  BY <1>2 DEF q
<1>8. k * m >= (q + 1) * m
  BY <1>1, <1>2, <1>7
<1>9. QED
  BY <1>1, <1>2, <1>5, <1>6, <1>8

LEMMA RetainsFew ==
  ASSUME NEW s, Retains(s), s.ok, s.bars # <<>>
  PROVE  Cardinality({i \in DOMAIN s.funding : s.funding[i] <= Last(s.bars)})
            <= FundingWindow \div FundingInterval + 1
<1> DEFINE f == s.funding
           b == Last(s.bars)
           C == {i \in DOMAIN f : f[i] <= b}
           q == FundingWindow \div FundingInterval
<1>1. f \in Seq(Nat) /\ DOMAIN f = 1 .. Len(f) /\ Len(f) \in Nat /\ \A i \in 1 .. Len(f) : f[i] \in Int
  BY DEF Retains
<1>2. b \in Int /\ InSlots(f) /\ InWindow(f, b)
  BY LastIsElement DEF Retains
<1>3. FundingWindow \in Nat /\ FundingInterval \in Nat \ {0} /\ FundingTolerance \in Nat
  BY ClockFacts, FeatureFacts
<1>4. q \in Nat
  BY <1>3
<1> HIDE DEF f, b, q
<1>5. CASE C = {}
  <2>1. Cardinality(C) = 0
    BY <1>5, FS_EmptySet
  <2>2. QED
    BY <1>4, <2>1 DEF f, b, q
<1>6. CASE C # {}
  <2>1. C \subseteq 1 .. Len(f)
    BY <1>1
  <2>2. PICK h \in C : \A i \in C : i <= h
    <3> HIDE DEF C
    <3>1. QED
      BY <1>1, <1>6, <2>1, Greatest
  <2>3. h \in 1 .. Len(f) /\ f[h] <= b
    BY <1>1, <2>2
  <2>4. ASSUME NEW i \in C PROVE i \in h - q .. h
    <3>1. i \in 1 .. h /\ i \in 1 .. Len(f)
      BY <1>1, <2>2, <2>3
    <3>2. CASE i = h
      BY <1>4, <2>3, <3>2
    <3>3. CASE i # h
      <4>1. i \in 1 .. h - 1
        BY <2>3, <3>1, <3>3
      <4>2. <<f[i], f[h]>> \in {p \in Int \X Int : p[2] <= b => p[1] > b - FundingWindow}
        BY <1>1, <1>2, <2>3, <4>1 DEF InWindow, Pairwise
      <4>3. f[i] > b - FundingWindow
        BY <2>3, <4>2
      <4>4. Slot(f[h]) - Slot(f[i]) >= h - i
        BY <1>1, <1>2, <2>3, <3>1, SlotsGrow
      <4> DEFINE x == Slot(f[h])
                 y == Slot(f[i])
                 m == FundingInterval
      <4>5. x \in Int /\ y \in Int /\ f[h] \in Int /\ f[i] \in Int
        BY <1>1, <2>3, <3>1, SlotFacts
      <4>6. /\ f[h] - x * m \in -FundingTolerance .. FundingTolerance
            /\ f[i] - y * m \in -FundingTolerance .. FundingTolerance
        BY <1>1, <1>2, <2>3, <3>1, <4>5, SlotFacts DEF InSlots
      <4>7. x - y >= h - i
        BY <4>4
      <4>8. m \in Nat \ {0}
        BY <1>3
      <4> HIDE DEF x, y, m
      <4>9. x * m \in Int /\ y * m \in Int /\ (x - y) * m = x * m - y * m
        BY <4>5, <4>8
      <4>10. f[h] - f[i] >= (x - y) * m - 2 * FundingTolerance
        BY <1>3, <4>5, <4>6, <4>9, SMTT(30)
      <4>11. (h - i) * m <= (x - y) * m
        BY <2>3, <3>1, <4>5, <4>7, <4>8, SMTT(30)
      <4>12. (h - i) * m < FundingWindow + 2 * FundingTolerance
        <5>1. f[h] - f[i] < FundingWindow
          BY <1>2, <1>3, <2>3, <4>3, <4>5
        <5>2. (h - i) * m \in Int /\ (x - y) * m \in Int
          BY <2>3, <3>1, <4>5, <4>8
        <5>3. QED
          BY <1>3, <4>5, <4>10, <4>11, <5>1, <5>2
      <4>13. h - i <= q
        <5>1. h - i \in Int
          BY <2>3, <3>1
        <5>2. QED
          BY <4>12, <5>1, FewIntervals DEF m, q
      <4>14. QED
        BY <1>4, <2>3, <3>1, <4>13
    <3>4. QED
      BY <3>2, <3>3
  <2>5. C \subseteq h - q .. h
    BY <2>4
  <2>6. IsFiniteSet(h - q .. h) /\ Cardinality(h - q .. h) = q + 1
    <3>1. h - q \in Int /\ h \in Int
      BY <1>4, <2>3
    <3>2. \A x, y \in Int : IsFiniteSet(x .. y) /\ Cardinality(x .. y) = IF x > y THEN 0 ELSE y - x + 1
      BY FS_Interval
    <3>3. QED
      BY <1>4, <2>3, <3>1, <3>2
  <2> HIDE DEF C
  <2>7. Cardinality(C) <= q + 1
    BY <2>5, <2>6, FS_Subset
  <2>8. QED
    BY <2>7 DEF C, f, b, q
<1>7. QED
  BY <1>5, <1>6

LEMMA TailPairs ==
  ASSUME NEW T, NEW R, NEW seq \in Seq(T), seq # <<>>, Pairwise(seq, R)
  PROVE  Pairwise(Tail(seq), R)
<1>1. /\ Len(seq) \in Nat \ {0} /\ DOMAIN seq = 1 .. Len(seq)
      /\ DOMAIN Tail(seq) = 1 .. Len(seq) - 1
      /\ \A i \in 1 .. Len(seq) - 1 : Tail(seq)[i] = seq[i + 1]
  OBVIOUS
<1>2. ASSUME NEW j \in 1 .. Len(seq) - 1, NEW i \in 1 .. j - 1 PROVE <<seq[i + 1], seq[j + 1]>> \in R
  <2>1. j + 1 \in DOMAIN seq /\ i + 1 \in 1 .. (j + 1) - 1
    BY <1>1
  <2>2. QED
    BY <2>1 DEF Pairwise
<1>3. \A j \in 1 .. Len(seq) - 1 : \A i \in 1 .. j - 1 : i \in 1 .. Len(seq) - 1
  BY <1>1
<1>4. QED
  BY <1>1, <1>2, <1>3 DEF Pairwise

LEMMA FedRetains ==
  ASSUME NEW s, Retains(s), NEW events \in [Kinds -> Seq(Int)], NEW d \in Int,
         Later(s, "funding", events.funding)
  PROVE  /\ Retains(FeedBar(s, events, d))
         /\ FeedBar(s, events, d).bars # <<>> /\ Last(FeedBar(s, events, d).bars) = d
<1> DEFINE marks == UpTo(events.marks, d)
           settled == UpTo(events.funding, d)
           marked == PushAll(s, "marks", marks)
           fed == PushAll(marked, "funding", settled)
<1>1. /\ marks \in Seq(Int) /\ settled \in Seq(Int)
      /\ ToSet(settled) \subseteq ToSet(events.funding)
  <2>1. events.marks \in Seq(Int) /\ events.funding \in Seq(Int)
    BY DEF Kinds
  <2>2. \A times \in Seq(Int) : \A S : Kept(times, S) \in Seq(Int) /\ ToSet(Kept(times, S)) \subseteq ToSet(times)
    BY KeptElements
  <2>3. QED
    BY <2>1, <2>2 DEF UpTo
<1> HIDE DEF marks, settled
<1>2. /\ Len(marks) \in Nat /\ DOMAIN marks = 1 .. Len(marks)
      /\ Len(settled) \in Nat /\ DOMAIN settled = 1 .. Len(settled)
  BY <1>1
<1>3. Retains(marked) /\ marked.bars = s.bars
  <2>1. Later(s, "marks", marks)
    BY DEF Later
  <2>2. QED
    BY <1>2, <2>1, AllRetain
<1> HIDE DEF marked
<1>4. Later(marked, "funding", settled)
  BY <1>1, <1>3 DEF Later
<1>5. Retains(fed)
  BY <1>2, <1>3, <1>4, AllRetain
<1> HIDE DEF fed
<1>6. FeedBar(s, events, d) = PushBar(fed, d)
  BY DEF FeedBar, fed, marked, marks, settled
<1>7. QED
  BY <1>5, <1>6, BarRetains

LEMMA FreshRetains == Retains(Fresh)
<1>1. /\ Fresh.ok = TRUE /\ Fresh.funding = <<>> /\ Fresh.bars = <<>>
  BY DEF Fresh
<1>2. DOMAIN <<>> = {} /\ Len(<<>>) = 0 /\ <<>> \in Seq(Nat) /\ <<>> \in Seq(Int)
  OBVIOUS
<1>3. InSlots(<<>>)
  BY <1>2 DEF InSlots, Pairwise
<1>4. DOMAIN Fresh = FeatureFields /\ 0 <= Lookback + 1
  BY FeatureFacts DEF FeatureFields
<1>5. QED
  BY <1>1, <1>2, <1>3, <1>4 DEF Retains

-----------------------------------------------------------------------------
(* The windows and what is still to be read. *)

WindowIsLegal == stage \in {"bound", "batch", "batched", "trained"} => LegalWindow(window)

Coming ==
    /\ stage \in {"batch", "engine"} => Later(features, "funding", input.funding)
    /\ stage = "engine" => Pairwise(input.funding, {p \in Int \X Int : p[1] <= p[2]})

LEMMA WindowNext == WindowIsLegal /\ [Next]_vars => WindowIsLegal'
<1>1. SUFFICES ASSUME WindowIsLegal, [Next]_vars PROVE WindowIsLegal'
  OBVIOUS
<1>2. window' = window => LegalWindow(window)' = LegalWindow(window)
  BY DEF LegalWindow
<1>3. CASE Bind
  <2>1. PICK w \in Windows : window' = w /\ Pass("bind", catalog = accepted.events /\ LegalWindow(w), "bound")
    BY <1>3 DEF Bind
  <2>2. stage' \in {"bound", "refused"} /\ (stage' = "bound" => LegalWindow(w))
    BY <2>1 DEF Pass
  <2>3. LegalWindow(window)' = LegalWindow(w)
    BY <2>1 DEF LegalWindow
  <2>4. QED
    BY <2>2, <2>3 DEF WindowIsLegal
<1>4. CASE BatchRead \/ BatchBar \/ FinishBatch
  <2>1. /\ window' = window /\ stage \in {"bound", "batch"}
    BY <1>4 DEF BatchRead, BatchBar, FinishBatch
  <2>2. QED
    BY <1>1, <1>2, <2>1 DEF WindowIsLegal
<1>5. CASE CatalogFault \/ UNCHANGED vars
  <2>1. window' = window /\ stage' = stage
    BY <1>5 DEF CatalogFault, vars, research
  <2>2. QED
    BY <1>1, <1>2, <2>1 DEF WindowIsLegal
<1>6. CASE SourceFault \/ ProbeIndex \/ LoadBars \/ LoadMarksAndFunding \/ WriteCatalog
           \/ CrosscheckCatalog \/ Accept \/ EngineRead \/ OnMarkPrice \/ OnFundingRate \/ OnBar \/ Parity
  <2>1. stage' \notin {"bound", "batch", "batched", "trained"}
    BY <1>6 DEF SourceFault, ProbeIndex, LoadBars, LoadMarksAndFunding, WriteCatalog,
                CrosscheckCatalog, Accept, EngineRead, OnMarkPrice, OnFundingRate, OnBar, Parity, Pass
  <2>2. QED
    BY <2>1 DEF WindowIsLegal
<1>7. QED
  BY <1>1, <1>3, <1>4, <1>5, <1>6 DEF Next

LEMMA WindowType ==
  ASSUME Controlled
  PROVE  window.start \in Int /\ window.end \in Int /\ window.decision \in Int
<1>1. NoWindow \in [mode : {"evaluation", "training"}, start : Int, end : Int, decision : Int]
  BY DEF NoWindow
<1>2. window \in [mode : {"evaluation", "training"}, start : Int, end : Int, decision : Int]
  BY <1>1, DatasetAssumption DEF Controlled
<1>3. QED
  BY <1>2

LEMMA WithinIs ==
  ASSUME NEW times \in Seq(Int), NEW from \in Int, NEW to \in Int
  PROVE  /\ Within(times, from, to) \in Seq(Int)
         /\ \A t : t \in ToSet(Within(times, from, to)) <=> t \in ToSet(times) /\ t \in Int /\ from <= t /\ t < to
<1>1. /\ Kept(times, from .. to - 1) \in Seq(Int)
      /\ \A t : t \in ToSet(Kept(times, from .. to - 1)) <=> t \in ToSet(times) /\ t \in from .. to - 1
  BY KeptElements
<1>2. \A t : t \in from .. to - 1 <=> t \in Int /\ from <= t /\ t < to
  OBVIOUS
<1>3. QED
  BY <1>1, <1>2 DEF Within

RetainInv == Typed /\ WindowIsLegal /\ Retains(features) /\ Coming

LEMMA RetainNext == RetainInv /\ [Next]_vars => Retains(features)' /\ Coming'
<1>1. SUFFICES ASSUME RetainInv, [Next]_vars PROVE Retains(features)' /\ Coming'
  OBVIOUS
<1>2. Typed /\ Drawn /\ Controlled /\ WindowIsLegal /\ Retains(features) /\ Coming /\ DOMAIN input = Kinds
  BY <1>1 DEF RetainInv, Typed, Shaped
<1>3. /\ Retains(features)' = Retains(features')
      /\ \A s : s = features' => Retains(s) = Retains(features')
  BY DEF Retains
<1>4. CASE BatchRead
  <2>1. /\ features' = Fresh /\ stage = "bound" /\ stage' \in {"batch", "refused"}
        /\ stage' = "batch" => input' = WindowEvents
    BY <1>4 DEF BatchRead, Pass
  <2>2. catalog \in [Kinds -> Seq(Int)]
    BY <1>2, <2>1 DEF Drawn
  <2>3. LegalWindow(window) /\ window.start \in Int /\ window.end \in Int
    BY <1>2, <2>1, WindowType DEF WindowIsLegal
  <2>4. AuxiliaryStart(window) \in Nat
    BY <2>3, ClockFacts DEF AuxiliaryStart, Larger
  <2>5. WindowEvents.funding = Within(catalog.funding, AuxiliaryStart(window), window.end)
    BY DEF WindowEvents, WindowFrom, WindowTo, Kinds
  <2>6. catalog.funding \in Seq(Int)
    BY <2>2 DEF Kinds
  <2>7. \A t \in ToSet(WindowEvents.funding) : t \in Nat
    <3>1. \A t \in ToSet(WindowEvents.funding) : t \in Int /\ AuxiliaryStart(window) <= t
      BY <2>3, <2>4, <2>5, <2>6, WithinIs
    <3>2. QED
      BY <2>4, <3>1
  <2>8. stage' = "batch" => Later(features', "funding", input'.funding)
    BY <2>1, <2>7 DEF Later, Fresh
  <2>9. QED
    BY <1>3, <2>1, <2>8, FreshRetains DEF Coming
<1>5. CASE BatchBar
  <2> DEFINE d == Head(Undecided)
  <2>1. /\ stage = "batch" /\ Undecided # <<>> /\ stage' \in {"batch", "refused"}
        /\ features' = FeedBar(features, input, d)
        /\ input' = [input EXCEPT !.marks = After(@, d), !.funding = After(@, d)]
    BY <1>5 DEF BatchBar, Pass
  <2>2. input \in [Kinds -> Seq(Int)] /\ input.bars \in Seq(Int) /\ input.funding \in Seq(Int)
    BY <1>2, <2>1 DEF Drawn, Kinds
  <2>3. d \in Int
    <3>1. Undecided \in Seq(Int)
      BY <2>2, KeptElements DEF Undecided
    <3>2. QED
      BY <2>1, <3>1
  <2>4. Later(features, "funding", input.funding)
    BY <1>2, <2>1 DEF Coming
  <2> HIDE DEF d
  <2>5. Retains(features') /\ features'.bars # <<>> /\ Last(features'.bars) = d
    BY <1>2, <2>1, <2>2, <2>3, <2>4, FedRetains
  <2>6. input'.funding = After(input.funding, d)
    BY <2>1, <2>2 DEF Kinds
  <2>7. Later(features', "funding", input'.funding)
    <3>1. \A t \in ToSet(After(input.funding, d)) : t \in ToSet(input.funding) /\ t > d
      <4>1. \A t : t \in ToSet(After(input.funding, d)) =>
                 t \in ToSet(input.funding) /\ t \in {x \in ToSet(input.funding) : x > d}
        BY <2>2, KeptElements DEF After
      <4>2. QED
        BY <4>1
    <3>2. QED
      BY <2>4, <2>5, <2>6, <3>1 DEF Later
  <2>8. QED
    BY <1>3, <2>1, <2>5, <2>7 DEF Coming
<1>6. CASE EngineRead
  <2> DEFINE read == Within(catalog.funding, window.start, window.end)
  <2>1. /\ features' = Fresh /\ stage = "batched" /\ stage' \in {"engine", "refused"}
        /\ input'.funding = InTimeOrder(read)
    BY <1>6 DEF EngineRead, Pass, Kinds
  <2>2. catalog.funding \in Seq(Int)
    BY <1>2, <2>1 DEF Drawn, Kinds
  <2>3. LegalWindow(window) /\ window.start \in Int /\ window.end \in Int
    BY <1>2, <2>1, WindowType DEF WindowIsLegal
  <2>4. read \in Seq(Int) /\ \A t \in ToSet(read) : t \in Nat
    <3>1. read \in Seq(Int) /\ \A t \in ToSet(read) : t \in Int /\ window.start <= t
      BY <2>2, <2>3, WithinIs
    <3>2. window.start >= 0
      BY <2>3 DEF LegalWindow
    <3>3. QED
      BY <2>3, <3>1, <3>2
  <2> HIDE DEF read
  <2>5. /\ ToSet(InTimeOrder(read)) \subseteq ToSet(read)
        /\ Pairwise(InTimeOrder(read), {p \in Int \X Int : p[1] <= p[2]})
    BY <2>4, OrderedElements, InTimeOrderIs
  <2>6. Later(features', "funding", input'.funding)
    BY <2>1, <2>4, <2>5 DEF Later, Fresh
  <2>7. QED
    BY <1>3, <2>1, <2>5, <2>6, FreshRetains DEF Coming
<1>7. CASE OnMarkPrice
  <2>1. /\ stage = "engine" /\ \E t : features' = PushMark(features, t)
        /\ input'.funding = input.funding
    BY <1>2, <1>7 DEF OnMarkPrice, Kinds
  <2>2. Retains(features') /\ features'.bars = features.bars
    BY <1>2, <2>1, MarkRetains
  <2>3. QED
    BY <1>2, <1>3, <2>1, <2>2 DEF Coming, Later
<1>8. CASE OnFundingRate
  <2>1. /\ stage = "engine" /\ input.funding # <<>> /\ features' = PushFunding(features, Head(input.funding))
        /\ input'.funding = Tail(input.funding)
    BY <1>2, <1>8 DEF OnFundingRate, IsNextEvent, Kinds
  <2>2. input.funding \in Seq(Int)
    BY <1>2, <2>1 DEF Drawn, Kinds
  <2>3. /\ Head(input.funding) \in ToSet(input.funding)
        /\ ToSet(Tail(input.funding)) \subseteq ToSet(input.funding)
    BY <2>1, <2>2, EndElements
  <2>4. Later(features, "funding", input.funding)
    BY <1>2, <2>1 DEF Coming
  <2>5. Head(input.funding) \in Nat /\ (features.bars # <<>> => Head(input.funding) > Last(features.bars))
    BY <2>3, <2>4 DEF Later
  <2>6. Retains(features') /\ features'.bars = features.bars
    BY <1>2, <2>1, <2>5, FundingRetains
  <2>7. Later(features', "funding", input'.funding)
    BY <2>1, <2>3, <2>4, <2>6 DEF Later
  <2>8. Pairwise(input'.funding, {p \in Int \X Int : p[1] <= p[2]})
    BY <1>2, <2>1, <2>2, TailPairs DEF Coming
  <2>9. QED
    BY <1>3, <2>6, <2>7, <2>8 DEF Coming
<1>9. CASE OnBar
  <2> DEFINE d == Head(input.bars)
  <2>1. /\ stage = "engine" /\ input.bars # <<>> /\ features' = PushBar(features, d)
        /\ input'.funding = input.funding /\ IsNextEvent("bars")
    BY <1>2, <1>9 DEF OnBar, IsNextEvent, Kinds
  <2>2. input.funding \in Seq(Int) /\ input.bars \in Seq(Int)
    BY <1>2, <2>1 DEF Drawn, Kinds
  <2>3. d \in Int
    BY <2>1, <2>2
  <2>4. Later(features, "funding", input.funding) /\ Pairwise(input.funding, {p \in Int \X Int : p[1] <= p[2]})
    BY <1>2, <2>1 DEF Coming
  <2>5. input.funding # <<>> => d < Head(input.funding)
    BY <2>1 DEF IsNextEvent, EventRank, Kinds
  <2> HIDE DEF d
  <2>6. Retains(features') /\ features'.bars # <<>> /\ Last(features'.bars) = d
    BY <1>2, <2>1, <2>3, BarRetains
  <2>7. \A t \in ToSet(input.funding) : t > d
    <3>1. SUFFICES ASSUME NEW j \in DOMAIN input.funding PROVE input.funding[j] > d
      BY DEF ToSet
    <3>2. /\ input.funding # <<>> /\ j \in 1 .. Len(input.funding) /\ Len(input.funding) \in Nat
          /\ Head(input.funding) = input.funding[1]
          /\ input.funding[1] \in Int /\ input.funding[j] \in Int
      BY <2>2
    <3>3. CASE j = 1
      BY <2>3, <2>5, <3>2, <3>3
    <3>4. CASE j # 1
      <4>1. 1 \in 1 .. j - 1
        BY <3>2, <3>4
      <4>2. <<input.funding[1], input.funding[j]>> \in {p \in Int \X Int : p[1] <= p[2]}
        BY <2>4, <4>1 DEF Pairwise
      <4>3. QED
        BY <2>3, <2>5, <3>2, <4>2
    <3>5. QED
      BY <3>3, <3>4
  <2>8. Later(features', "funding", input'.funding)
    BY <2>1, <2>4, <2>6, <2>7 DEF Later
  <2>9. QED
    BY <1>3, <2>1, <2>4, <2>6, <2>8 DEF Coming
<1>10. CASE FinishBatch \/ Parity \/ SourceFault \/ ProbeIndex \/ LoadBars \/ LoadMarksAndFunding \/ WriteCatalog
            \/ CrosscheckCatalog \/ Accept \/ Bind
  <2>1. /\ features' = features
        /\ stage' \notin {"batch", "engine"}
    BY <1>10 DEF FinishBatch, Parity, SourceFault, ProbeIndex, LoadBars, LoadMarksAndFunding, WriteCatalog,
                 CrosscheckCatalog, Accept, Bind, Pass, research
  <2>2. QED
    BY <1>2, <1>3, <2>1 DEF Coming
<1>11. CASE CatalogFault \/ UNCHANGED vars
  <2>1. features' = features /\ input' = input /\ stage' = stage
    BY <1>11 DEF CatalogFault, vars, research
  <2>2. QED
    BY <1>2, <1>3, <2>1 DEF Coming, Later
<1>12. QED
  BY <1>1, <1>4, <1>5, <1>6, <1>7, <1>8, <1>9, <1>10, <1>11 DEF Next

LEMMA TypedNext == Typed /\ [Next]_vars => Typed'
<1>1. SUFFICES ASSUME Typed, [Next]_vars PROVE Typed'
  OBVIOUS
<1>2. Sound' /\ Controlled'
  BY <1>1, SoundNext, ControlNext DEF Typed
<1>3. Shaped' /\ Drawn'
  BY <1>1, ShapedNext, DrawnNext
<1>4. QED
  BY <1>2, <1>3 DEF Typed

LEMMA RetainInit == Init => RetainInv
<1>1. SUFFICES ASSUME Init PROVE RetainInv
  OBVIOUS
<1>2. Typed
  BY <1>1, TypedInit
<1>3. features = Fresh /\ stage = "raw"
  BY <1>1 DEF Init
<1>4. QED
  BY <1>2, <1>3, FreshRetains DEF RetainInv, WindowIsLegal, Coming

LEMMA RetainIsBounded == RetainInv => RetainedBounded
<1>1. SUFFICES ASSUME RetainInv PROVE RetainedBounded
  OBVIOUS
<1>2. Retains(features)
  BY <1>1 DEF RetainInv
<1>3. Len(features.bars) <= Lookback + 1
  BY <1>2 DEF Retains
<1>4. features.ok /\ features.bars # <<>> =>
          Cardinality({i \in DOMAIN features.funding : features.funding[i] <= Last(features.bars)})
             <= FundingWindow \div FundingInterval + 1
  BY <1>2, RetainsFew
<1>5. QED
  BY <1>3, <1>4 DEF RetainedBounded

(* The state of the features does not grow with the stream: settlements keep   *)
(* their slots, so that those a bar leaves in its window are as many as the    *)
(* window has intervals, and one; whatever the catalog lost or repeated.       *)
THEOREM RetainedBoundedHolds == Spec => []RetainedBounded
<1>1. RetainInv /\ [Next]_vars => RetainInv'
  BY TypedNext, WindowNext, RetainNext DEF RetainInv
<1>2. QED
  BY <1>1, RetainInit, RetainIsBounded, PTL DEF Spec

-----------------------------------------------------------------------------
(* The bars of the dataset. *)

BarCount == WindowEnd \div BarInterval
Bars == {k * BarInterval - 1 : k \in 1 .. BarCount}

LEMMA TimesNext ==
  ASSUME NEW a \in Int, NEW m \in Int
  PROVE  a * m \in Int /\ (a + 1) * m = a * m + m /\ (a - 1) * m = a * m - m
OBVIOUS

LEMMA TimesGrow ==
  ASSUME NEW m \in Nat, NEW a \in Int, NEW b \in Int, a <= b
  PROVE  a * m \in Int /\ b * m \in Int /\ a * m <= b * m
OBVIOUS

LEMMA TimesLess ==
  ASSUME NEW m \in Nat, NEW a \in Int, NEW b \in Int, a * m < b * m
  PROVE  a < b
<1>1. SUFFICES ASSUME b <= a PROVE FALSE
  OBVIOUS
<1>2. a * m \in Int /\ b * m \in Int /\ b * m <= a * m
  BY <1>1, TimesGrow
<1>3. QED
  BY <1>2

LEMMA BarCountFacts ==
  BarCount \in Nat \ {0} /\ WindowEnd = BarCount * BarInterval
<1> DEFINE M == MonthLength
           B == BarInterval
           x == WindowEnd \div M
           y == M \div B
<1>1. M \in Nat \ {0} /\ B \in Nat \ {0} /\ WindowEnd \in Nat \ {0}
  BY ClockFacts
<1>2. WindowEnd % M = 0 /\ M % B = 0
  BY ClockAssumption
<1>3. x \in Int /\ WindowEnd = x * M
  BY <1>1, <1>2, Division, DivisionType
<1>4. y \in Int /\ M = y * B
  BY <1>1, <1>2, Division, DivisionType
<1> HIDE DEF x, y
<1>5. x * y \in Int /\ WindowEnd = (x * y) * B
  <2> HIDE DEF M, B
  <2>1. QED
    BY <1>1, <1>3, <1>4
<1> DEFINE n == x * y
<1>6. n \in Int /\ WindowEnd = n * B
  BY <1>5
<1> HIDE DEF n
<1>7. n \in Nat \ {0}
  <2>1. SUFFICES ASSUME n <= 0 PROVE FALSE
    BY <1>6
  <2>2. n * B <= 0 * B
    BY <1>1, <1>6, <2>1, TimesGrow
  <2>3. QED
    BY <1>1, <1>6, <2>2
<1>8. WindowEnd = n * B + 0 /\ 0 \in 0 .. B - 1 /\ WindowEnd \in Int
  BY <1>1, <1>6
<1>9. WindowEnd \div B = n
  BY <1>1, <1>6, <1>8, DivisionUnique
<1>10. QED
  BY <1>6, <1>7, <1>9 DEF BarCount

LEMMA BarFacts ==
  ASSUME NEW b \in Bars
  PROVE  /\ b \in Nat /\ b < WindowEnd
         /\ \A n \in Int : b + n * BarInterval >= 0 /\ b + n * BarInterval < WindowEnd
                => b + n * BarInterval \in Bars
         /\ \A c \in Bars : b < c => b + BarInterval <= c
<1> DEFINE B == BarInterval
<1>1. B \in Nat \ {0} /\ BarCount \in Nat \ {0} /\ WindowEnd = BarCount * B
  BY ClockFacts, BarCountFacts
<1>2. PICK k \in 1 .. BarCount : b = k * B - 1
  BY DEF Bars
<1>3. k \in Int /\ k * B \in Int /\ BarCount * B \in Int
  BY <1>1, <1>2
<1>4. b \in Nat /\ b < WindowEnd
  <2>1. 1 * B <= k * B /\ k * B <= BarCount * B
    BY <1>1, <1>2, TimesGrow
  <2>2. 1 * B = B
    BY <1>1
  <2> HIDE DEF B
  <2>3. QED
    BY <1>1, <1>2, <1>3, <2>1, <2>2
<1>5. ASSUME NEW n \in Int, b + n * B >= 0, b + n * B < WindowEnd PROVE b + n * B \in Bars
  <2>1. (k + n) * B = k * B + n * B /\ n * B \in Int /\ (k + n) * B \in Int
    BY <1>1, <1>3
  <2>2. 0 * B < (k + n) * B /\ (k + n) * B < (BarCount + 1) * B
    <3>1. 0 * B = 0 /\ (BarCount + 1) * B = BarCount * B + B
      BY <1>1
    <3> HIDE DEF B
    <3>2. QED
      BY <1>1, <1>2, <1>3, <1>5, <2>1, <3>1
  <2>3. 0 < k + n /\ k + n < BarCount + 1
    BY <1>1, <1>3, <2>2, TimesLess
  <2>4. k + n \in 1 .. BarCount /\ b + n * B = (k + n) * B - 1
    BY <1>1, <1>2, <1>3, <2>1, <2>3
  <2>5. QED
    BY <2>4 DEF Bars
<1>6. ASSUME NEW c \in Bars, b < c PROVE b + B <= c
  <2>1. PICK j \in 1 .. BarCount : c = j * B - 1
    BY DEF Bars
  <2>2. j \in Int /\ j * B \in Int
    BY <1>1
  <2>3. k * B < j * B
    BY <1>2, <1>3, <1>6, <2>1, <2>2
  <2>4. k + 1 <= j
    BY <1>1, <1>3, <2>2, <2>3, TimesLess
  <2>5. (k + 1) * B <= j * B /\ (k + 1) * B = k * B + B
    BY <1>1, <1>3, <2>2, <2>4, TimesGrow, TimesNext
  <2>6. QED
    BY <1>1, <1>2, <1>3, <2>1, <2>2, <2>5
<1>7. QED
  BY <1>4, <1>5, <1>6

-----------------------------------------------------------------------------
(* The bars of a window, held to the accepted coverage. *)

GridBars == [i \in 1 .. WindowEnd \div BarInterval |-> i * BarInterval - 1]
BarCoverage == [rows |-> BarCount, gaps |-> 0, first |-> BarInterval - 1, last |-> WindowEnd - 1]

LEMMA GridOfBars ==
  ASSUME AcceptedGridExists(BarCoverage, "bars")
  PROVE  LET g == AcceptedGrid(BarCoverage, "bars")
         IN  /\ g.first = BarInterval - 1 /\ g.cadence = BarInterval
             /\ g.last = BarCount - 1 /\ g.gaps = {}
<1> DEFINE B == BarInterval
           n == BarCount
           e == BarCoverage
<1>1. B \in Nat \ {0} /\ n \in Nat \ {0} /\ WindowEnd = n * B /\ n * B \in Int
  BY ClockFacts, BarCountFacts
<1>2. e.rows = n /\ e.gaps = 0 /\ e.first = B - 1 /\ e.last = WindowEnd - 1
  BY DEF BarCoverage
<1> HIDE DEF B, n, e
<1>3. Slots(e) = n - 1 /\ n - 1 > 0
  BY <1>1, <1>2 DEF Slots, AcceptedGridExists, e
<1>4. Cadence(e) = B
  <2> DEFINE s == n - 1
             r == s \div 2
             a == s * B + r
  <2>1. s \in Nat \ {0} /\ r \in 0 .. s - 1 /\ r \in Int
    BY <1>1, <1>3
  <2>2. s * B = n * B - B /\ s * B \in Int
    BY <1>1, TimesNext
  <2>3. e.last - e.first + Slots(e) \div 2 = a
    <3> HIDE DEF s, r
    <3>1. Slots(e) \div 2 = r /\ Slots(e) = s
      BY <1>3 DEF r, s
    <3>2. QED
      BY <1>1, <1>2, <2>1, <2>2, <3>1
  <2>4. Cadence(e) = a \div s
    <3> HIDE DEF a
    <3>1. QED
      BY <1>3, <2>3 DEF Cadence
  <2>5. a = B * s + r /\ a \in Int
    <3> HIDE DEF s, r
    <3>1. s * B = B * s
      BY <1>1, <2>1
    <3>2. QED
      BY <2>1, <2>2, <3>1
  <2> HIDE DEF s, r, a
  <2>6. a \div s = B
    BY <1>1, <2>1, <2>5, DivisionUnique
  <2>7. QED
    BY <2>4, <2>6
<1>5. AcceptedGrid(e, "bars") = PlainGrid(e, "bars")
  BY DEF AcceptedGrid
<1>6. QED
  BY <1>2, <1>3, <1>4, <1>5 DEF PlainGrid, B, n, e

LEMMA IndexOfBar ==
  ASSUME NEW g, g.first = BarInterval - 1, g.cadence = BarInterval, NEW k \in Int
  PROVE  GridIndex(g, k * BarInterval - 1) = k - 1
<1> DEFINE B == BarInterval
           a == 2 * (k * B - 1 - g.first) + g.cadence
<1>1. B \in Nat \ {0} /\ k * B \in Int
  BY ClockFacts
<1>2. 2 * B \in Nat \ {0} /\ B \in 0 .. 2 * B - 1 /\ k - 1 \in Int
  BY <1>1
<1>3. (k - 1) * (2 * B) = 2 * (k * B) - 2 * B
  BY <1>1
<1>4. a = (k - 1) * (2 * B) + B /\ a \in Int
  <2> HIDE DEF B
  <2>1. a = 2 * (k * B - 1 - (B - 1)) + B
    BY DEF B
  <2>2. QED
    BY <1>1, <1>3, <2>1
<1>5. a \div (2 * B) = k - 1
  <2> HIDE DEF a, B
  <2>1. QED
    BY <1>2, <1>4, DivisionUnique
<1>6. GridIndex(g, k * B - 1) = a \div (2 * B)
  BY DEF GridIndex
<1>7. QED
  BY <1>5, <1>6

LEMMA OnlyOne ==
  ASSUME NEW c \in Int
  PROVE  /\ Min((c .. (c + Cardinality({}))) \ {}) = c
         /\ Max(((c - Cardinality({})) .. c) \ {}) = c
<1>1. Cardinality({}) = 0
  BY FS_EmptySet
<1>2. (c .. (c + 0)) \ {} = {c} /\ ((c - 0) .. c) \ {} = {c}
  OBVIOUS
<1>3. Min({c}) = c /\ Max({c}) = c
  BY DEF Min, Max
<1>4. QED
  BY <1>1, <1>2, <1>3

(* No bar of the window is before its first eligible slot or after its last.   *)
LEMMA FirstBar ==
  ASSUME NEW g, g.first = BarInterval - 1, g.cadence = BarInterval, g.gaps = {},
         NEW from \in Int, NEW j \in 1 .. BarCount, from <= j * BarInterval - 1
  PROVE  FirstEligible(g, from) \in Int /\ FirstEligible(g, from) <= j - 1
<1> DEFINE B == BarInterval
           x == from - g.first
           q == (-x) \div B
           r == (-x) % B
           c == Larger(0, -q)
<1>1. B \in Nat \ {0} /\ j \in Int /\ j * B \in Int /\ x \in Int /\ x = from - B + 1 /\ j >= 1
  BY ClockFacts, BarCountFacts
<1>2. -x \in Int /\ -x = q * B + r /\ q \in Int /\ r \in 0 .. B - 1
  <2> HIDE DEF x, B
  <2>1. -x \in Int
    BY <1>1
  <2>2. QED
    BY <1>1, <2>1, Division, DivisionType
<1>3. c \in Int
  <2> HIDE DEF q
  <2>1. QED
    BY <1>2 DEF Larger
<1>4. FirstEligible(g, from) = c
  <2>1. FirstEligible(g, from) = Min((c .. (c + Cardinality({}))) \ {})
    BY DEF FirstEligible
  <2> HIDE DEF c
  <2>2. QED
    BY <1>3, <2>1, OnlyOne
<1>5. (-q) - 1 < j - 1
  <2> DEFINE p == (-q) - 1
  <2>1. p \in Int /\ p * B = -(q * B) - B /\ (j - 1) * B = j * B - B /\ q * B \in Int
    <3> HIDE DEF q, B
    <3>1. QED
      BY <1>1, <1>2
  <2>2. p * B < (j - 1) * B /\ j - 1 \in Int
    <3> HIDE DEF p, x, q, r, B
    <3>1. from <= j * B - 1
      BY DEF B
    <3>2. QED
      BY <1>1, <1>2, <2>1, <3>1
  <2> HIDE DEF p, q
  <2>3. p < j - 1
    BY <1>1, <2>1, <2>2, TimesLess
  <2>4. QED
    BY <2>3 DEF p
<1>6. c <= j - 1
  <2> HIDE DEF q
  <2>1. QED
    BY <1>1, <1>2, <1>5 DEF Larger
<1>7. QED
  BY <1>3, <1>4, <1>6

LEMMA LastBar ==
  ASSUME NEW g, g.first = BarInterval - 1, g.cadence = BarInterval, g.gaps = {}, g.last = BarCount - 1,
         NEW to \in Int, NEW j \in 1 .. BarCount, j * BarInterval - 1 < to
  PROVE  LastEligible(g, to) \in Int /\ j - 1 <= LastEligible(g, to)
<1> DEFINE B == BarInterval
           x == to - 1 - g.first
           q == x \div B
           r == x % B
           c == Smaller(g.last, q)
<1>1. B \in Nat \ {0} /\ BarCount \in Int /\ j \in Int /\ j * B \in Int /\ x \in Int /\ x = to - B
  BY ClockFacts, BarCountFacts
<1>2. x = q * B + r /\ q \in Int /\ r \in 0 .. B - 1
  <2> HIDE DEF x, B
  <2>1. QED
    BY <1>1, Division, DivisionType
<1>3. c \in Int
  <2> HIDE DEF q
  <2>1. QED
    BY <1>1, <1>2 DEF Smaller
<1>4. LastEligible(g, to) = c
  <2>1. LastEligible(g, to) = Max(((c - Cardinality({})) .. c) \ {})
    BY DEF LastEligible
  <2> HIDE DEF c
  <2>2. QED
    BY <1>3, <2>1, OnlyOne
<1>5. j - 1 < q + 1
  <2>1. (q + 1) * B = q * B + B /\ (j - 1) * B = j * B - B /\ q * B \in Int
    <3> HIDE DEF q, B
    <3>1. QED
      BY <1>1, <1>2
  <2>2. (j - 1) * B < (q + 1) * B /\ j - 1 \in Int /\ q + 1 \in Int
    <3> HIDE DEF x, q, r, B
    <3>1. j * B - 1 < to
      BY DEF B
    <3>2. QED
      BY <1>1, <1>2, <2>1, <3>1
  <2> HIDE DEF q
  <2>3. QED
    BY <1>1, <2>2, TimesLess
<1>6. j - 1 <= c
  <2> HIDE DEF q
  <2>1. QED
    BY <1>1, <1>2, <1>5 DEF Smaller
<1>7. QED
  BY <1>3, <1>4, <1>6

Ascending(seq) == Pairwise(seq, {p \in Int \X Int : p[1] < p[2]})

LEMMA BarSteps ==
  ASSUME NEW seen \in Seq(Int), BarsInOrder(seen), NEW i \in DOMAIN seen
  PROVE  seen[i] = seen[1] + (i - 1) * BarInterval
<1> DEFINE B == BarInterval
           T == {n \in Nat : n + 1 <= Len(seen) => seen[n + 1] = seen[1] + n * B}
<1>1. DOMAIN seen = 1 .. Len(seen) /\ Len(seen) \in Nat /\ \A k \in 1 .. Len(seen) : seen[k] \in Int
  OBVIOUS
<1>2. B \in Int
  BY ClockFacts
<1>3. \A k \in 2 .. Len(seen) : seen[k] = seen[k-1] + B
  <2>1. ASSUME NEW k \in 2 .. Len(seen) PROVE seen[k] - seen[k-1] = B
    <3>1. k \in DOMAIN seen \ {1}
      BY <1>1
    <3>2. QED
      BY <3>1 DEF BarsInOrder, B
  <2>2. \A k \in 2 .. Len(seen) : k \in 1 .. Len(seen) /\ k - 1 \in 1 .. Len(seen)
    BY <1>1
  <2>3. QED
    BY <1>1, <1>2, <2>1, <2>2
<1> HIDE DEF B
<1>4. 0 \in T
  BY <1>1, <1>2
<1>5. ASSUME NEW n \in Nat, n \in T PROVE n + 1 \in T
  <2>1. SUFFICES ASSUME (n + 1) + 1 <= Len(seen) PROVE seen[(n + 1) + 1] = seen[1] + (n + 1) * B
    OBVIOUS
  <2> DEFINE m == n + 1
  <2>2. m + 1 \in 2 .. Len(seen) /\ (m + 1) - 1 = m /\ m \in 1 .. Len(seen) /\ 1 \in 1 .. Len(seen)
    BY <1>1, <2>1
  <2>3. seen[m] = seen[1] + n * B
    BY <1>1, <1>5, <2>1
  <2>4. m * B = n * B + B /\ n * B \in Int
    BY <1>2, TimesNext
  <2> HIDE DEF m
  <2>5. seen[m + 1] = seen[m] + B
    <3>1. seen[m + 1] = seen[(m + 1) - 1] + B
      BY <1>3, <2>2
    <3>2. QED
      BY <2>2, <3>1
  <2> DEFINE x == n * B
             y == m * B
  <2>a. x \in Int /\ y = x + B /\ seen[m] = seen[1] + x
    BY <2>3, <2>4
  <2> HIDE DEF x, y
  <2>b. seen[m + 1] = seen[1] + y
    BY <1>1, <1>2, <2>2, <2>5, <2>a
  <2>6. seen[m + 1] = seen[1] + m * B
    BY <2>b DEF y
  <2>7. QED
    BY <2>6 DEF m
<1>6. Nat \subseteq T
  BY <1>4, <1>5, Induction
<1>7. i - 1 \in Nat /\ (i - 1) + 1 = i /\ i <= Len(seen)
  BY <1>1
<1>8. i - 1 \in T
  BY <1>6, <1>7
<1>9. QED
  BY <1>7, <1>8 DEF B

LEMMA BarsOfWindow ==
  ASSUME NEW g, g.first = BarInterval - 1, g.cadence = BarInterval, g.gaps = {}, g.last = BarCount - 1,
         NEW seen \in Seq(Int), ToSet(seen) \subseteq Bars, NEW from \in Int, NEW to \in Int,
         \A t \in ToSet(seen) : from <= t /\ t < to,
         SeriesMatches(g, seen, from, to), BarsInOrder(seen)
  PROVE  /\ ToSet(seen) = {b \in Bars : from <= b /\ b < to}
         /\ Ascending(seen)
<1> DEFINE B == BarInterval
           n == Len(seen)
<1>1. B \in Nat \ {0} /\ BarCount \in Nat
  BY ClockFacts, BarCountFacts
<1>2. n \in Nat \ {0} /\ DOMAIN seen = 1 .. n /\ \A i \in 1 .. n : seen[i] \in Int /\ seen[i] \in ToSet(seen)
  BY DEF SeriesMatches, ToSet
<1>3. \A i \in 1 .. n : seen[i] = seen[1] + (i - 1) * B
  BY <1>2, BarSteps
<1>4. PICK k \in 1 .. BarCount : seen[1] = k * B - 1
  <2>1. seen[1] \in Bars
    BY <1>2
  <2>2. QED
    BY <2>1 DEF Bars
<1>5. PICK l \in 1 .. BarCount : seen[n] = l * B - 1
  <2>1. seen[n] \in Bars
    BY <1>2
  <2>2. QED
    BY <2>1 DEF Bars
<1>6. k \in Int /\ l \in Int /\ k * B \in Int /\ l * B \in Int
  BY <1>1
<1>7. FirstEligible(g, from) = k - 1 /\ LastEligible(g, to) = l - 1
  <2>1. GridIndex(g, seen[1]) = FirstEligible(g, from) /\ GridIndex(g, Last(seen)) = LastEligible(g, to)
    BY DEF SeriesMatches
  <2>2. Last(seen) = seen[n]
    BY DEF Last
  <2>3. GridIndex(g, k * B - 1) = k - 1 /\ GridIndex(g, l * B - 1) = l - 1
    BY <1>6, IndexOfBar
  <2>4. QED
    BY <1>4, <1>5, <2>1, <2>2, <2>3
<1> HIDE DEF B, n
<1>8. l = k + n - 1
  <2>1. l * B = k * B + (n - 1) * B
    <3>1. (n - 1) * B \in Int /\ seen[n] = seen[1] + (n - 1) * B
      BY <1>1, <1>2, <1>3
    <3> DEFINE x == (n - 1) * B
               y == k * B
               z == l * B
    <3>2. x \in Int /\ y \in Int /\ z \in Int /\ seen[n] = seen[1] + x /\ seen[1] = y - 1 /\ seen[n] = z - 1
      BY <1>4, <1>5, <1>6, <3>1
    <3> HIDE DEF x, y, z
    <3>3. z = y + x
      BY <3>2, SMTT(30)
    <3>4. QED
      BY <3>3 DEF x, y, z
  <2> DEFINE m == k + (n - 1)
  <2>2. m \in Int /\ m * B = k * B + (n - 1) * B
    BY <1>1, <1>2, <1>6
  <2> HIDE DEF m
  <2>3. ~ (l < m) /\ ~ (m < l)
    <3>1. l * B = m * B /\ l * B \in Int
      BY <1>6, <2>1, <2>2
    <3>2. ASSUME NEW a \in Int, NEW b \in Int, a < b PROVE a * B < b * B
      <4>1. a + 1 <= b /\ a + 1 \in Int
        BY <3>2
      <4>2. (a + 1) * B <= b * B /\ (a + 1) * B = a * B + B /\ a * B \in Int /\ b * B \in Int
        BY <1>1, <4>1, TimesGrow, TimesNext
      <4>3. QED
        BY <1>1, <4>2
    <3>3. QED
      BY <1>6, <2>2, <3>1, <3>2
  <2>4. l = m
    BY <1>6, <2>2, <2>3
  <2>5. QED
    BY <1>2, <1>6, <2>4 DEF m
<1>9. ASSUME NEW b \in Bars, from <= b, b < to PROVE b \in ToSet(seen)
  <2>1. PICK j \in 1 .. BarCount : b = j * B - 1
    BY DEF Bars, B
  <2>2. j \in Int /\ j * B \in Int
    BY <1>1
  <2>3. k - 1 <= j - 1
    BY <1>7, <1>9, <2>1, FirstBar DEF B
  <2>4. j - 1 <= l - 1
    BY <1>7, <1>9, <2>1, LastBar DEF B
  <2> DEFINE i == j - k + 1
  <2>5. i \in 1 .. n /\ i - 1 = j - k
    BY <1>2, <1>6, <1>8, <2>2, <2>3, <2>4
  <2>6. (j - k) * B = j * B - k * B /\ (j - k) * B \in Int
    BY <1>1, <1>6, <2>2
  <2> HIDE DEF i
  <2>7. seen[i] = seen[1] + (i - 1) * B
    BY <1>3, <2>5
  <2> DEFINE x == j * B
             y == k * B
             z == (j - k) * B
  <2>a. /\ x \in Int /\ y \in Int /\ z = x - y /\ b = x - 1 /\ seen[1] = y - 1
        /\ seen[i] = seen[1] + z
    BY <1>4, <1>6, <2>1, <2>2, <2>5, <2>6, <2>7
  <2> HIDE DEF x, y, z
  <2>8. seen[i] = b
    BY <2>a
  <2>9. QED
    BY <1>2, <2>5, <2>8
<1>10. ASSUME NEW j \in 1 .. n, NEW i \in 1 .. j - 1 PROVE <<seen[i], seen[j]>> \in {p \in Int \X Int : p[1] < p[2]}
  <2>1. i \in 1 .. n /\ j \in Int /\ i \in Int /\ i - 1 \in Int /\ j - 1 \in Int /\ (i - 1) + 1 <= j - 1
    BY <1>2
  <2> DEFINE a == i - 1
             c == j - 1
  <2>2. a \in Int /\ c \in Int /\ a + 1 <= c
    BY <2>1
  <2>3. seen[i] = seen[1] + a * B /\ seen[j] = seen[1] + c * B
    BY <1>3, <2>1
  <2> HIDE DEF a, c
  <2>4. (a + 1) * B <= c * B /\ (a + 1) * B = a * B + B /\ a * B \in Int /\ c * B \in Int
    BY <1>1, <2>2, TimesGrow, TimesNext, SMTT(30)
  <2>5. seen[1] \in Int /\ seen[i] \in Int /\ seen[j] \in Int
    BY <1>2, <2>1
  <2>6. seen[i] < seen[j]
    BY <1>1, <2>3, <2>4, <2>5
  <2>7. QED
    BY <2>5, <2>6
<1>11. QED
  BY <1>2, <1>9, <1>10 DEF Ascending, Pairwise

-----------------------------------------------------------------------------
(* What the batch has decided on. *)

(* The state's bars end at the newest one and begin, while they are not        *)
(* enough, at the first of the window; "times" are those with a history.       *)
Decided(bars, times) ==
    IF bars = <<>> THEN times = {}
    ELSE LET newest == Last(bars)
         IN  /\ newest \in Bars /\ window.start <= newest /\ newest < window.end
             /\ Len(bars) <= Lookback => newest - Len(bars) * BarInterval < window.start
             /\ window.start <= newest - (Len(bars) - 1) * BarInterval
             /\ times = {b \in Bars : window.start + Lookback * BarInterval <= b /\ b <= newest}

LEMMA DecidedFirst ==
  ASSUME NEW times, Decided(<<>>, times), window.start \in Nat,
         NEW d \in Bars, window.start <= d, d < window.end,
         \A b \in Bars : window.start <= b => d <= b,
         NEW next \in Seq(Int), next # <<>>, Last(next) = d, Len(next) = 1
  PROVE  Decided(next, times \cup (IF Len(next) = Lookback + 1 THEN {d} ELSE {}))
<1> DEFINE B == BarInterval
           l == Lookback
           new == times \cup (IF Len(next) = Lookback + 1 THEN {d} ELSE {})
<1>1. B \in Nat \ {0} /\ l \in Nat /\ l * B \in Int /\ d \in Nat /\ 1 * B = B /\ (1 - 1) * B = 0
  BY ClockFacts, FeatureFacts, BarFacts
<1>2. times = {}
  BY DEF Decided
<1>3. d - B < window.start
  <2>1. SUFFICES ASSUME window.start <= d - B PROVE FALSE
    BY <1>1
  <2>2. (-1) * B = -B /\ -1 \in Int
    BY <1>1
  <2>3. d < WindowEnd /\ WindowEnd \in Nat
    BY BarFacts, ClockFacts
  <2> HIDE DEF B
  <2>4. d + (-1) * B >= 0 /\ d + (-1) * B < WindowEnd /\ d + (-1) * B = d - B
    BY <1>1, <2>1, <2>2, <2>3
  <2>5. d - B \in Bars
    BY <2>2, <2>4, BarFacts DEF B
  <2>6. d <= d - B
    BY <2>1, <2>5
  <2>7. QED
    BY <1>1, <2>6
<1>4. \A b \in Bars : b \in Nat
  BY BarFacts
<1>5. new = {b \in Bars : window.start + l * B <= b /\ b <= d}
  <2>1. CASE l = 0
    <3>1. l * B = 0 /\ new = {d}
      BY <1>1, <1>2, <2>1
    <3> HIDE DEF B, l, new
    <3>2. \A b \in Bars : window.start + 0 <= b /\ b <= d <=> b = d
      BY <1>1, <1>4
    <3>3. QED
      BY <3>1, <3>2
  <2>2. CASE l # 0
    <3>1. new = {}
      BY <1>1, <1>2, <2>2
    <3>2. 1 * B <= l * B
      <4> HIDE DEF B, l
      <4>1. QED
        BY <1>1, <2>2, TimesGrow
    <3> DEFINE x == l * B
    <3>3. x \in Int /\ B <= x
      BY <1>1, <3>2
    <3> HIDE DEF B, l, new, x
    <3>4. \A b \in Bars : ~ (window.start + x <= b /\ b <= d)
      BY <1>1, <1>3, <1>4, <3>3
    <3>5. QED
      BY <3>1, <3>4 DEF x
  <2>3. QED
    BY <2>1, <2>2
<1> HIDE DEF B, new, l
<1>6. d - 1 * B < window.start /\ window.start <= d - (1 - 1) * B
  BY <1>1, <1>3
<1>7. QED
  BY <1>5, <1>6 DEF Decided, B, l, new

LEMMA DecidedNext ==
  ASSUME NEW times, NEW bars \in Seq(Int), bars # <<>>, Decided(bars, times), window.start \in Nat,
         Len(bars) <= Lookback + 1,
         NEW d \in Bars, d < window.end, d - Last(bars) = BarInterval,
         NEW next \in Seq(Int), next # <<>>, Last(next) = d,
         Len(next) = IF Len(bars) <= Lookback THEN Len(bars) + 1 ELSE Lookback + 1
  PROVE  Decided(next, times \cup (IF Len(next) = Lookback + 1 THEN {d} ELSE {}))
<1> DEFINE B == BarInterval
           L == Lookback
           n == Len(bars)
           m == Len(next)
           last == Last(bars)
           new == times \cup (IF Len(next) = Lookback + 1 THEN {d} ELSE {})
           from == window.start
           x == n * B
           y == m * B
           z == L * B
<1>1. B \in Nat \ {0} /\ L \in Nat /\ d \in Nat /\ n \in Nat /\ m \in Nat /\ from \in Nat /\ n <= L + 1
  BY ClockFacts, FeatureFacts, BarFacts
<1>2. /\ last \in Bars /\ from <= last
      /\ n <= L => last - x < from
      /\ from <= last - (n - 1) * B
      /\ times = {b \in Bars : from + z <= b /\ b <= last}
  BY DEF Decided
<1>3. d - last = B /\ last \in Nat /\ m = IF n <= L THEN n + 1 ELSE L + 1
  BY <1>2, BarFacts
<1>a. new = times \cup (IF m = L + 1 THEN {d} ELSE {})
  OBVIOUS
<1>b. \A b \in Bars : b \in Nat /\ (last < b => last + B <= b)
  BY <1>2, BarFacts
<1> HIDE DEF B, L, n, m, last, new, from
<1>4. x \in Int /\ y \in Int /\ z \in Int /\ (n - 1) * B = x - B /\ (m - 1) * B = y - B
  BY <1>1, TimesNext
<1>5. n <= L => y = x + B
  BY <1>1, <1>3, TimesNext
<1>6. n > L => y = x /\ x = z + B
  <2>1. SUFFICES ASSUME n > L PROVE y = x /\ x = z + B
    OBVIOUS
  <2>2. n = L + 1 /\ m = n
    BY <1>1, <1>3, <2>1
  <2>3. (L + 1) * B = L * B + B
    BY <1>1, TimesNext
  <2>4. QED
    BY <2>2, <2>3
<1>7. m <= L => y <= z
  BY <1>1, TimesGrow
<1>8. m = L + 1 => y = z + B
  <2>1. (L + 1) * B = L * B + B
    BY <1>1, TimesNext
  <2>2. QED
    BY <2>1
<1>9. m <= L + 1
  BY <1>1, <1>3
<1> HIDE DEF x, y, z
<1>10. m <= L => d - y < from
  BY <1>1, <1>2, <1>3, <1>4, <1>5, <1>6
<1>11. from <= d - (y - B)
  BY <1>1, <1>2, <1>3, <1>4, <1>5, <1>6
<1>12. new = {b \in Bars : from + z <= b /\ b <= d}
  <2>1. CASE m = L + 1
    <3>1. from + z <= d
      BY <1>1, <1>4, <1>8, <1>11, <2>1
    <3>2. \A b \in Bars : b <= d <=> b <= last \/ b = d
      BY <1>1, <1>3, <1>b
    <3>3. new = times \cup {d}
      BY <1>a, <2>1
    <3>4. \A b \in Bars : b \in new <=> from + z <= b /\ b <= d
      BY <1>2, <3>1, <3>2, <3>3
    <3>5. new \subseteq Bars
      BY <1>2, <3>3
    <3>6. QED
      BY <3>4, <3>5
  <2>2. CASE m # L + 1
    <3>1. m <= L
      BY <1>1, <1>9, <2>2
    <3>2. d < from + z
      BY <1>1, <1>4, <1>7, <1>10, <3>1
    <3>3. \A b \in Bars : ~ (from + z <= b /\ b <= d) /\ ~ (from + z <= b /\ b <= last)
      BY <1>1, <1>3, <1>4, <1>b, <3>2
    <3>4. new = {}
      BY <1>2, <1>a, <2>2, <3>3
    <3>5. QED
      BY <3>3, <3>4
  <2>3. QED
    BY <2>1, <2>2
<1>13. from <= d
  BY <1>1, <1>2, <1>3
<1>14. m <= L => d - m * B < from
  BY <1>10 DEF y
<1>15. from <= d - (m - 1) * B
  BY <1>4, <1>11
<1>16. new = {b \in Bars : from + L * B <= b /\ b <= d}
  BY <1>12 DEF z
<1>17. QED
  BY <1>13, <1>14, <1>15, <1>16 DEF Decided, B, L, m, from, new

(* A bar that is pushed: the bars the state has after it, and its row. *)
LEMMA BarPushed ==
  ASSUME NEW s, Retains(s), NEW d \in Int
  PROVE  /\ Len(PushBar(s, d).bars) = IF Len(s.bars) <= Lookback THEN Len(s.bars) + 1 ELSE Lookback + 1
         /\ PushBar(s, d).ok =>
               /\ s.bars # <<>> => d - Last(s.bars) = BarInterval
               /\ IF Len(PushBar(s, d).bars) = Lookback + 1
                  THEN \E r : PushBar(s, d).row = <<r>> /\ r.ts = d
                  ELSE PushBar(s, d).row = <<>>
<1> DEFINE p == Pruned(s, d)
           all == Append(p.bars, d)
           kept == IF Len(all) > Lookback + 1 THEN Tail(all) ELSE all
           t == [p EXCEPT !.bars = kept]
           ready == Len(kept) = Lookback + 1
           follows == p.bars # <<>> => d - Last(p.bars) = BarInterval
           good == follows /\ (d + 1) % BarInterval = 0 /\ (ready => AuxiliaryFresh(t, d) /\ Covered(t, d))
           values == FeatureValues(t, d)
           r == [ts |-> d, values |-> values]
           row == IF ready /\ good THEN <<r>> ELSE <<>>
<1>1. PushBar(s, d) = [t EXCEPT !.ok = @ /\ good, !.row = row]
  BY DEF PushBar
<1>2. good \in BOOLEAN
  BY DEF AuxiliaryFresh, AsOf, Covered, WindowCovered
<1>3. DOMAIN p = FeatureFields /\ p.bars = s.bars /\ p.ok = s.ok
  BY PrunedRetains
<1>4. s.bars \in Seq(Int) /\ Len(s.bars) <= Lookback + 1 /\ Len(s.bars) \in Nat /\ s.ok \in BOOLEAN /\ Lookback \in Nat
  BY FeatureFacts DEF Retains
<1>5. all \in Seq(Int) /\ Len(all) = Len(s.bars) + 1
  <2> HIDE DEF p
  <2>1. QED
    BY <1>3, <1>4, LastAppended
<1>6. Len(kept) = IF Len(s.bars) <= Lookback THEN Len(s.bars) + 1 ELSE Lookback + 1
  <2> HIDE DEF all
  <2>1. CASE Len(all) > Lookback + 1
    <3>1. all # <<>> /\ Len(Tail(all)) = Len(all) - 1
      BY <1>4, <1>5, <2>1
    <3>2. QED
      BY <1>4, <1>5, <2>1, <3>1
  <2>2. CASE ~ (Len(all) > Lookback + 1)
    BY <1>4, <1>5, <2>2
  <2>3. QED
    BY <2>1, <2>2
<1>7. good => (s.bars # <<>> => d - Last(s.bars) = BarInterval)
  <2> HIDE DEF p
  <2>1. QED
    BY <1>3
<1>8. r.ts = d
  <2> HIDE DEF values
  <2>1. QED
    OBVIOUS
<1>9. row = IF ready /\ good THEN <<r>> ELSE <<>>
  OBVIOUS
<1>10. t = [p EXCEPT !.bars = kept]
  OBVIOUS
<1> HIDE DEF p, good, row, kept, t, r
<1>11. PushBar(s, d).ok = (s.ok /\ good) /\ PushBar(s, d).bars = kept /\ PushBar(s, d).row = row
  BY <1>1, <1>3, <1>10, FieldNames
<1>12. QED
  BY <1>2, <1>4, <1>6, <1>7, <1>8, <1>9, <1>11

LEMMA FedBars ==
  ASSUME NEW s, Retains(s), NEW events \in [Kinds -> Seq(Int)], NEW d \in Int,
         Later(s, "funding", events.funding)
  PROVE  LET fed == FeedBar(s, events, d)
         IN  /\ Len(fed.bars) = IF Len(s.bars) <= Lookback THEN Len(s.bars) + 1 ELSE Lookback + 1
             /\ fed.ok =>
                   /\ s.bars # <<>> => d - Last(s.bars) = BarInterval
                   /\ IF Len(fed.bars) = Lookback + 1
                      THEN \E r : fed.row = <<r>> /\ r.ts = d
                      ELSE fed.row = <<>>
<1> DEFINE marks == UpTo(events.marks, d)
           settled == UpTo(events.funding, d)
           marked == PushAll(s, "marks", marks)
           fed == PushAll(marked, "funding", settled)
<1>1. /\ marks \in Seq(Int) /\ settled \in Seq(Int)
      /\ ToSet(settled) \subseteq ToSet(events.funding)
  <2>1. events.marks \in Seq(Int) /\ events.funding \in Seq(Int)
    BY DEF Kinds
  <2>2. \A times \in Seq(Int) : \A S : Kept(times, S) \in Seq(Int) /\ ToSet(Kept(times, S)) \subseteq ToSet(times)
    BY KeptElements
  <2>3. QED
    BY <2>1, <2>2 DEF UpTo
<1> HIDE DEF marks, settled
<1>2. /\ Len(marks) \in Nat /\ DOMAIN marks = 1 .. Len(marks)
      /\ Len(settled) \in Nat /\ DOMAIN settled = 1 .. Len(settled)
  BY <1>1
<1>3. Retains(marked) /\ marked.bars = s.bars
  <2>1. Later(s, "marks", marks)
    BY DEF Later
  <2>2. QED
    BY <1>2, <2>1, AllRetain
<1> HIDE DEF marked
<1>4. Later(marked, "funding", settled)
  BY <1>1, <1>3 DEF Later
<1>5. Retains(fed) /\ fed.bars = s.bars
  BY <1>2, <1>3, <1>4, AllRetain
<1> HIDE DEF fed
<1>6. FeedBar(s, events, d) = PushBar(fed, d)
  BY DEF FeedBar, fed, marked, marks, settled
<1>7. /\ Len(PushBar(fed, d).bars) = IF Len(fed.bars) <= Lookback THEN Len(fed.bars) + 1 ELSE Lookback + 1
      /\ PushBar(fed, d).ok =>
            /\ fed.bars # <<>> => d - Last(fed.bars) = BarInterval
            /\ IF Len(PushBar(fed, d).bars) = Lookback + 1
               THEN \E r : PushBar(fed, d).row = <<r>> /\ r.ts = d
               ELSE PushBar(fed, d).row = <<>>
  BY <1>5, BarPushed
<1>8. QED
  BY <1>5, <1>6, <1>7, Zenon

LEMMA HeadIsLeast ==
  ASSUME NEW seq \in Seq(Int), seq # <<>>, Ascending(seq)
  PROVE  Head(seq) \in ToSet(seq) /\ \A t \in ToSet(seq) : Head(seq) <= t
<1>1. Len(seq) \in Nat \ {0} /\ DOMAIN seq = 1 .. Len(seq) /\ Head(seq) = seq[1] /\ \A i \in 1 .. Len(seq) : seq[i] \in Int
  OBVIOUS
<1>2. ASSUME NEW j \in 1 .. Len(seq) PROVE seq[1] <= seq[j]
  <2>1. CASE j = 1
    BY <1>1, <2>1
  <2>2. CASE j # 1
    <3>1. 1 \in 1 .. j - 1 /\ j \in DOMAIN seq
      BY <1>1, <2>2
    <3>2. <<seq[1], seq[j]>> \in {p \in Int \X Int : p[1] < p[2]}
      BY <3>1 DEF Ascending, Pairwise
    <3>3. QED
      BY <3>2
  <2>3. QED
    BY <2>1, <2>2
<1>3. QED
  BY <1>1, <1>2 DEF ToSet

LEMMA GridElements == ToSet(GridBars) = Bars
BY DEF ToSet, GridBars, Bars, BarCount

(* The record of the acceptance tells the number of bars and where they end.   *)
LEMMA CoverageOfBars ==
  ASSUME SourceEvents.bars = GridBars
  PROVE  Coverage["bars"] = BarCoverage
<1> DEFINE B == BarInterval
           n == BarCount
<1>1. n \in Nat \ {0} /\ WindowEnd = n * B /\ B \in Nat \ {0}
  BY BarCountFacts, ClockFacts
<1>2. GridBars = [i \in 1 .. n |-> i * B - 1]
  BY DEF GridBars, BarCount
<1> HIDE DEF n, B
<1>3. Len(GridBars) = n
  BY <1>1, <1>2
<1>4. GridBars[1] = B - 1
  BY <1>1, <1>2
<1>5. Last(GridBars) = WindowEnd - 1
  <2>1. n \in 1 .. n
    BY <1>1
  <2>2. GridBars[n] = n * B - 1
    BY <1>2, <2>1
  <2>3. QED
    BY <1>1, <1>3, <2>2 DEF Last
<1>6. GapCount("bars") = 0
  BY DEF GapCount
<1>7. SourceEvents["bars"] = GridBars /\ "bars" \in Kinds
  BY DEF Kinds
<1>8. Coverage["bars"] = [rows |-> Len(SourceEvents["bars"]), gaps |-> GapCount("bars"),
                          first |-> SourceEvents["bars"][1], last |-> Last(SourceEvents["bars"])]
  BY <1>7 DEF Coverage
<1> HIDE DEF GridBars
<1>9. QED
  BY <1>3, <1>4, <1>5, <1>6, <1>7, <1>8 DEF BarCoverage, n, B

-----------------------------------------------------------------------------
(* The labels. *)

(* The label of a bar of the window is settled inside the dataset when each    *)
(* bar up to it was read.                                                      *)
LEMMA LabelledInside ==
  ASSUME LegalWindow(window), window.start \in Int, window.end \in Int,
         ToSet(input.bars) = {b \in Bars : window.start <= b /\ b < LabelEnd(window)},
         NEW d \in Bars, window.start <= d, d < window.end
  PROVE  LabelTime(d) \in Int /\ (Labelled(d) <=> LabelTime(d) < WindowEnd)
<1> DEFINE B == BarInterval
           h == Horizon * B
<1>1. B \in Nat \ {0} /\ Horizon \in Nat /\ WindowEnd \in Nat /\ d \in Nat /\ d < WindowEnd
  BY ClockFacts, FeatureFacts, BarFacts
<1>2. h \in Int /\ LabelTime(d) = d + h
  BY <1>1 DEF LabelTime
<1>3. ASSUME Labelled(d) PROVE LabelTime(d) < WindowEnd
  <2>1. CASE Horizon = 0
    <3>1. h = 0
      BY <1>1, <2>1
    <3> HIDE DEF h
    <3>2. QED
      BY <1>1, <1>2, <3>1
  <2>2. CASE Horizon # 0
    <3>1. Horizon \in 1 .. Horizon
      BY <1>1, <2>2
    <3>2. d + Horizon * B \in Bars
      BY <1>3, <3>1 DEF Labelled
    <3> HIDE DEF B
    <3>3. d + Horizon * B < WindowEnd
      BY <3>2, BarFacts
    <3>4. QED
      BY <1>2, <3>3 DEF h
  <2>3. QED
    BY <2>1, <2>2
<1>4. ASSUME LabelTime(d) < WindowEnd, NEW n \in 1 .. Horizon PROVE d + n * B \in ToSet(input.bars)
  <2> DEFINE x == n * B
  <2>1. n \in Int /\ 0 * B <= n * B /\ n * B <= Horizon * B /\ 0 * B = 0
    BY <1>1, TimesGrow
  <2>2. x \in Int /\ 0 <= x /\ x <= h
    BY <1>1, <2>1
  <2> HIDE DEF x, h
  <2>3. d + x >= 0 /\ d + x < WindowEnd /\ window.start <= d + x /\ d + x < window.end + h
    BY <1>1, <1>2, <1>4, <2>2
  <2>4. d + x \in Bars
    BY <2>1, <2>3, BarFacts DEF x
  <2>5. LabelEnd(window) = IF window.end + h < WindowEnd THEN window.end + h ELSE WindowEnd
    BY DEF LabelEnd, Smaller, h
  <2>6. d + x \in ToSet(input.bars)
    BY <1>1, <1>2, <2>2, <2>3, <2>4, <2>5
  <2>7. QED
    BY <2>6 DEF x
<1>5. Labelled(d) <=> \A n \in 1 .. Horizon : d + n * B \in ToSet(input.bars)
  BY DEF Labelled
<1>6. LabelTime(d) < WindowEnd => \A n \in 1 .. Horizon : d + n * B \in ToSet(input.bars)
  BY <1>4
<1> HIDE DEF B, h
<1>7. LabelTime(d) \in Int
  BY <1>1, <1>2
<1>8. QED
  BY <1>3, <1>5, <1>6, <1>7, Zenon

LEMMA EndInside ==
  ASSUME LegalWindow(window), window.end \in Int
  PROVE  LabelEnd(window) \in Int /\ window.end <= LabelEnd(window)
<1> DEFINE h == Horizon * BarInterval
<1>1. 0 * BarInterval <= h /\ 0 * BarInterval = 0 /\ h \in Int /\ WindowEnd \in Nat
  BY ClockFacts, FeatureFacts, TimesGrow
<1>2. LabelEnd(window) = IF window.end + h < WindowEnd THEN window.end + h ELSE WindowEnd
  BY DEF LabelEnd, Smaller
<1>3. window.end <= WindowEnd
  BY DEF LegalWindow
<1> HIDE DEF h
<1>4. QED
  BY <1>1, <1>2, <1>3

-----------------------------------------------------------------------------
(* The batch, from the acceptance to the training rows. *)

WindowBars == {b \in Bars : window.start <= b /\ b < LabelEnd(window)}

AcceptedBars ==
    stage \in {"accepted", "bound", "batch", "trained"} =>
        accepted.events.bars = GridBars /\ accepted.coverage["bars"] = BarCoverage

BatchRun ==
    /\ stage \in {"accepted", "bound"} => rows = <<>>
    /\ stage = "batch" => /\ Ascending(input.bars) /\ ToSet(input.bars) = WindowBars
                          /\ Decided(features.bars, Times(rows))

LEMMA AcceptedBarsNext == Sound /\ AcceptedBars /\ [Next]_vars => AcceptedBars'
<1>1. SUFFICES ASSUME Sound, AcceptedBars, [Next]_vars PROVE AcceptedBars'
  OBVIOUS
<1>2. CASE Accept
  <2>1. /\ raw' = raw /\ stage' \in {"accepted", "refused"}
        /\ stage' = "accepted" => RecordComplete
        /\ RecordComplete => accepted' = AcceptanceRecord
    BY <1>2 DEF Accept, Pass
  <2>2. SUFFICES ASSUME stage' = "accepted"
                 PROVE  accepted'.events.bars = GridBars /\ accepted'.coverage["bars"] = BarCoverage
    BY <2>1 DEF AcceptedBars
  <2>3. Sound'
    BY <1>1, SoundNext
  <2>4. AcceptedIsWhole'
    BY <2>3, SoundIsWhole, PTL
  <2>5. accepted'.events.bars = GridBars
    BY <2>2, <2>4 DEF AcceptedIsWhole, GridBars
  <2>6. accepted'.events = SourceEvents
    BY <2>1, <2>2, <2>3, SameData DEF Sound
  <2>7. SourceEvents.bars = GridBars
    BY <2>5, <2>6
  <2>8. accepted'.coverage = Coverage
    BY <2>1, <2>2 DEF AcceptanceRecord
  <2>9. QED
    BY <2>5, <2>7, <2>8, CoverageOfBars
<1>3. CASE Bind \/ BatchRead \/ BatchBar \/ FinishBatch
  <2>1. accepted' = accepted /\ stage \in {"accepted", "bound", "batch"}
    BY <1>3 DEF Bind, BatchRead, BatchBar, FinishBatch
  <2>2. QED
    BY <1>1, <2>1 DEF AcceptedBars
<1>4. CASE CatalogFault \/ UNCHANGED vars
  <2>1. accepted' = accepted /\ stage' = stage
    BY <1>4 DEF CatalogFault, vars
  <2>2. QED
    BY <1>1, <2>1 DEF AcceptedBars
<1>5. CASE SourceFault \/ ProbeIndex \/ LoadBars \/ LoadMarksAndFunding \/ WriteCatalog
           \/ CrosscheckCatalog \/ EngineRead \/ OnMarkPrice \/ OnFundingRate \/ OnBar \/ Parity
  <2>1. stage' \notin {"accepted", "bound", "batch", "trained"}
    BY <1>5 DEF SourceFault, ProbeIndex, LoadBars, LoadMarksAndFunding, WriteCatalog,
                CrosscheckCatalog, EngineRead, OnMarkPrice, OnFundingRate, OnBar, Parity, Pass
  <2>2. QED
    BY <2>1 DEF AcceptedBars
<1>6. QED
  BY <1>1, <1>2, <1>3, <1>4, <1>5 DEF Next

(* The read of the bars that passes the coverage is every bar of the window.   *)
LEMMA ReadIsWindow ==
  ASSUME RetainInv, AcceptedBars, stage = "bound",
         \A k \in Kinds : AcceptedSeries(WindowEvents, k), BarsInOrder(WindowEvents.bars)
  PROVE  Ascending(WindowEvents.bars) /\ ToSet(WindowEvents.bars) = WindowBars
<1> DEFINE seen == WindowEvents.bars
           g == AcceptedGrid(BarCoverage, "bars")
           to == LabelEnd(window)
<1>1. Drawn /\ Controlled /\ WindowIsLegal
  BY DEF RetainInv, Typed
<1>2. LegalWindow(window) /\ window.start \in Int /\ window.end \in Int
  BY <1>1, WindowType DEF WindowIsLegal
<1>3. to \in Int
  BY <1>2, EndInside
<1>4. catalog.bars \in Seq(Int) /\ ToSet(catalog.bars) \subseteq Bars
  <2>1. catalog \in [Kinds -> Seq(Int)] /\ ToSet(catalog.bars) \subseteq ToSet(accepted.events.bars)
    BY <1>1 DEF Drawn
  <2>2. accepted.events.bars = GridBars
    BY DEF AcceptedBars
  <2>3. QED
    BY <2>1, <2>2, GridElements DEF Kinds
<1>5. seen = Within(catalog.bars, window.start, to)
  BY DEF WindowEvents, WindowFrom, WindowTo, Kinds
<1>6. AcceptedGridExists(BarCoverage, "bars") /\ SeriesMatches(g, seen, window.start, to)
  <2>1. AcceptedSeries(WindowEvents, "bars") /\ accepted.coverage["bars"] = BarCoverage
    BY DEF Kinds, AcceptedBars
  <2>2. WindowFrom["bars"] = window.start /\ WindowTo["bars"] = to /\ WindowEvents["bars"] = seen
    BY DEF WindowFrom, WindowTo
  <2> HIDE DEF seen, to
  <2>3. QED
    BY <2>1, <2>2 DEF AcceptedSeries
<1>7. g.first = BarInterval - 1 /\ g.cadence = BarInterval /\ g.last = BarCount - 1 /\ g.gaps = {}
  BY <1>6, GridOfBars
<1> HIDE DEF g, to, seen
<1>8. /\ seen \in Seq(Int) /\ ToSet(seen) \subseteq Bars
      /\ \A t \in ToSet(seen) : window.start <= t /\ t < to
  BY <1>2, <1>3, <1>4, <1>5, WithinIs
<1>9. BarsInOrder(seen)
  BY DEF seen
<1>10. ToSet(seen) = {b \in Bars : window.start <= b /\ b < to} /\ Ascending(seen)
  BY <1>2, <1>3, <1>6, <1>7, <1>8, <1>9, BarsOfWindow
<1>11. QED
  BY <1>10 DEF seen, to, WindowBars

(* The bars of the window that are not decided on. *)
LEMMA UndecidedIs ==
  ASSUME RetainInv, BatchRun, stage = "batch"
  PROVE  /\ Undecided \in Seq(Int) /\ Ascending(Undecided)
         /\ \A b : b \in ToSet(Undecided) <=>
               /\ b \in Bars /\ window.start <= b /\ b < window.end
               /\ features.bars # <<>> => b > Last(features.bars)
<1> DEFINE S == {t \in ToSet(input.bars) :
                    t < window.end /\ (features.bars # <<>> => t > Last(features.bars))}
<1>1. Drawn /\ Controlled /\ LegalWindow(window)
  BY DEF RetainInv, Typed, WindowIsLegal
<1>2. input.bars \in Seq(Int) /\ window.start \in Int /\ window.end \in Int
  BY <1>1, WindowType DEF Drawn, Kinds
<1>3. Ascending(input.bars) /\ ToSet(input.bars) = WindowBars
  BY DEF BatchRun
<1>4. Undecided = Kept(input.bars, S)
  BY DEF Undecided
<1>5. LabelEnd(window) \in Int /\ window.end <= LabelEnd(window) /\ \A b \in Bars : b \in Nat
  BY <1>1, <1>2, EndInside, BarFacts
<1>6. \A b : b \in S <=> /\ b \in Bars /\ window.start <= b /\ b < window.end
                         /\ features.bars # <<>> => b > Last(features.bars)
  BY <1>2, <1>3, <1>5 DEF WindowBars
<1>7. S \subseteq ToSet(input.bars)
  OBVIOUS
<1> HIDE DEF S
<1>8. /\ Kept(input.bars, S) \in Seq(Int)
      /\ \A b : b \in ToSet(Kept(input.bars, S)) <=> b \in ToSet(input.bars) /\ b \in S
  BY <1>2, KeptElements
<1>9. Ascending(Kept(input.bars, S))
  BY <1>2, <1>3, KeptPairs DEF Ascending
<1>10. QED
  BY <1>4, <1>6, <1>7, <1>8, <1>9

(* The bar the batch decides on next continues what it has decided on.         *)
LEMMA BarDecided ==
  ASSUME RetainInv, BatchRun, BatchBar, stage' = "batch"
  PROVE  Decided(features'.bars, Times(rows'))
<1> DEFINE d == Head(Undecided)
           fed == FeedBar(features, input, d)
           new == IF Len(fed.bars) = Lookback + 1 THEN {d} ELSE {}
<1>1. stage = "batch" /\ Undecided # <<>> /\ features' = fed /\ fed.ok /\ rows' = rows \o fed.row
  BY DEF BatchBar, Pass
<1>2. Drawn /\ Controlled /\ Retains(features) /\ LegalWindow(window) /\ Later(features, "funding", input.funding)
  BY <1>1 DEF RetainInv, Typed, WindowIsLegal, Coming
<1>3. input \in [Kinds -> Seq(Int)] /\ Rowed(rows, ToSet(accepted.events.bars))
  BY <1>1, <1>2 DEF Drawn
<1>4. window.start \in Nat /\ window.end \in Int
  BY <1>2, WindowType DEF LegalWindow
<1>5. /\ Undecided \in Seq(Int) /\ Ascending(Undecided)
      /\ \A b : b \in ToSet(Undecided) <=>
            /\ b \in Bars /\ window.start <= b /\ b < window.end
            /\ features.bars # <<>> => b > Last(features.bars)
  BY <1>1, UndecidedIs
<1>6. d \in ToSet(Undecided) /\ \A t \in ToSet(Undecided) : d <= t
  BY <1>1, <1>5, HeadIsLeast
<1>a. fed = FeedBar(features, input, d)
  OBVIOUS
<1> HIDE DEF d
<1>7. d \in Bars /\ d \in Nat /\ window.start <= d /\ d < window.end
  BY <1>5, <1>6, BarFacts
<1>8. Retains(fed) /\ fed.bars # <<>> /\ Last(fed.bars) = d
  BY <1>2, <1>3, <1>7, FedRetains
<1>9. /\ Len(fed.bars) = IF Len(features.bars) <= Lookback THEN Len(features.bars) + 1 ELSE Lookback + 1
      /\ fed.ok =>
            /\ features.bars # <<>> => d - Last(features.bars) = BarInterval
            /\ IF Len(fed.bars) = Lookback + 1 THEN \E r : fed.row = <<r>> /\ r.ts = d ELSE fed.row = <<>>
  BY <1>2, <1>3, <1>7, FedBars
<1> HIDE DEF fed
<1>10. Times(rows') = Times(rows) \cup new
  <2>1. CASE Len(fed.bars) = Lookback + 1
    <3>1. PICK r : fed.row = <<r>> /\ r.ts = d
      BY <1>1, <1>9, <2>1
    <3> DEFINE T == ToSet(rows) \cup {r}
    <3>2. rows \in Seq(T) /\ <<r>> \in Seq(T) /\ ToSet(<<r>>) = {r}
      <4>1. rows \in Seq(ToSet(rows)) /\ ToSet(rows) \subseteq T /\ r \in T
        BY <1>3 DEF Rowed
      <4>2. rows \in Seq(T)
        BY <4>1, SeqMonotonic
      <4> HIDE DEF T
      <4>3. <<r>> \in Seq(T) /\ DOMAIN <<r>> = {1} /\ <<r>>[1] = r
        BY <4>1
      <4>4. QED
        BY <4>2, <4>3 DEF ToSet
    <3>3. \A x : x \in ToSet(rows \o <<r>>) <=> x \in ToSet(rows) \/ x = r
      <4> HIDE DEF T
      <4>1. \A x : x \in ToSet(rows \o <<r>>) <=> x \in ToSet(rows) \/ x \in ToSet(<<r>>)
        BY <3>2, ConcatElements
      <4>2. QED
        BY <3>2, <4>1
    <3>4. Times(rows') = {x.ts : x \in ToSet(rows \o <<r>>)} /\ Times(rows) = {x.ts : x \in ToSet(rows)}
      BY <1>1, <3>1, TimesOf
    <3>5. QED
      BY <2>1, <3>1, <3>3, <3>4
  <2>2. CASE Len(fed.bars) # Lookback + 1
    <3>1. fed.row = <<>>
      BY <1>1, <1>9, <2>2
    <3>2. rows \o <<>> = rows
      BY <1>3, ConcatEmptySeq DEF Rowed
    <3>3. QED
      BY <1>1, <2>2, <3>1, <3>2
  <2>3. QED
    BY <2>1, <2>2
<1>11. features.bars \in Seq(Int) /\ Len(features.bars) <= Lookback + 1 /\ fed.bars \in Seq(Int)
  BY <1>2, <1>8 DEF Retains
<1>12. Decided(features.bars, Times(rows))
  BY <1>1 DEF BatchRun
<1>13. Decided(fed.bars, Times(rows) \cup new)
  <2>1. CASE features.bars = <<>>
    <3>1. Len(fed.bars) = 1
      BY <1>9, <2>1, FeatureFacts
    <3>2. \A b \in Bars : window.start <= b => d <= b
      <4>1. ASSUME NEW b \in Bars, window.start <= b PROVE d <= b
        <5>1. b \in Nat
          BY BarFacts
        <5>2. CASE b < window.end
          BY <1>5, <1>6, <2>1, <4>1, <5>2
        <5>3. CASE ~ (b < window.end)
          BY <1>4, <1>7, <5>1, <5>3
        <5>4. QED
          BY <5>2, <5>3
      <4>2. QED
        BY <4>1
    <3>3. Decided(<<>>, Times(rows))
      BY <1>12, <2>1
    <3>4. QED
      BY <1>4, <1>7, <1>8, <1>11, <3>1, <3>2, <3>3, DecidedFirst
  <2>2. CASE features.bars # <<>>
    <3>1. d - Last(features.bars) = BarInterval
      BY <1>1, <1>9, <2>2
    <3>2. QED
      BY <1>4, <1>7, <1>8, <1>9, <1>11, <1>12, <2>2, <3>1, DecidedNext
  <2>3. QED
    BY <2>1, <2>2
<1>14. QED
  BY <1>1, <1>10, <1>13

LEMMA BatchRunNext == RetainInv /\ AcceptedBars /\ BatchRun /\ [Next]_vars => BatchRun'
<1>1. SUFFICES ASSUME RetainInv, AcceptedBars, BatchRun, [Next]_vars PROVE BatchRun'
  OBVIOUS
<1>2. CASE Accept
  <2>1. stage = "checked" /\ stage' \in {"accepted", "refused"} /\ rows' = rows
    BY <1>2 DEF Accept, Pass, research
  <2>2. rows = <<>>
    BY <1>1, <2>1 DEF RetainInv, Typed, Drawn
  <2>3. QED
    BY <2>1, <2>2 DEF BatchRun
<1>3. CASE Bind
  <2>1. stage = "accepted" /\ stage' \in {"bound", "refused"} /\ rows' = rows
    BY <1>3 DEF Bind, Pass
  <2>2. QED
    BY <1>1, <2>1 DEF BatchRun
<1>4. CASE BatchRead
  <2>1. /\ stage = "bound" /\ stage' \in {"batch", "refused"} /\ rows' = rows /\ features' = Fresh /\ window' = window
        /\ stage' = "batch" =>
              /\ input' = WindowEvents /\ BarsInOrder(WindowEvents.bars)
              /\ \A k \in Kinds : AcceptedSeries(WindowEvents, k)
    BY <1>4 DEF BatchRead, Pass
  <2>2. SUFFICES ASSUME stage' = "batch" PROVE BatchRun'
    BY <2>1 DEF BatchRun
  <2>3. Ascending(WindowEvents.bars) /\ ToSet(WindowEvents.bars) = WindowBars
    BY <1>1, <2>1, <2>2, ReadIsWindow
  <2>4. Ascending(input'.bars) /\ ToSet(input'.bars) = WindowBars
    BY <2>1, <2>2, <2>3
  <2>5. WindowBars' = WindowBars
    BY <2>1 DEF WindowBars, LabelEnd
  <2>6. features'.bars = <<>> /\ Times(rows') = {}
    <3>1. rows' = <<>>
      BY <1>1, <2>1 DEF BatchRun
    <3>2. DOMAIN <<>> = {}
      OBVIOUS
    <3>3. QED
      BY <2>1, <3>1, <3>2 DEF Fresh, Times
  <2>7. Decided(features.bars, Times(rows))'
    BY <2>6 DEF Decided, Times
  <2>8. Ascending(input.bars)' /\ ToSet(input.bars)' = WindowBars'
    BY <2>4, <2>5 DEF Ascending, Pairwise, ToSet
  <2>9. QED
    BY <2>2, <2>7, <2>8 DEF BatchRun
<1>5. CASE BatchBar
  <2>1. stage = "batch" /\ stage' \in {"batch", "refused"} /\ window' = window /\ input'.bars = input.bars
    <3>1. DOMAIN input = Kinds
      BY <1>1 DEF RetainInv, Typed, Shaped
    <3>2. QED
      BY <1>5, <3>1 DEF BatchBar, Pass, Kinds
  <2>2. SUFFICES ASSUME stage' = "batch" PROVE BatchRun'
    BY <2>1 DEF BatchRun
  <2>3. Decided(features'.bars, Times(rows'))
    BY <1>1, <1>5, <2>2, BarDecided
  <2>4. Decided(features.bars, Times(rows))'
    BY <2>1, <2>3 DEF Decided, Times
  <2>5. WindowBars' = WindowBars
    BY <2>1 DEF WindowBars, LabelEnd
  <2>6. Ascending(input.bars) /\ ToSet(input.bars) = WindowBars
    BY <1>1, <2>1 DEF BatchRun
  <2>7. Ascending(input.bars)' /\ ToSet(input.bars)' = WindowBars'
    BY <2>1, <2>5, <2>6 DEF Ascending, Pairwise, ToSet
  <2>8. QED
    BY <2>2, <2>4, <2>7 DEF BatchRun
<1>6. CASE CatalogFault \/ UNCHANGED vars
  <2>1. UNCHANGED <<stage, window, input, features, rows>>
    BY <1>6 DEF CatalogFault, vars, research
  <2>2. WindowBars' = WindowBars
    BY <2>1 DEF WindowBars, LabelEnd
  <2>3. stage = "batch" => Decided(features.bars, Times(rows))'
    BY <1>1, <2>1 DEF BatchRun, Decided, Times
  <2>4. stage = "batch" => Ascending(input.bars)' /\ ToSet(input.bars)' = WindowBars'
    BY <1>1, <2>1, <2>2 DEF BatchRun, Ascending, Pairwise, ToSet
  <2>5. QED
    BY <1>1, <2>1, <2>3, <2>4 DEF BatchRun
<1>7. CASE FinishBatch \/ SourceFault \/ ProbeIndex \/ LoadBars \/ LoadMarksAndFunding \/ WriteCatalog
           \/ CrosscheckCatalog \/ EngineRead \/ OnMarkPrice \/ OnFundingRate \/ OnBar \/ Parity
  <2>1. stage' \notin {"accepted", "bound", "batch"}
    BY <1>7 DEF FinishBatch, SourceFault, ProbeIndex, LoadBars, LoadMarksAndFunding, WriteCatalog,
                CrosscheckCatalog, EngineRead, OnMarkPrice, OnFundingRate, OnBar, Parity, Pass
  <2>2. QED
    BY <2>1 DEF BatchRun
<1>8. QED
  BY <1>1, <1>2, <1>3, <1>4, <1>5, <1>6, <1>7 DEF Next

(* The rows of the whole window, purged. *)
LEMMA PurgedRows ==
  ASSUME RetainInv, AcceptedBars, BatchRun, stage = "batch", Undecided = <<>>
  PROVE  Times(Purged(rows)) = {d \in ToSet(accepted.events.bars) :
            /\ window.start + Lookback * BarInterval <= d /\ d < window.end
            /\ LabelTime(d) < window.decision /\ LabelTime(d) < WindowEnd}
<1> DEFINE z == Lookback * BarInterval
           S == {row \in ToSet(rows) : Labelled(row.ts) /\ LabelTime(row.ts) < window.decision}
           ready == {b \in Bars : window.start + z <= b /\ b < window.end}
<1>1. Drawn /\ Controlled /\ Retains(features) /\ LegalWindow(window)
  BY DEF RetainInv, Typed, WindowIsLegal
<1>2. /\ rows \in Seq(ToSet(rows)) /\ window.start \in Nat /\ window.end \in Int
  BY <1>1, WindowType DEF Drawn, Rowed, LegalWindow
<1>3. 0 * BarInterval <= z /\ 0 * BarInterval = 0 /\ z \in Int
  BY ClockFacts, FeatureFacts, TimesGrow
<1>4. \A b \in Bars : b \in Nat
  BY BarFacts
<1>5. \A b \in Bars : window.start <= b /\ b < window.end =>
          features.bars # <<>> /\ ~ (b > Last(features.bars))
  <2>1. \A b : b \in ToSet(Undecided) <=>
               /\ b \in Bars /\ window.start <= b /\ b < window.end
               /\ features.bars # <<>> => b > Last(features.bars)
    BY UndecidedIs
  <2>2. \A b : b \notin ToSet(Undecided)
    BY DEF ToSet
  <2>3. QED
    BY <2>1, <2>2
<1>6. Decided(features.bars, Times(rows)) /\ ToSet(input.bars) = WindowBars
  BY DEF BatchRun
<1> HIDE DEF z
<1>7. Times(rows) = ready
  <2>1. CASE features.bars = <<>>
    <3>1. Times(rows) = {}
      BY <1>6, <2>1 DEF Decided
    <3>2. \A b \in Bars : ~ (window.start + z <= b /\ b < window.end)
      BY <1>2, <1>3, <1>4, <1>5, <2>1
    <3>3. QED
      BY <3>1, <3>2
  <2>2. CASE features.bars # <<>>
    <3>1. /\ Last(features.bars) \in Bars /\ Last(features.bars) < window.end
          /\ Times(rows) = {b \in Bars : window.start + z <= b /\ b <= Last(features.bars)}
      BY <1>6, <2>2 DEF Decided, z
    <3> DEFINE last == Last(features.bars)
    <3>2. last \in Nat /\ last < window.end /\ Times(rows) = {b \in Bars : window.start + z <= b /\ b <= last}
      BY <1>4, <3>1
    <3>3. \A b \in Bars : window.start <= b /\ b < window.end => ~ (b > last)
      BY <1>5
    <3> HIDE DEF last
    <3>4. \A b \in Bars : window.start + z <= b => (b <= last <=> b < window.end)
      BY <1>2, <1>3, <1>4, <3>2, <3>3
    <3>5. QED
      BY <3>2, <3>4
  <2>3. QED
    BY <2>1, <2>2
<1>8. \A b \in ready : Labelled(b) <=> LabelTime(b) < WindowEnd
  <2>1. ASSUME NEW b \in ready PROVE Labelled(b) <=> LabelTime(b) < WindowEnd
    <3>1. b \in Bars /\ window.start <= b /\ b < window.end
      BY <1>2, <1>3, <1>4
    <3>2. ToSet(input.bars) = {c \in Bars : window.start <= c /\ c < LabelEnd(window)}
      BY <1>6 DEF WindowBars
    <3>3. QED
      BY <1>1, <1>2, <3>1, <3>2, LabelledInside
  <2>2. QED
    BY <2>1
<1>9. Purged(rows) = Kept(rows, S)
  BY DEF Purged
<1>10. \A x : x \in ToSet(Kept(rows, S)) <=> x \in ToSet(rows) /\ x \in S
  <2> HIDE DEF S
  <2>1. QED
    BY <1>2, KeptElements
<1>11. Times(Purged(rows)) = {t \in Times(rows) : Labelled(t) /\ LabelTime(t) < window.decision}
  <2>1. Times(Purged(rows)) = {x.ts : x \in ToSet(Kept(rows, S))} /\ Times(rows) = {x.ts : x \in ToSet(rows)}
    BY <1>9, TimesOf
  <2>2. QED
    BY <1>10, <2>1
<1>12. ToSet(accepted.events.bars) = Bars
  BY GridElements DEF AcceptedBars
<1>13. Times(Purged(rows)) = {b \in ready : LabelTime(b) < window.decision /\ LabelTime(b) < WindowEnd}
  <2> HIDE DEF ready
  <2>1. QED
    BY <1>7, <1>8, <1>11
<1>14. QED
  BY <1>12, <1>13 DEF z

LEMMA LabelsNext ==
  RetainInv /\ AcceptedBars /\ BatchRun /\ NoLabelCrossesBoundary /\ [Next]_vars => NoLabelCrossesBoundary'
<1>1. SUFFICES ASSUME RetainInv, AcceptedBars, BatchRun, NoLabelCrossesBoundary, [Next]_vars, stage' = "trained"
               PROVE  NoLabelCrossesBoundary'
  BY DEF NoLabelCrossesBoundary
<1> DEFINE due == {d \in ToSet(accepted.events.bars) :
                      /\ window.start + Lookback * BarInterval <= d /\ d < window.end
                      /\ LabelTime(d) < window.decision /\ LabelTime(d) < WindowEnd}
<1>2. window' = window /\ accepted' = accepted => due' = due
  BY DEF LabelTime
<1>3. NoLabelCrossesBoundary' <=> Times(rows') = due'
  BY <1>1 DEF NoLabelCrossesBoundary, Times
<1> HIDE DEF due
<1>4. CASE FinishBatch
  <2>1. /\ stage = "batch" /\ Undecided = <<>> /\ rows' = Purged(rows)
        /\ window' = window /\ accepted' = accepted
    BY <1>1, <1>4 DEF FinishBatch, Pass
  <2>2. Times(Purged(rows)) = due
    BY <1>1, <2>1, PurgedRows DEF due
  <2>3. QED
    BY <1>2, <1>3, <2>1, <2>2
<1>5. CASE UNCHANGED vars
  <2>1. stage = "trained" /\ rows' = rows /\ window' = window /\ accepted' = accepted
    BY <1>1, <1>5 DEF vars, research
  <2>2. Times(rows) = due
    BY <1>1, <2>1 DEF NoLabelCrossesBoundary, due
  <2>3. QED
    BY <1>2, <1>3, <2>1, <2>2
<1>6. ~ (SourceFault \/ CatalogFault \/ ProbeIndex \/ LoadBars \/ LoadMarksAndFunding \/ WriteCatalog
           \/ CrosscheckCatalog \/ Accept \/ Bind \/ BatchRead \/ BatchBar \/ EngineRead
           \/ OnMarkPrice \/ OnFundingRate \/ OnBar \/ Parity)
  BY <1>1 DEF SourceFault, CatalogFault, ProbeIndex, LoadBars, LoadMarksAndFunding, WriteCatalog,
              CrosscheckCatalog, Accept, Bind, BatchRead, BatchBar, EngineRead, OnMarkPrice,
              OnFundingRate, OnBar, Parity, Pass
<1>7. QED
  BY <1>1, <1>4, <1>5, <1>6 DEF Next

LabelInv == RetainInv /\ AcceptedBars /\ BatchRun /\ NoLabelCrossesBoundary

(* A model is trained on exactly the ready rows whose label is settled before  *)
(* the evaluation that follows, whatever became of the catalog since it was    *)
(* accepted (load_accepted_feature_window, purge_training_rows).               *)
THEOREM NoLabelCrossesBoundaryHolds == Spec => []NoLabelCrossesBoundary
<1>1. Init => LabelInv
  <2>1. Init => RetainInv
    BY RetainInit
  <2>2. Init => AcceptedBars /\ BatchRun /\ NoLabelCrossesBoundary
    BY DEF Init, AcceptedBars, BatchRun, NoLabelCrossesBoundary
  <2>3. QED
    BY <2>1, <2>2 DEF LabelInv
<1>2. LabelInv /\ [Next]_vars => LabelInv'
  <2>1. RetainInv /\ [Next]_vars => RetainInv'
    BY TypedNext, WindowNext, RetainNext DEF RetainInv
  <2>2. RetainInv => Sound
    BY DEF RetainInv, Typed
  <2>3. QED
    BY <2>1, <2>2, AcceptedBarsNext, BatchRunNext, LabelsNext DEF LabelInv
<1>3. LabelInv => NoLabelCrossesBoundary
  BY DEF LabelInv
<1>4. QED
  BY <1>1, <1>2, <1>3, PTL DEF Spec

=============================================================================
