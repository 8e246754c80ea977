---------------------------- MODULE SockIOProofs ----------------------------
(***************************************************************************)
(* What split does to any bytes, and what the reader of a connection makes *)
(* of any writes, reads and polls.                                         *)
(***************************************************************************)
EXTENDS SockIO, QueueLemmas

(* Induction over sequences, for sets in place of predicates. *)
LEMMA GrowSeq ==
  ASSUME NEW S, NEW T, <<>> \in T,
         \A s \in Seq(S), e \in S : s \in T => Append(s, e) \in T
  PROVE  Seq(S) \subseteq T
<1> DEFINE good == {n \in Nat : \A s \in Seq(S) : Len(s) = n => s \in T}
<1>1. 0 \in good
  <2>1. ASSUME NEW s \in Seq(S), Len(s) = 0 PROVE s \in T
    <3>1. s = <<>> BY <2>1, EmptySeq
    <3> QED BY <3>1
  <2> QED BY <2>1
<1>2. ASSUME NEW n \in Nat, n \in good PROVE n + 1 \in good
  <2>1. ASSUME NEW s \in Seq(S), Len(s) = n + 1 PROVE s \in T
    <3>1. s # <<>> BY <2>1, EmptySeq
    <3>2. PICK f \in Seq(S), e \in S : s = Append(f, e) BY <3>1, SequenceEmptyOrAppend
    <3>3. Len(f) \in Nat /\ Len(s) = Len(f) + 1 BY <3>2, AppendProperties, LenProperties
    <3>4. Len(f) = n BY <3>3, <2>1
    <3>5. f \in T BY <3>4, <1>2
    <3> QED BY <3>2, <3>5
  <2> QED BY <2>1
<1>3. Nat \subseteq good BY <1>1, <1>2, CountUp
<1>4. \A s \in Seq(S) : Len(s) \in Nat BY LenProperties
<1> QED BY <1>3, <1>4

(***************************************************************************)
(* FlattenSeq, and the sequences that are made with it.                    *)
(***************************************************************************)

(* The recursive function in FlattenSeq exists. *)
LEMMA FlattenExists ==
  ASSUME NEW s, NEW n \in Nat
  PROVE  \E f : f = [i \in 1..n |-> IF i = 1 THEN s[i] ELSE f[i - 1] \o s[i]]
<1> DEFINE upTo == {m \in Nat : \E f : f = [i \in 1..m |-> IF i = 1 THEN s[i] ELSE f[i - 1] \o s[i]]}
<1>1. 0 \in upTo
  <2> DEFINE f == [i \in 1..0 |-> s[i]]
  <2>1. f = [i \in 1..0 |-> IF i = 1 THEN s[i] ELSE f[i - 1] \o s[i]] OBVIOUS
  <2> QED BY <2>1
<1>2. ASSUME NEW m \in Nat, m \in upTo PROVE m + 1 \in upTo
  <2>1. PICK f : f = [i \in 1..m |-> IF i = 1 THEN s[i] ELSE f[i - 1] \o s[i]] BY <1>2
  <2> DEFINE k == m + 1
             g == [i \in 1..k |-> IF i = 1 THEN s[i] ELSE f[i - 1] \o s[i]]
  <2>2. k \in Nat /\ \A i \in 1..k : i = 1 \/ (i - 1 \in 1..m /\ i - 1 \in 1..k) OBVIOUS
  <2> HIDE DEF k
  <2>3. ASSUME NEW i \in 1..k, i # 1 PROVE g[i - 1] = f[i - 1]
    <3>1. i - 1 \in 1..m /\ i - 1 \in 1..k BY <2>2, <2>3
    <3>2. f[i - 1] = IF i - 1 = 1 THEN s[i - 1] ELSE f[i - 1 - 1] \o s[i - 1] BY <2>1, <3>1
    <3>3. g[i - 1] = IF i - 1 = 1 THEN s[i - 1] ELSE f[i - 1 - 1] \o s[i - 1] BY <3>1
    <3> QED BY <3>2, <3>3
  <2>4. \A i \in 1..k : g[i] = IF i = 1 THEN s[i] ELSE g[i - 1] \o s[i] BY <2>3
  <2>5. g = [i \in 1..k |-> g[i]] OBVIOUS
  <2> HIDE DEF g
  <2>6. g = [i \in 1..k |-> IF i = 1 THEN s[i] ELSE g[i - 1] \o s[i]] BY <2>4, <2>5
  <2>7. k \in upTo BY <2>2, <2>6
  <2> QED BY <2>7 DEF k
<1>3. Nat \subseteq upTo BY <1>1, <1>2, CountUp
<1> QED BY <1>3

(* It is what FlattenSeq takes the last value of. *)
LEMMA FlattenIs ==
  ASSUME NEW S, NEW s \in Seq(S), s # <<>>
  PROVE  \E f : /\ f = [i \in 1..Len(s) |-> IF i = 1 THEN s[i] ELSE f[i - 1] \o s[i]]
                /\ FlattenSeq(s) = f[Len(s)]
<1>1. Len(s) \in Nat \ {0} BY EmptySeq
<1> DEFINE f == CHOOSE f : f = [i \in 1..Len(s) |-> IF i = 1 THEN s[i] ELSE f[i - 1] \o s[i]]
<1>2. f = [i \in 1..Len(s) |-> IF i = 1 THEN s[i] ELSE f[i - 1] \o s[i]]
  BY <1>1, FlattenExists
<1>3. FlattenSeq(s) = f[Len(s)] BY <1>1 DEF FlattenSeq
<1> HIDE DEF f
<1> QED BY <1>2, <1>3

LEMMA FlattenNothing == FlattenSeq(<<>>) = <<>>
BY EmptySeq DEF FlattenSeq

(* One piece more. *)
LEMMA FlattenAppend ==
  ASSUME NEW S, NEW s \in Seq(Seq(S)), NEW x \in Seq(S)
  PROVE  FlattenSeq(Append(s, x)) = FlattenSeq(s) \o x
<1> DEFINE a == Append(s, x)
           n == Len(s)
<1>1. /\ a \in Seq(Seq(S)) /\ a # <<>> /\ Len(a) = n + 1 /\ n \in Nat
      /\ \A i \in 1..n : a[i] = s[i]
      /\ a[n + 1] = x
  BY AppendProperties, LenProperties
<1>2. PICK g : /\ g = [i \in 1..Len(a) |-> IF i = 1 THEN a[i] ELSE g[i - 1] \o a[i]]
               /\ FlattenSeq(a) = g[Len(a)]
  BY <1>1, FlattenIs
<1>3. CASE s = <<>>
  <2>1. n = 0 BY <1>3, EmptySeq
  <2>2. FlattenSeq(a) = x BY <2>1, <1>1, <1>2
  <2> QED BY <2>2, <1>3, FlattenNothing, ConcatEmptySeq
<1>4. CASE s # <<>>
  <2>1. PICK f : /\ f = [i \in 1..n |-> IF i = 1 THEN s[i] ELSE f[i - 1] \o s[i]]
                 /\ FlattenSeq(s) = f[n]
    BY <1>4, FlattenIs
  <2>2. n # 0 BY <1>4, EmptySeq
  <2> HIDE DEF a, n
  <2> DEFINE same == {i \in Nat : i + 1 \in 1..n => g[i + 1] = f[i + 1]}
  <2>3. 0 \in same
    <3>1. 1 \in 1..n /\ 1 \in 1..(n + 1) BY <2>2, <1>1
    <3>2. g[1] = a[1] /\ f[1] = s[1] BY <3>1, <2>1, <1>1, <1>2
    <3> QED BY <3>1, <3>2, <1>1
  <2>4. ASSUME NEW i \in Nat, i \in same PROVE i + 1 \in same
    <3>1. ASSUME i + 1 + 1 \in 1..n PROVE g[i + 1 + 1] = f[i + 1 + 1]
      <4> DEFINE j == i + 1 + 1
      <4>1. /\ j \in 1..n /\ j \in 1..(n + 1) /\ j # 1 /\ j - 1 = i + 1 /\ i + 1 \in 1..n
        BY <3>1, <1>1
      <4> HIDE DEF j
      <4>2. g[j] = g[j - 1] \o a[j] BY <4>1, <1>1, <1>2
      <4>3. f[j] = f[j - 1] \o s[j] BY <4>1, <2>1
      <4>4. g[j - 1] = f[j - 1] BY <4>1, <2>4
      <4>5. g[j] = f[j] BY <4>1, <4>2, <4>3, <4>4, <1>1
      <4> QED BY <4>5 DEF j
    <3> QED BY <3>1
  <2>5. Nat \subseteq same BY <2>3, <2>4, CountUp
  <2>6. n - 1 \in Nat /\ n - 1 + 1 = n /\ n \in 1..n BY <2>2, <1>1
  <2>7. g[n] = f[n] BY <2>5, <2>6
  <2> DEFINE k == n + 1
  <2>8. k \in 1..k /\ k # 1 /\ k - 1 = n /\ Len(a) = k /\ a[k] = x BY <2>2, <1>1
  <2> HIDE DEF k
  <2>9. g[k] = g[k - 1] \o a[k] BY <2>8, <1>2
  <2>10. g[k] = f[n] \o x BY <2>7, <2>8, <2>9
  <2> QED BY <2>8, <2>10, <2>1, <1>2 DEF a
<1> QED BY <1>3, <1>4

LEMMA FlattenType ==
  ASSUME NEW S, NEW s \in Seq(Seq(S))
  PROVE  FlattenSeq(s) \in Seq(S)
<1> DEFINE T == {t \in Seq(Seq(S)) : FlattenSeq(t) \in Seq(S)}
<1>1. <<>> \in T BY EmptySeq, FlattenNothing
<1>2. ASSUME NEW t \in Seq(Seq(S)), NEW e \in Seq(S), t \in T PROVE Append(t, e) \in T
  <2>1. FlattenSeq(Append(t, e)) = FlattenSeq(t) \o e BY FlattenAppend
  <2>2. FlattenSeq(t) \in Seq(S) BY <1>2
  <2>3. FlattenSeq(t) \o e \in Seq(S) BY <2>2, ConcatProperties
  <2>4. Append(t, e) \in Seq(Seq(S)) BY AppendProperties
  <2> QED BY <2>1, <2>3, <2>4
<1>3. Seq(Seq(S)) \subseteq T BY <1>1, <1>2, GrowSeq
<1> QED BY <1>3

LEMMA AppendToConcat ==
  ASSUME NEW S, NEW s \in Seq(S), NEW t \in Seq(S), NEW e \in S
  PROVE  s \o Append(t, e) = Append(s \o t, e)
<1>1. s \o t \in Seq(S) BY ConcatProperties
<1>2. Append(t, e) = t \o <<e>> /\ Append(s \o t, e) = (s \o t) \o <<e>>
  BY <1>1, AppendIsConcat
<1>3. <<e>> \in Seq(S) OBVIOUS
<1>4. (s \o t) \o <<e>> = s \o (t \o <<e>>) BY <1>3, ConcatAssociative
<1> QED BY <1>2, <1>4

LEMMA FlattenConcat ==
  ASSUME NEW S, NEW s \in Seq(Seq(S)), NEW t \in Seq(Seq(S))
  PROVE  FlattenSeq(s \o t) = FlattenSeq(s) \o FlattenSeq(t)
<1> DEFINE T == {u \in Seq(Seq(S)) : FlattenSeq(s \o u) = FlattenSeq(s) \o FlattenSeq(u)}
<1>0. FlattenSeq(s) \in Seq(S) BY FlattenType
<1>1. <<>> \in T
  <2>1. s \o <<>> = s /\ <<>> \in Seq(Seq(S)) BY ConcatEmptySeq, EmptySeq
  <2>2. FlattenSeq(s) \o <<>> = FlattenSeq(s) BY <1>0, ConcatEmptySeq
  <2> QED BY <2>1, <2>2, FlattenNothing
<1>2. ASSUME NEW u \in Seq(Seq(S)), NEW e \in Seq(S), u \in T PROVE Append(u, e) \in T
  <2>1. s \o Append(u, e) = Append(s \o u, e) BY AppendToConcat
  <2>2. s \o u \in Seq(Seq(S)) /\ Append(u, e) \in Seq(Seq(S))
    BY ConcatProperties, AppendProperties
  <2>3. FlattenSeq(Append(s \o u, e)) = FlattenSeq(s \o u) \o e BY <2>2, FlattenAppend
  <2>4. FlattenSeq(u) \in Seq(S) BY FlattenType
  <2>5. (FlattenSeq(s) \o FlattenSeq(u)) \o e = FlattenSeq(s) \o (FlattenSeq(u) \o e)
    BY <1>0, <2>4, ConcatAssociative, SMTT(20)
  <2>6. FlattenSeq(Append(u, e)) = FlattenSeq(u) \o e BY FlattenAppend
  <2>7. FlattenSeq(s \o u) = FlattenSeq(s) \o FlattenSeq(u) BY <1>2
  <2> QED BY <2>1, <2>2, <2>3, <2>5, <2>6, <2>7
<1>3. Seq(Seq(S)) \subseteq T BY <1>1, <1>2, GrowSeq
<1> QED BY <1>3

(* One sequence and then another.  It is not expanded where it need not be:  *)
(* an equation with \o in it is taken apart position by position.            *)
Then(a, b) == a \o b

LEMMA ThenType ==
  ASSUME NEW S, NEW a \in Seq(S), NEW b \in Seq(S)
  PROVE  Then(a, b) \in Seq(S)
BY ConcatProperties DEF Then

LEMMA ThenLen ==
  ASSUME NEW S, NEW a \in Seq(S), NEW b \in Seq(S)
  PROVE  Len(Then(a, b)) = Len(a) + Len(b) /\ Len(a) \in Nat /\ Len(b) \in Nat
BY ConcatIs DEF Then

LEMMA ThenFirst ==
  ASSUME NEW S, NEW a \in Seq(S), NEW b \in Seq(S), NEW i \in 1..Len(a)
  PROVE  Then(a, b)[i] = a[i]
BY ConcatIs DEF Then

LEMMA ThenLast ==
  ASSUME NEW S, NEW a \in Seq(S), NEW b \in Seq(S), NEW i \in 1..Len(b)
  PROVE  Then(a, b)[Len(a) + i] = b[i]
BY ConcatIs DEF Then

LEMMA ThenNothing ==
  ASSUME NEW S, NEW a \in Seq(S)
  PROVE  Then(a, <<>>) = a /\ Then(<<>>, a) = a
BY ConcatEmptySeq DEF Then

LEMMA ThenThen ==
  ASSUME NEW S, NEW a \in Seq(S), NEW b \in Seq(S), NEW c \in Seq(S)
  PROVE  Then(Then(a, b), c) = Then(a, Then(b, c))
BY ConcatAssociative DEF Then

(* What becomes of every element, one after the other. *)
Turns(K, S, R) == K \in [S -> Seq(R)]
Each(K, s) == FlattenSeq([i \in DOMAIN s |-> K[s[i]]])

LEMMA EachConcat ==
  ASSUME NEW S, NEW R, NEW K, Turns(K, S, R), NEW a \in Seq(S), NEW b \in Seq(S)
  PROVE  /\ Each(K, a) \in Seq(R) /\ Each(K, b) \in Seq(R)
         /\ Each(K, Then(a, b)) = Then(Each(K, a), Each(K, b))
<1>0. K \in [S -> Seq(R)] BY DEF Turns
<1> DEFINE map(s) == [i \in DOMAIN s |-> K[s[i]]]
<1>1. ASSUME NEW s \in Seq(S)
      PROVE  map(s) \in Seq(Seq(R)) /\ Len(map(s)) = Len(s) /\ FlattenSeq(map(s)) \in Seq(R)
  <2>1. Len(s) \in Nat /\ DOMAIN s = 1..Len(s) /\ \A i \in 1..Len(s) : s[i] \in S
    BY LenProperties, ElementOfSeq
  <2>2. map(s) \in [1..Len(s) -> Seq(R)] BY <1>0, <2>1
  <2>3. map(s) \in Seq(Seq(R)) /\ Len(map(s)) = Len(s) BY <2>1, <2>2, FunIsSeq
  <2> QED BY <2>3, FlattenType
<1>2. a \o b \in Seq(S) /\ Len(a) \in Nat /\ Len(b) \in Nat /\ Len(a \o b) = Len(a) + Len(b)
  BY ConcatIs
<1>3. map(a \o b) = map(a) \o map(b)
  <2>1. /\ map(a) \o map(b) \in Seq(Seq(R))
        /\ Len(map(a) \o map(b)) = Len(a) + Len(b)
        /\ \A i \in 1..Len(a) : (map(a) \o map(b))[i] = map(a)[i]
        /\ \A i \in 1..Len(b) : (map(a) \o map(b))[Len(a) + i] = map(b)[i]
    <3>1. map(a) \in Seq(Seq(R)) /\ map(b) \in Seq(Seq(R)) /\ Len(map(a)) = Len(a) /\ Len(map(b)) = Len(b)
      BY <1>1
    <3> DEFINE ma == map(a)
               mb == map(b)
    <3> HIDE DEF map, ma, mb
    <3>3. ma \in Seq(Seq(R)) /\ mb \in Seq(Seq(R)) BY <3>1 DEF ma, mb
    <3>4. /\ ma \o mb \in Seq(Seq(R))
          /\ Len(ma \o mb) = Len(ma) + Len(mb)
          /\ \A i \in 1..Len(ma) : (ma \o mb)[i] = ma[i]
          /\ \A i \in 1..Len(mb) : (ma \o mb)[Len(ma) + i] = mb[i]
      BY <3>3, ConcatIs
    <3>2. /\ map(a) \o map(b) \in Seq(Seq(R))
          /\ Len(map(a) \o map(b)) = Len(map(a)) + Len(map(b))
          /\ \A i \in 1..Len(map(a)) : (map(a) \o map(b))[i] = map(a)[i]
          /\ \A i \in 1..Len(map(b)) : (map(a) \o map(b))[Len(map(a)) + i] = map(b)[i]
      BY <3>4 DEF ma, mb
    <3> QED BY <3>1, <3>2
  <2>2. map(a \o b) \in Seq(Seq(R)) /\ Len(map(a \o b)) = Len(a) + Len(b) BY <1>1, <1>2
  <2>3. DOMAIN a = 1..Len(a) /\ DOMAIN b = 1..Len(b) /\ DOMAIN (a \o b) = 1..(Len(a) + Len(b))
    BY LenProperties, ConcatIs
  <2>4. /\ \A i \in 1..Len(a) : (a \o b)[i] = a[i]
        /\ \A i \in 1..Len(b) : (a \o b)[Len(a) + i] = b[i]
    BY ConcatIs
  <2>5. ASSUME NEW i \in 1..(Len(a) + Len(b)) PROVE map(a \o b)[i] = (map(a) \o map(b))[i]
    <3>1. CASE i <= Len(a)
      <4>1. i \in 1..Len(a) BY <3>1, <1>2
      <4> QED BY <4>1, <2>1, <2>3, <2>4
    <3>2. CASE ~(i <= Len(a))
      <4>1. i - Len(a) \in 1..Len(b) /\ Len(a) + (i - Len(a)) = i BY <3>2, <1>2
      <4>2. (map(a) \o map(b))[i] = map(b)[i - Len(a)] BY <4>1, <2>1
      <4>3. (a \o b)[i] = b[i - Len(a)] BY <4>1, <2>4
      <4> QED BY <4>1, <4>2, <4>3, <2>3
    <3> QED BY <3>1, <3>2
  <2> HIDE DEF map
  <2> QED BY <2>1, <2>2, <2>5, SeqEqual
<1>4. map(a) \in Seq(Seq(R)) /\ map(b) \in Seq(Seq(R)) BY <1>1
<1> HIDE DEF map
<1>5. FlattenSeq(map(a) \o map(b)) = FlattenSeq(map(a)) \o FlattenSeq(map(b))
  BY <1>4, FlattenConcat
<1>6. FlattenSeq(map(a)) \in Seq(R) /\ FlattenSeq(map(b)) \in Seq(R) BY <1>4, FlattenType
<1> QED BY <1>3, <1>5, <1>6 DEF map, Each, Then

(***************************************************************************)
(* split.                                                                  *)
(***************************************************************************)

(* Whatever holds at an offset if it holds behind it holds everywhere. *)
LEMMA CountDown ==
  ASSUME NEW n \in Nat, NEW T,
         \A o \in 1..(n + 1) : (\A j \in (o + 1)..(n + 1) : j \in T) => o \in T
  PROVE  1..(n + 1) \subseteq T
<1> DEFINE done == {k \in Nat : \A j \in 1..(n + 1) : n + 1 - k < j => j \in T}
<1>1. 0 \in done OBVIOUS
<1>2. ASSUME NEW k \in Nat, k \in done PROVE k + 1 \in done
  <2>1. ASSUME NEW j \in 1..(n + 1), n + 1 - (k + 1) < j PROVE j \in T
    <3>1. \A i \in (j + 1)..(n + 1) : i \in 1..(n + 1) /\ n + 1 - k < i BY <2>1
    <3>2. \A i \in (j + 1)..(n + 1) : i \in T BY <3>1, <1>2
    <3> QED BY <3>2
  <2> QED BY <2>1
<1>3. Nat \subseteq done BY <1>1, <1>2, CountUp
<1>4. n + 1 \in done BY <1>3
<1> QED BY <1>4

(* What find() looks for. *)
LEMMA FindsIs ==
  ASSUME NEW S, NEW s \in Seq(S), NEW i \in 1..Len(s)
  PROVE  Finds(s, i) <=> i < Len(s) /\ s[i] = CR /\ s[i + 1] = LF
<1> DEFINE two == SubSeq(s, i, i + 1)
<1>1. Len(s) \in Nat /\ \A j \in 1..Len(s) : s[j] \in S BY LenProperties, ElementOfSeq
<1>2. CASE i < Len(s)
  <2>1. \A j \in i..(i + 1) : s[j] \in S BY <1>1, <1>2
  <2>2. /\ two \in Seq(S) /\ Len(two) = IF i <= i + 1 THEN i + 1 - i + 1 ELSE 0
        /\ \A j \in 1..(i + 1 - i + 1) : two[j] = s[i + j - 1]
    BY <2>1, <1>1, SubSeqProperties
  <2> HIDE DEF two
  <2>3. two \in Seq(S) /\ Len(two) = 2 /\ two[1] = s[i] /\ two[2] = s[i + 1]
    BY <2>2, <1>1
  <2>4. two = <<two[1], two[2]>> BY <2>3
  <2>5. two = CRLF <=> two[1] = CR /\ two[2] = LF BY <2>4 DEF CRLF
  <2> QED BY <2>3, <2>5, <1>2 DEF Finds, two
<1>3. CASE ~(i < Len(s)) BY <1>3 DEF Finds
<1> QED BY <1>2, <1>3

(* The places of CR LF from an offset on, and what split returns from there. *)
Found(s, o) == {i \in o..Len(s) : Finds(s, i)}

SplitFrom(s) ==
  CHOOSE from : from = [o \in 1..(Len(s) + 1) |->
    IF Found(s, o) = {} THEN <<SubSeq(s, o, Len(s))>>
    ELSE <<SubSeq(s, o, Min(Found(s, o)) - 1)>> \o from[Min(Found(s, o)) + 2]]

LEMMA SplitIs == ASSUME NEW s PROVE Split(s) = SplitFrom(s)[1]
BY DEF Split, SplitFrom, Found

(* After the first of them there is an offset to go on with. *)
LEMMA FoundIs ==
  ASSUME NEW S, NEW s \in Seq(S), NEW o \in 1..(Len(s) + 1), Found(s, o) # {}
  PROVE  /\ Len(s) \in Nat
         /\ Min(Found(s, o)) \in o..(Len(s) - 1)
         /\ s[Min(Found(s, o))] = CR /\ s[Min(Found(s, o)) + 1] = LF
         /\ Min(Found(s, o)) + 2 \in (o + 2)..(Len(s) + 1)
         /\ \A i \in Found(s, o) : Min(Found(s, o)) <= i
<1>1. Len(s) \in Nat BY LenProperties
<1>2. Found(s, o) \in SUBSET Nat BY <1>1 DEF Found
<1>3. Min(Found(s, o)) \in Found(s, o) /\ \A i \in Found(s, o) : Min(Found(s, o)) <= i
  BY <1>2, MinWorks
<1> DEFINE m == Min(Found(s, o))
<1> HIDE DEF m
<1>4. m \in o..Len(s) /\ Finds(s, m) BY <1>3 DEF Found, m
<1>5. m \in 1..Len(s) BY <1>1, <1>4
<1>6. m < Len(s) /\ s[m] = CR /\ s[m + 1] = LF BY <1>4, <1>5, FindsIs
<1>7. m \in o..(Len(s) - 1) /\ m + 2 \in (o + 2)..(Len(s) + 1) BY <1>1, <1>4, <1>6
<1> QED BY <1>1, <1>3, <1>6, <1>7 DEF m

(* It is the first if nothing comes before it. *)
LEMMA FirstIs ==
  ASSUME NEW S, NEW s \in Seq(S), NEW o \in 1..(Len(s) + 1), NEW m \in Found(s, o),
         \A i \in Found(s, o) : m <= i
  PROVE  Min(Found(s, o)) = m
<1>1. Len(s) \in Nat BY LenProperties
<1>2. Found(s, o) \in SUBSET Nat BY <1>1 DEF Found
<1>3. Min(Found(s, o)) \in Found(s, o) /\ Min(Found(s, o)) <= m BY <1>2, MinWorks
<1>4. m <= Min(Found(s, o)) /\ m \in Nat /\ Min(Found(s, o)) \in Nat BY <1>2, <1>3
<1> QED BY <1>3, <1>4

(* The recursive function in split exists. *)
LEMMA SplitExists ==
  ASSUME NEW S, NEW s \in Seq(S)
  PROVE  \E f : f = [o \in 1..(Len(s) + 1) |->
           IF Found(s, o) = {} THEN <<SubSeq(s, o, Len(s))>>
           ELSE <<SubSeq(s, o, Min(Found(s, o)) - 1)>> \o f[Min(Found(s, o)) + 2]]
<1> DEFINE n == Len(s)
           part(f, o) == IF Found(s, o) = {} THEN <<SubSeq(s, o, n)>>
                         ELSE <<SubSeq(s, o, Min(Found(s, o)) - 1)>> \o f[Min(Found(s, o)) + 2]
           goes(k) == k <= n + 1 => \E f : f = [o \in (n + 2 - k)..(n + 1) |-> part(f, o)]
           from == {k \in Nat : goes(k)}
<1>1. n \in Nat BY LenProperties
<1>2. \A o \in 1..(n + 1) : Found(s, o) # {} => Min(Found(s, o)) + 2 \in (o + 2)..(n + 1)
  BY FoundIs
<1> HIDE DEF n
<1>3. 0 \in from
  <2> DEFINE f == [o \in (n + 2 - 0)..(n + 1) |-> s]
  <2>1. (n + 2 - 0)..(n + 1) = {} BY <1>1
  <2>2. f = [o \in (n + 2 - 0)..(n + 1) |-> part(f, o)] BY <2>1
  <2> QED BY <2>2
<1>4. ASSUME NEW k \in Nat, k \in from PROVE k + 1 \in from
  <2> DEFINE l == k + 1
             p == n + 2 - k
             q == n + 2 - l
  <2>0. SUFFICES goes(l)
    <3> HIDE DEF goes
    <3> QED OBVIOUS
  <2> SUFFICES ASSUME l <= n + 1
               PROVE  \E g : g = [o \in q..(n + 1) |-> part(g, o)]
    OBVIOUS
  <2>1. q \in 1..(n + 1) /\ p = q + 1 /\ k <= n + 1 BY <1>1
  <2>2. PICK f : f = [o \in p..(n + 1) |-> part(f, o)] BY <2>1, <1>4
  <2> HIDE DEF p, q
  <2> DEFINE g == [o \in q..(n + 1) |-> part(f, o)]
  <2>3. ASSUME NEW o \in q..(n + 1) PROVE part(f, o) = part(g, o)
    <3>1. o \in 1..(n + 1) BY <2>1, <1>1
    <3>2. CASE Found(s, o) # {}
      <4> DEFINE m == Min(Found(s, o)) + 2
      <4>1. m \in (o + 2)..(n + 1) BY <3>1, <3>2, <1>2
      <4> HIDE DEF m
      <4>2. m \in p..(n + 1) /\ m \in q..(n + 1) BY <4>1, <2>1, <1>1
      <4>3. f[m] = part(f, m) /\ g[m] = part(f, m)
        <5> HIDE DEF part
        <5> QED BY <4>2, <2>2
      <4> QED BY <4>3 DEF m
    <3> QED BY <3>2
  <2>4. g = [o \in q..(n + 1) |-> part(g, o)]
    <3>1. \A o \in q..(n + 1) : g[o] = part(g, o) BY <2>3
    <3>2. g = [o \in q..(n + 1) |-> g[o]] OBVIOUS
    <3> HIDE DEF g
    <3> QED BY <3>1, <3>2
  <2> WITNESS g
  <2> QED BY <2>4
<1>5. Nat \subseteq from
  <2> HIDE DEF from
  <2> QED BY <1>3, <1>4, CountUp
<1>6. n + 1 \in Nat /\ n + 1 <= n + 1 /\ n + 2 - (n + 1) = 1 BY <1>1
<1>7. \E f : f = [o \in (n + 2 - (n + 1))..(n + 1) |-> part(f, o)] BY <1>5, <1>6
<1> QED BY <1>6, <1>7 DEF n

(* One part, and what split makes of the rest. *)
LEMMA SplitStep ==
  ASSUME NEW S, NEW s \in Seq(S), NEW o \in 1..(Len(s) + 1)
  PROVE  SplitFrom(s)[o] =
           IF Found(s, o) = {} THEN <<SubSeq(s, o, Len(s))>>
           ELSE Then(<<SubSeq(s, o, Min(Found(s, o)) - 1)>>, SplitFrom(s)[Min(Found(s, o)) + 2])
<1> DEFINE f == SplitFrom(s)
<1>1. f = [i \in 1..(Len(s) + 1) |->
           IF Found(s, i) = {} THEN <<SubSeq(s, i, Len(s))>>
           ELSE <<SubSeq(s, i, Min(Found(s, i)) - 1)>> \o f[Min(Found(s, i)) + 2]]
  BY SplitExists DEF SplitFrom
<1> HIDE DEF f
<1>2. f[o] = IF Found(s, o) = {} THEN <<SubSeq(s, o, Len(s))>>
             ELSE <<SubSeq(s, o, Min(Found(s, o)) - 1)>> \o f[Min(Found(s, o)) + 2]
  BY <1>1
<1> QED BY <1>2 DEF f, Then

(* Some of a sequence. *)
LEMMA SubSeqIs ==
  ASSUME NEW S, NEW s \in Seq(S), NEW i \in 1..(Len(s) + 1), NEW j \in (i - 1)..Len(s)
  PROVE  /\ SubSeq(s, i, j) \in Seq(S) /\ Len(SubSeq(s, i, j)) = j - i + 1
         /\ \A k \in 1..(j - i + 1) : SubSeq(s, i, j)[k] = s[i + k - 1]
<1>1. Len(s) \in Nat /\ \A k \in 1..Len(s) : s[k] \in S BY LenProperties, ElementOfSeq
<1>2. \A k \in i..j : s[k] \in S BY <1>1
<1> DEFINE b == SubSeq(s, i, j)
<1>3. /\ b \in Seq(S) /\ Len(b) = IF i <= j THEN j - i + 1 ELSE 0
      /\ \A k \in 1..(j - i + 1) : b[k] = s[i + k - 1]
  BY <1>1, <1>2, SubSeqProperties
<1> HIDE DEF b
<1>4. Len(b) = j - i + 1 BY <1>1, <1>3
<1> QED BY <1>3, <1>4 DEF b

LEMMA SplitType ==
  ASSUME NEW S, NEW s \in Seq(S), NEW o \in 1..(Len(s) + 1)
  PROVE  SplitFrom(s)[o] \in Seq(Seq(S))
<1> DEFINE n == Len(s)
           T == {i \in 1..(n + 1) : SplitFrom(s)[i] \in Seq(Seq(S))}
<1>1. n \in Nat BY LenProperties
<1>2. ASSUME NEW i \in 1..(n + 1), \A j \in (i + 1)..(n + 1) : j \in T PROVE i \in T
  <2>1. CASE Found(s, i) = {}
    <3>1. n \in (i - 1)..n BY <1>1
    <3>2. SubSeq(s, i, n) \in Seq(S) BY <3>1, SubSeqIs
    <3>3. <<SubSeq(s, i, n)>> \in Seq(Seq(S)) BY <3>2
    <3> QED BY <2>1, <3>3, SplitStep
  <2>2. CASE Found(s, i) # {}
    <3> DEFINE m == Min(Found(s, i))
    <3>1. m \in i..(n - 1) /\ m + 2 \in (i + 2)..(n + 1) BY <2>2, FoundIs
    <3>2. SplitFrom(s)[i] = Then(<<SubSeq(s, i, m - 1)>>, SplitFrom(s)[m + 2]) BY <2>2, SplitStep
    <3> HIDE DEF m
    <3>3. m - 1 \in (i - 1)..n /\ m + 2 \in (i + 1)..(n + 1) BY <3>1, <1>1
    <3>4. SubSeq(s, i, m - 1) \in Seq(S) BY <3>3, SubSeqIs
    <3>5. <<SubSeq(s, i, m - 1)>> \in Seq(Seq(S)) BY <3>4
    <3>6. SplitFrom(s)[m + 2] \in Seq(Seq(S)) BY <3>3, <1>2
    <3> QED BY <3>2, <3>5, <3>6, ThenType
  <2> QED BY <2>1, <2>2
<1>3. 1..(n + 1) \subseteq T
  <2> HIDE DEF n, T
  <2> QED BY <1>1, <1>2, CountDown
<1> QED BY <1>3

(***************************************************************************)
(* The parts that are not empty.                                           *)
(***************************************************************************)

LEMMA SingleIs ==
  ASSUME NEW S, NEW x \in S
  PROVE  <<x>> \in Seq(S) /\ Len(<<x>>) = 1 /\ <<x>>[1] = x /\ <<x>> # <<>> /\ DOMAIN <<x>> = 1..1
OBVIOUS

LEMMA FlattenOne ==
  ASSUME NEW S, NEW p \in Seq(S)
  PROVE  FlattenSeq(<<p>>) = p
<1>1. <<>> \in Seq(Seq(S)) /\ Append(<<>>, p) = <<p>> BY EmptySeq
<1>2. FlattenSeq(<<p>>) = FlattenSeq(<<>>) \o p BY <1>1, FlattenAppend
<1> QED BY <1>2, FlattenNothing, ConcatEmptySeq

LEMMA NotEmptyConcat ==
  ASSUME NEW S, NEW a \in Seq(Seq(S)), NEW b \in Seq(Seq(S))
  PROVE  /\ NotEmpty(a) \in Seq(Seq(S)) /\ NotEmpty(b) \in Seq(Seq(S))
         /\ NotEmpty(Then(a, b)) = Then(NotEmpty(a), NotEmpty(b))
<1> DEFINE K == [p \in Seq(S) |-> IF p = <<>> THEN <<>> ELSE <<p>>]
<1>1. K \in [Seq(S) -> Seq(Seq(S))]
  <2>1. ASSUME NEW p \in Seq(S) PROVE (IF p = <<>> THEN <<>> ELSE <<p>>) \in Seq(Seq(S))
    BY SingleIs, EmptySeq
  <2> QED BY <2>1
<1>2. ASSUME NEW c \in Seq(Seq(S))
      PROVE  NotEmpty(c) = Each(K, c)
  <2>1. \A i \in DOMAIN c : c[i] \in Seq(S) BY LenProperties, ElementOfSeq
  <2>2. [i \in DOMAIN c |-> IF c[i] = <<>> THEN <<>> ELSE <<c[i]>>] = [i \in DOMAIN c |-> K[c[i]]]
    BY <2>1
  <2> QED BY <2>2 DEF NotEmpty, Each
<1>3. Then(a, b) \in Seq(Seq(S)) BY ThenType
<1> DEFINE Q == Seq(S)
<1> HIDE DEF K, Q
<1>5. Turns(K, Q, Q) /\ a \in Seq(Q) /\ b \in Seq(Q) BY <1>1 DEF Q, Turns
<1>6. /\ Each(K, a) \in Seq(Q) /\ Each(K, b) \in Seq(Q)
      /\ Each(K, Then(a, b)) = Then(Each(K, a), Each(K, b))
  BY <1>5, EachConcat
<1>7. NotEmpty(a) = Each(K, a) BY <1>2
<1>8. NotEmpty(b) = Each(K, b) BY <1>2
<1>9. NotEmpty(Then(a, b)) = Each(K, Then(a, b)) BY <1>2, <1>3
<1> QED BY <1>6, <1>7, <1>8, <1>9 DEF Q

(* One part is kept if there is something in it. *)
LEMMA NotEmptyOne ==
  ASSUME NEW S, NEW p \in Seq(S)
  PROVE  NotEmpty(<<p>>) = IF p = <<>> THEN <<>> ELSE <<p>>
<1> DEFINE x == IF p = <<>> THEN <<>> ELSE <<p>>
<1>1. x \in Seq(Seq(S)) BY SingleIs, EmptySeq
<1>2. [i \in DOMAIN <<p>> |-> IF <<p>>[i] = <<>> THEN <<>> ELSE << <<p>>[i] >>] = <<x>>
  OBVIOUS
<1> HIDE DEF x
<1>3. FlattenSeq(<<x>>) = x BY <1>1, FlattenOne
<1> QED BY <1>2, <1>3 DEF NotEmpty, x

(* What is pushed back of the parts from an offset on. *)
LEMMA KeptStep ==
  ASSUME NEW S, NEW s \in Seq(S), NEW o \in 1..(Len(s) + 1)
  PROVE  /\ NotEmpty(SplitFrom(s)[o]) \in Seq(Seq(S))
         /\ Found(s, o) = {} =>
              NotEmpty(SplitFrom(s)[o]) = NotEmpty(<<SubSeq(s, o, Len(s))>>)
         /\ Found(s, o) # {} =>
              NotEmpty(SplitFrom(s)[o]) =
                Then(NotEmpty(<<SubSeq(s, o, Min(Found(s, o)) - 1)>>),
                     NotEmpty(SplitFrom(s)[Min(Found(s, o)) + 2]))
<1>1. Len(s) \in Nat BY LenProperties
<1>2. SplitFrom(s)[o] \in Seq(Seq(S)) BY SplitType
<1>3. NotEmpty(SplitFrom(s)[o]) \in Seq(Seq(S)) BY <1>2, NotEmptyConcat
<1>4. ASSUME Found(s, o) # {}
      PROVE  NotEmpty(SplitFrom(s)[o]) =
                Then(NotEmpty(<<SubSeq(s, o, Min(Found(s, o)) - 1)>>),
                     NotEmpty(SplitFrom(s)[Min(Found(s, o)) + 2]))
  <2> DEFINE m == Min(Found(s, o))
             a == SubSeq(s, o, m - 1)
             r == SplitFrom(s)[m + 2]
  <2>1. m \in o..(Len(s) - 1) /\ m + 2 \in (o + 2)..(Len(s) + 1) BY <1>4, FoundIs
  <2>2. SplitFrom(s)[o] = Then(<<a>>, r) BY <1>4, SplitStep
  <2> HIDE DEF m
  <2>3. m - 1 \in (o - 1)..Len(s) /\ m + 2 \in 1..(Len(s) + 1) BY <2>1, <1>1
  <2>4. a \in Seq(S) /\ r \in Seq(Seq(S)) BY <2>3, SubSeqIs, SplitType
  <2> HIDE DEF a, r
  <2>5. <<a>> \in Seq(Seq(S)) BY <2>4, SingleIs
  <2>6. NotEmpty(Then(<<a>>, r)) = Then(NotEmpty(<<a>>), NotEmpty(r)) BY <2>4, <2>5, NotEmptyConcat
  <2> QED BY <2>2, <2>6 DEF m, a, r
<1>5. ASSUME Found(s, o) = {}
      PROVE  NotEmpty(SplitFrom(s)[o]) = NotEmpty(<<SubSeq(s, o, Len(s))>>)
  <2>1. SplitFrom(s)[o] = <<SubSeq(s, o, Len(s))>> BY <1>5, SplitStep
  <2> QED BY <2>1
<1> QED BY <1>3, <1>4, <1>5

LEMMA PiecesType ==
  ASSUME NEW S, NEW s \in Seq(S)
  PROVE  /\ Pieces(s) \in Seq(Seq(S))
         /\ Pieces(s) = NotEmpty(SplitFrom(s)[1])
<1>1. 1 \in 1..(Len(s) + 1) BY LenProperties
<1> QED BY <1>1, KeptStep, SplitIs DEF Pieces

(***************************************************************************)
(* Bytes behind bytes.                                                     *)
(***************************************************************************)

LEMMA SubSeqBehind ==
  ASSUME NEW S, NEW s \in Seq(S), NEW r \in Seq(S),
         NEW i \in 1..(Len(r) + 1), NEW e \in (i - 1)..Len(r)
  PROVE  SubSeq(s \o r, Len(s) + i, Len(s) + e) = SubSeq(r, i, e)
<1> DEFINE t == s \o r
           l == Len(s)
           n == Len(r)
           o == l + i
           f == l + e
           a == SubSeq(t, o, f)
           b == SubSeq(r, i, e)
<1>1. /\ t \in Seq(S) /\ Len(t) = l + n /\ l \in Nat /\ n \in Nat
      /\ \A h \in 1..n : t[l + h] = r[h]
  BY ConcatIs
<1> HIDE DEF t, l
<1>2. i \in Nat /\ e \in Int /\ i >= 1 /\ e >= i - 1 /\ e <= n BY <1>1
<1>3. o \in 1..(Len(t) + 1) /\ f \in (o - 1)..Len(t) BY <1>1, <1>2
<1>4. f - o + 1 = e - i + 1 /\ \A k \in 1..(e - i + 1) : o + k - 1 = l + (i + k - 1) /\ i + k - 1 \in 1..n
  BY <1>1, <1>2
<1> HIDE DEF o, f
<1>5. a \in Seq(S) /\ Len(a) = f - o + 1 /\ \A k \in 1..(f - o + 1) : a[k] = t[o + k - 1]
  BY <1>1, <1>3, SubSeqIs
<1>6. b \in Seq(S) /\ Len(b) = e - i + 1 /\ \A k \in 1..(e - i + 1) : b[k] = r[i + k - 1]
  BY SubSeqIs
<1> HIDE DEF a, b, n
<1>7. ASSUME NEW k \in 1..(e - i + 1) PROVE a[k] = b[k]
  <2>1. a[k] = t[o + k - 1] BY <1>4, <1>5
  <2>2. t[o + k - 1] = r[i + k - 1] BY <1>1, <1>4
  <2> QED BY <2>1, <2>2, <1>6
<1>8. a = b BY <1>4, <1>5, <1>6, <1>7, SeqEqual
<1> QED BY <1>8 DEF a, b, t, l, o, f

(* From where they begin, bytes are split alike whatever is in front. *)
LEMMA SplitBehind ==
  ASSUME NEW S, NEW s \in Seq(S), NEW r \in Seq(S), NEW j \in 1..(Len(r) + 1)
  PROVE  SplitFrom(s \o r)[Len(s) + j] = SplitFrom(r)[j]
<1> DEFINE t == s \o r
           l == Len(s)
           n == Len(r)
           T == {i \in 1..(n + 1) : SplitFrom(t)[l + i] = SplitFrom(r)[i]}
<1>1. /\ t \in Seq(S) /\ Len(t) = l + n /\ l \in Nat /\ n \in Nat
      /\ \A i \in 1..n : t[l + i] = r[i]
  BY ConcatIs
<1> HIDE DEF t, l, n
<1>2. ASSUME NEW i \in 1..(n + 1), \A k \in (i + 1)..(n + 1) : k \in T PROVE i \in T
  <2>1. l + i \in 1..(Len(t) + 1) /\ i \in 1..(Len(r) + 1) BY <1>1 DEF n
  <2>2. \A k \in i..n : l + k \in Found(t, l + i) <=> k \in Found(r, i)
    <3>1. ASSUME NEW k \in i..n PROVE Finds(t, l + k) <=> Finds(r, k)
      <4>1. l + k \in 1..Len(t) /\ k \in 1..Len(r) BY <1>1 DEF n
      <4>2. Finds(t, l + k) <=> l + k < l + n /\ t[l + k] = CR /\ t[l + k + 1] = LF
        BY <4>1, <1>1, FindsIs
      <4>3. Finds(r, k) <=> k < n /\ r[k] = CR /\ r[k + 1] = LF BY <4>1, FindsIs DEF n
      <4>4. t[l + k] = r[k] /\ (k < n => t[l + k + 1] = r[k + 1])
        <5>1. k \in 1..n /\ (k < n => k + 1 \in 1..n /\ l + k + 1 = l + (k + 1)) BY <1>1
        <5> QED BY <5>1, <1>1
      <4>5. l + k < l + n <=> k < n BY <1>1
      <4> QED BY <4>2, <4>3, <4>4, <4>5
    <3>2. \A k \in i..n : l + k \in (l + i)..Len(t) BY <1>1
    <3> QED BY <3>1, <3>2 DEF Found, n
  <2>3. \A k \in Found(t, l + i) : \E h \in i..n : k = l + h
    <3>1. ASSUME NEW k \in Found(t, l + i) PROVE \E h \in i..n : k = l + h
      <4>1. k \in (l + i)..(l + n) BY <1>1 DEF Found
      <4>2. k - l \in i..n /\ k = l + (k - l) BY <4>1, <1>1
      <4> QED BY <4>2
    <3> QED BY <3>1
  <2>4. Found(r, i) \subseteq i..n BY DEF Found, n
  <2>5. CASE Found(r, i) = {}
    <3>1. Found(t, l + i) = {} BY <2>5, <2>2, <2>3
    <3>2. SplitFrom(r)[i] = <<SubSeq(r, i, n)>> BY <2>1, <2>5, SplitStep DEF n
    <3>3. SplitFrom(t)[l + i] = <<SubSeq(t, l + i, l + n)>> BY <2>1, <3>1, <1>1, SplitStep
    <3>4. SubSeq(t, l + i, l + n) = SubSeq(r, i, n)
      <4>1. n \in (i - 1)..Len(r) /\ i \in 1..(Len(r) + 1) BY <1>1 DEF n
      <4> QED BY <4>1, SubSeqBehind DEF t, l
    <3> QED BY <3>2, <3>3, <3>4
  <2>6. CASE Found(r, i) # {}
    <3> DEFINE m == Min(Found(r, i))
    <3>1. /\ m \in i..(n - 1) /\ m + 2 \in (i + 2)..(n + 1)
          /\ \A h \in Found(r, i) : m <= h
          /\ m \in Found(r, i)
      <4>1. Found(r, i) \in SUBSET Nat BY <2>4, <1>1
      <4>2. m \in Found(r, i) BY <4>1, <2>6, MinWorks
      <4> QED BY <4>2, <2>1, <2>6, FoundIs DEF n
    <3> HIDE DEF m
    <3>2. l + m \in Found(t, l + i) BY <3>1, <2>2, <1>1
    <3>3. ASSUME NEW k \in Found(t, l + i) PROVE l + m <= k
      <4>1. PICK h \in i..n : k = l + h BY <2>3
      <4>2. h \in Found(r, i) BY <4>1, <2>2
      <4> QED BY <4>1, <4>2, <3>1, <1>1
    <3>4. Min(Found(t, l + i)) = l + m BY <2>1, <3>2, <3>3, <1>1, FirstIs
    <3>5. Found(t, l + i) # {} BY <3>2
    <3>6. SplitFrom(r)[i] = Then(<<SubSeq(r, i, m - 1)>>, SplitFrom(r)[m + 2])
      BY <2>1, <2>6, SplitStep DEF m
    <3>7. SplitFrom(t)[l + i] = Then(<<SubSeq(t, l + i, l + m - 1)>>, SplitFrom(t)[l + m + 2])
      <4> DEFINE o == l + i
      <4>1. o \in 1..(Len(t) + 1) /\ Found(t, o) # {} /\ Min(Found(t, o)) = l + m
        BY <2>1, <3>4, <3>5
      <4> HIDE DEF o
      <4>2. SplitFrom(t)[o] = Then(<<SubSeq(t, o, Min(Found(t, o)) - 1)>>, SplitFrom(t)[Min(Found(t, o)) + 2])
        BY <4>1, <1>1, SplitStep
      <4> DEFINE p == l + m
      <4>3. Min(Found(t, o)) = p BY <4>1
      <4> HIDE DEF p
      <4>4. SplitFrom(t)[o] = Then(<<SubSeq(t, o, p - 1)>>, SplitFrom(t)[p + 2]) BY <4>2, <4>3
      <4>5. p - 1 = l + m - 1 /\ p + 2 = l + m + 2 BY <1>1, <3>1 DEF p
      <4> QED BY <4>4, <4>5 DEF o
    <3>8. SplitFrom(t)[l + (m + 2)] = SplitFrom(r)[m + 2]
      <4>1. m + 2 \in (i + 1)..(n + 1) BY <3>1, <1>1
      <4> QED BY <4>1, <1>2
    <3>9. l + (m + 2) = l + m + 2 BY <3>1, <1>1
    <3>10. SubSeq(t, l + i, l + m - 1) = SubSeq(r, i, m - 1)
      <4>1. m - 1 \in (i - 1)..Len(r) /\ i \in 1..(Len(r) + 1) BY <1>1, <3>1 DEF n
      <4>2. SubSeq(t, l + i, l + (m - 1)) = SubSeq(r, i, m - 1) BY <4>1, SubSeqBehind DEF t, l
      <4>3. l + (m - 1) = l + m - 1 BY <1>1, <3>1
      <4> QED BY <4>2, <4>3
    <3> QED BY <3>6, <3>7, <3>8, <3>9, <3>10
  <2> QED BY <2>5, <2>6
<1>3. 1..(n + 1) \subseteq T
  <2> HIDE DEF T
  <2> QED BY <1>1, <1>2, CountDown
<1>4. j \in 1..(n + 1) BY DEF n
<1> QED BY <1>3, <1>4 DEF t, l, n

(***************************************************************************)
(* Parts of a sequence that stand next to each other.                      *)
(***************************************************************************)

LEMMA SubSeqNothing ==
  ASSUME NEW S, NEW s \in Seq(S), NEW i \in 1..(Len(s) + 1)
  PROVE  SubSeq(s, i, i - 1) = <<>>
<1> DEFINE e == i - 1
<1>1. Len(s) \in Nat BY LenProperties
<1>2. e \in (i - 1)..Len(s) /\ e - i + 1 = 0 BY <1>1
<1> HIDE DEF e
<1>3. SubSeq(s, i, e) \in Seq(S) /\ Len(SubSeq(s, i, e)) = e - i + 1 BY <1>2, SubSeqIs
<1>4. SubSeq(s, i, e) = <<>> BY <1>2, <1>3, EmptySeq
<1> QED BY <1>4 DEF e

LEMMA SubSeqAll ==
  ASSUME NEW S, NEW s \in Seq(S)
  PROVE  SubSeq(s, 1, Len(s)) = s
<1> DEFINE b == SubSeq(s, 1, Len(s))
           n == Len(s)
<1>1. n \in Nat BY LenProperties
<1>2. 1 \in 1..(n + 1) /\ n \in (1 - 1)..n /\ n - 1 + 1 = n /\ \A k \in 1..n : 1 + k - 1 = k BY <1>1
<1>3. b \in Seq(S) /\ Len(b) = n - 1 + 1 /\ \A k \in 1..(n - 1 + 1) : b[k] = s[1 + k - 1]
  BY <1>2, SubSeqIs
<1>4. Len(b) = n /\ \A k \in 1..n : b[k] = s[k] BY <1>2, <1>3
<1> HIDE DEF b
<1>5. b = s BY <1>3, <1>4, SeqEqual
<1> QED BY <1>5 DEF b

(* What comes after does not change what comes before. *)
LEMMA SubSeqBefore ==
  ASSUME NEW S, NEW s \in Seq(S), NEW r \in Seq(S),
         NEW i \in 1..(Len(s) + 1), NEW e \in (i - 1)..Len(s)
  PROVE  SubSeq(s \o r, i, e) = SubSeq(s, i, e)
<1> DEFINE t == s \o r
           a == SubSeq(t, i, e)
           b == SubSeq(s, i, e)
<1>1. /\ t \in Seq(S) /\ Len(t) = Len(s) + Len(r) /\ Len(s) \in Nat /\ Len(r) \in Nat
      /\ \A h \in 1..Len(s) : t[h] = s[h]
  BY ConcatIs
<1> HIDE DEF t
<1>2. i \in 1..(Len(t) + 1) /\ e \in (i - 1)..Len(t) BY <1>1
<1>3. a \in Seq(S) /\ Len(a) = e - i + 1 /\ \A k \in 1..(e - i + 1) : a[k] = t[i + k - 1]
  BY <1>1, <1>2, SubSeqIs
<1>4. b \in Seq(S) /\ Len(b) = e - i + 1 /\ \A k \in 1..(e - i + 1) : b[k] = s[i + k - 1]
  BY SubSeqIs
<1> HIDE DEF a, b
<1>5. ASSUME NEW k \in 1..(e - i + 1) PROVE a[k] = b[k]
  <2>1. i + k - 1 \in 1..Len(s) BY <1>1
  <2> QED BY <2>1, <1>1, <1>3, <1>4
<1>6. a = b BY <1>3, <1>4, <1>5, SeqEqual
<1> QED BY <1>6 DEF a, b, t

LEMMA SubSeqJoin ==
  ASSUME NEW S, NEW s \in Seq(S), NEW i \in 1..(Len(s) + 1), NEW e \in (i - 1)..Len(s),
         NEW m \in (i - 1)..e
  PROVE  /\ SubSeq(s, i, m) \in Seq(S) /\ SubSeq(s, m + 1, e) \in Seq(S)
         /\ SubSeq(s, i, e) = Then(SubSeq(s, i, m), SubSeq(s, m + 1, e))
<1> DEFINE a == SubSeq(s, i, m)
           o == m + 1
           b == SubSeq(s, o, e)
           c == SubSeq(s, i, e)
           k == m - i + 1
           l == e - o + 1
           d == Then(a, b)
<1>1. Len(s) \in Nat BY LenProperties
<1>2. /\ m \in (i - 1)..Len(s) /\ o \in 1..(Len(s) + 1) /\ e \in (o - 1)..Len(s)
      /\ k \in Nat /\ l \in Nat /\ e - i + 1 = k + l /\ o = i + k
  BY <1>1
<1>3. a \in Seq(S) /\ Len(a) = k /\ \A h \in 1..k : a[h] = s[i + h - 1] BY <1>2, SubSeqIs
<1> HIDE DEF o
<1>4. b \in Seq(S) /\ Len(b) = l /\ \A h \in 1..l : b[h] = s[o + h - 1] BY <1>2, SubSeqIs
<1>5. c \in Seq(S) /\ Len(c) = e - i + 1 /\ \A h \in 1..(e - i + 1) : c[h] = s[i + h - 1] BY SubSeqIs
<1> HIDE DEF a, b, c, d, k, l
<1>6. d \in Seq(S) /\ Len(d) = k + l
  <2>1. a \in Seq(S) /\ b \in Seq(S) BY <1>3, <1>4
  <2>2. d \in Seq(S) BY <2>1, ThenType DEF d
  <2>3. Len(d) = Len(a) + Len(b) BY <2>1, ThenLen DEF d
  <2> QED BY <1>3, <1>4, <2>2, <2>3
<1>7. ASSUME NEW h \in 1..(k + l) PROVE c[h] = d[h]
  <2>0. c[h] = s[i + h - 1] /\ a \in Seq(S) /\ b \in Seq(S) BY <1>2, <1>3, <1>4, <1>5
  <2>1. CASE h <= k
    <3>1. h \in 1..k /\ h \in 1..Len(a) BY <2>1, <1>2, <1>3
    <3>2. d[h] = a[h] BY <3>1, <2>0, ThenFirst DEF d
    <3>3. a[h] = s[i + h - 1] BY <3>1, <1>3
    <3> QED BY <3>2, <3>3, <2>0
  <2>2. CASE ~(h <= k)
    <3> DEFINE g == h - k
    <3>1. g \in 1..l /\ k + g = h /\ o + g - 1 = i + h - 1 BY <2>2, <1>2
    <3> HIDE DEF g
    <3>2. g \in 1..Len(b) /\ Len(a) + g = h BY <3>1, <1>3, <1>4
    <3>3. d[Len(a) + g] = b[g] BY <3>2, <2>0, ThenLast DEF d
    <3>4. b[g] = s[o + g - 1] BY <3>1, <1>4
    <3> QED BY <3>1, <3>2, <3>3, <3>4, <2>0
  <2> QED BY <2>1, <2>2
<1>8. c = d BY <1>2, <1>5, <1>6, <1>7, SeqEqual
<1> QED BY <1>3, <1>4, <1>8 DEF a, b, c, d, o

(***************************************************************************)
(* What is pushed back of bytes that are read apart or at once.            *)
(***************************************************************************)

(* Bytes that end where a line ends. *)
EndsLine(s) == s = <<>> \/ (Len(s) >= 2 /\ s[Len(s) - 1] = CR /\ s[Len(s)] = LF)

(* A CR LF, with what is before it and behind it. *)
LEMMA SubSeqLine ==
  ASSUME NEW S, CR \in S, LF \in S, NEW s \in Seq(S), NEW o \in 1..(Len(s) + 1),
         NEW m \in o..(Len(s) - 1), s[m] = CR, s[m + 1] = LF
  PROVE  /\ SubSeq(s, o, m - 1) \in Seq(S) /\ SubSeq(s, m + 2, Len(s)) \in Seq(S)
         /\ SubSeq(s, o, Len(s)) = Then(SubSeq(s, o, m - 1), Then(CRLF, SubSeq(s, m + 2, Len(s))))
<1> DEFINE n == Len(s)
           k == m - 1
           p == m + 1
           q == m + 2
<1>1. n \in Nat BY LenProperties
<1>2. /\ n \in (o - 1)..Len(s) /\ k \in (o - 1)..n /\ k + 1 = m
      /\ m \in 1..(Len(s) + 1) /\ n \in (m - 1)..Len(s) /\ p \in (m - 1)..n /\ p + 1 = q
  BY <1>1
<1>3. SubSeq(s, m, p) = CRLF
  <2>1. m \in 1..Len(s) /\ m < Len(s) BY <1>1
  <2>2. Finds(s, m) BY <2>1, FindsIs
  <2> QED BY <2>2 DEF Finds
<1> HIDE DEF n, k, p, q
<1>4. /\ SubSeq(s, o, k) \in Seq(S)
      /\ SubSeq(s, o, n) = Then(SubSeq(s, o, k), SubSeq(s, k + 1, n))
  BY <1>2, SubSeqJoin
<1>5. /\ SubSeq(s, p + 1, n) \in Seq(S)
      /\ SubSeq(s, m, n) = Then(SubSeq(s, m, p), SubSeq(s, p + 1, n))
  BY <1>2, SubSeqJoin
<1>6. /\ SubSeq(s, o, k) \in Seq(S) /\ SubSeq(s, q, n) \in Seq(S)
      /\ SubSeq(s, o, n) = Then(SubSeq(s, o, k), Then(CRLF, SubSeq(s, q, n)))
  BY <1>2, <1>3, <1>4, <1>5
<1> QED BY <1>6 DEF n, k, q

LEMMA PiecesNothing == Pieces(<<>>) = <<>>
<1> DEFINE n == Len(<<>>)
<1>1. <<>> \in Seq({CR}) /\ n = 0 BY EmptySeq
<1>2. Pieces(<<>>) = NotEmpty(SplitFrom(<<>>)[1]) BY <1>1, PiecesType
<1>3. Found(<<>>, 1) = {} BY <1>1 DEF Found
<1>4. NotEmpty(SplitFrom(<<>>)[1]) = NotEmpty(<<SubSeq(<<>>, 1, n)>>)
  <2>1. 1 \in 1..(n + 1) BY <1>1
  <2> QED BY <1>1, <1>3, <2>1, KeptStep
<1>5. SubSeq(<<>>, 1, n) = <<>> BY <1>1, SubSeqAll
<1>6. NotEmpty(<< <<>> >>) = <<>> BY <1>1, NotEmptyOne
<1> QED BY <1>2, <1>4, <1>5, <1>6

(* What comes after the end of a line does not change what comes before. *)
LEMMA PiecesThen ==
  ASSUME NEW S, NEW s \in Seq(S), NEW r \in Seq(S), EndsLine(s)
  PROVE  Pieces(Then(s, r)) = Then(Pieces(s), Pieces(r))
<1> DEFINE t == Then(s, r)
           n == Len(s)
           P == Pieces(r)
           kept(o) == NotEmpty(SplitFrom(s)[o])
           all(o) == NotEmpty(SplitFrom(t)[o])
           T == {o \in 1..(n + 1) : o # n => all(o) = Then(kept(o), P)}
<1>1. t \in Seq(S) /\ Len(t) = n + Len(r) /\ n \in Nat /\ Len(r) \in Nat
  BY ThenType, ThenLen
<1>2. P \in Seq(Seq(S)) /\ P = NotEmpty(SplitFrom(r)[1]) BY PiecesType
<1>3. n = 0 \/ (n >= 2 /\ s[n - 1] = CR /\ s[n] = LF) BY EmptySeq DEF EndsLine
<1>4. \A h \in 1..n : t[h] = s[h] BY ThenFirst
<1> HIDE DEF P, t
<1>5. n + 1 \in T
  <2>1. all(n + 1) = P
    <3>1. 1 \in 1..(Len(r) + 1) BY <1>1
    <3>2. SplitFrom(s \o r)[n + 1] = SplitFrom(r)[1] BY <3>1, SplitBehind
    <3> QED BY <3>2, <1>2 DEF t, Then
  <2>2. kept(n + 1) = <<>>
    <3> DEFINE o == n + 1
    <3>1. o \in 1..(Len(s) + 1) /\ o - 1 = n BY <1>1
    <3>2. Found(s, o) = {} BY <1>1 DEF Found
    <3> HIDE DEF o
    <3>3. NotEmpty(SplitFrom(s)[o]) = NotEmpty(<<SubSeq(s, o, n)>>) BY <3>1, <3>2, KeptStep
    <3>4. SubSeq(s, o, n) = <<>> BY <3>1, SubSeqNothing
    <3>5. NotEmpty(<< <<>> >>) = <<>>
      <4>1. <<>> \in Seq(S) BY EmptySeq
      <4> QED BY <4>1, NotEmptyOne
    <3> QED BY <3>3, <3>4, <3>5 DEF o
  <2>3. Then(<<>>, P) = P BY <1>2, ThenNothing
  <2>4. n + 1 \in 1..(n + 1) BY <1>1
  <2> HIDE DEF all, kept, n
  <2> QED BY <2>1, <2>2, <2>3, <2>4
<1>6. ASSUME NEW o \in 1..(n + 1), \A j \in (o + 1)..(n + 1) : j \in T PROVE o \in T
  <2>1. CASE o = n + 1
    <3> HIDE DEF T
    <3> QED BY <2>1, <1>5
  <2>2. CASE o = n BY <2>2
  <2>3. CASE o \in 1..(n - 1)
    <3>0. n >= 2 /\ s[n - 1] = CR /\ s[n] = LF /\ o \in 1..(Len(t) + 1) BY <2>3, <1>1, <1>3
    <3>1. n - 1 \in Found(s, o)
      <4> DEFINE h == n - 1
      <4>1. h \in 1..n /\ h < n /\ h + 1 = n /\ h \in o..n BY <2>3, <3>0, <1>1
      <4>2. s[h] = CR /\ s[h + 1] = LF BY <4>1, <3>0
      <4> HIDE DEF h
      <4>3. Finds(s, h) BY <4>1, <4>2, FindsIs
      <4>4. h \in Found(s, o) BY <4>1, <4>3 DEF Found
      <4> QED BY <4>4 DEF h
    <3> DEFINE m == Min(Found(s, o))
    <3>2. /\ m \in o..(n - 1) /\ m + 2 \in (o + 2)..(n + 1) /\ m <= n - 1
          /\ s[m] = CR /\ s[m + 1] = LF /\ \A i \in Found(s, o) : m <= i
      BY <3>1, FoundIs
    <3>3. kept(o) = Then(NotEmpty(<<SubSeq(s, o, m - 1)>>), kept(m + 2)) BY <3>1, KeptStep
    <3> HIDE DEF m
    <3>4. m \in Nat /\ m \in 1..n /\ m < n /\ m + 1 \in 1..n BY <3>2, <1>1
    <3>5. m + 2 # n
      <4>1. ASSUME m + 2 = n PROVE FALSE
        <5>1. m + 1 = n - 1 BY <4>1, <3>4, <1>1
        <5>2. s[m + 1] = CR BY <5>1, <3>0
        <5> QED BY <5>2, <3>2, BytesAssumption
      <4> QED BY <4>1
    <3>6. Min(Found(t, o)) = m
      <4>1. m \in Found(t, o)
        <5>1. m \in 1..Len(t) /\ m < Len(t) /\ m \in o..Len(t) BY <3>2, <3>4, <1>1
        <5>2. t[m] = CR /\ t[m + 1] = LF BY <3>2, <3>4, <1>4
        <5>3. Finds(t, m) BY <5>1, <5>2, <1>1, FindsIs
        <5> QED BY <5>1, <5>3 DEF Found
      <4>2. ASSUME NEW i \in Found(t, o) PROVE m <= i
        <5>1. i \in o..Len(t) /\ Finds(t, i) BY DEF Found
        <5>2. i \in 1..Len(t) /\ i \in Int BY <5>1, <1>1
        <5>3. t[i] = CR /\ t[i + 1] = LF BY <5>1, <5>2, <1>1, FindsIs
        <5>4. CASE i < n
          <6>1. i \in 1..n /\ i + 1 \in 1..n /\ i \in o..n BY <5>4, <5>1, <5>2, <1>1
          <6>2. s[i] = CR /\ s[i + 1] = LF BY <6>1, <5>3, <1>4
          <6>3. Finds(s, i) BY <6>1, <6>2, <5>4, FindsIs
          <6>4. i \in Found(s, o) BY <6>1, <6>3 DEF Found
          <6> QED BY <6>4, <3>2
        <5>5. CASE ~(i < n) BY <5>5, <5>2, <3>4, <1>1
        <5> QED BY <5>4, <5>5
      <4> QED BY <4>1, <4>2, <3>0, <1>1, FirstIs
    <3>7. Found(t, o) # {}
      <4>1. ASSUME Found(t, o) = {} PROVE FALSE
        <5>1. n - 1 \in o..Len(t) /\ n - 1 \in 1..Len(t) /\ n - 1 < Len(t) /\ n - 1 \in 1..n /\ n \in 1..n
              /\ n - 1 + 1 = n
          BY <2>3, <3>0, <1>1
        <5>2. t[n - 1] = CR /\ t[n - 1 + 1] = LF BY <5>1, <3>0, <1>4
        <5>3. Finds(t, n - 1) BY <5>1, <5>2, <1>1, FindsIs
        <5> QED BY <5>1, <5>3, <4>1 DEF Found
      <4> QED BY <4>1
    <3>8. all(o) = Then(NotEmpty(<<SubSeq(t, o, m - 1)>>), all(m + 2))
      BY <3>0, <3>6, <3>7, <1>1, KeptStep
    <3>9. SubSeq(t, o, m - 1) = SubSeq(s, o, m - 1) /\ SubSeq(s, o, m - 1) \in Seq(S)
      <4>1. o \in 1..(Len(s) + 1) /\ m - 1 \in (o - 1)..Len(s) BY <2>3, <3>2, <1>1
      <4> QED BY <4>1, SubSeqBefore, SubSeqIs DEF t, Then
    <3>10. all(m + 2) = Then(kept(m + 2), P)
      <4>1. m + 2 \in (o + 1)..(n + 1) BY <3>2, <1>1
      <4>2. m + 2 \in T BY <4>1, <1>6
      <4> QED BY <4>2, <3>5
    <3> DEFINE a == NotEmpty(<<SubSeq(s, o, m - 1)>>)
               b == kept(m + 2)
    <3>11. a \in Seq(Seq(S)) /\ b \in Seq(Seq(S))
      <4>1. m + 2 \in 1..(Len(s) + 1) BY <3>2, <1>1
      <4>2. b \in Seq(Seq(S)) BY <4>1, KeptStep
      <4>3. <<SubSeq(s, o, m - 1)>> \in Seq(Seq(S)) BY <3>9, SingleIs
      <4>4. a \in Seq(Seq(S)) BY <4>3, NotEmptyConcat
      <4> QED BY <4>2, <4>4
    <3>12. Then(Then(a, b), P) = Then(a, Then(b, P)) BY <3>11, <1>2, ThenThen
    <3>13. all(o) = Then(kept(o), P) BY <3>3, <3>8, <3>9, <3>10, <3>12
    <3> QED BY <3>13
  <2>4. o = n + 1 \/ o = n \/ o \in 1..(n - 1) BY <1>1
  <2> QED BY <2>1, <2>2, <2>3, <2>4
<1>7. 1..(n + 1) \subseteq T
  <2> HIDE DEF n, T
  <2> QED BY <1>1, <1>6, CountDown
<1>8. 1 \in 1..(n + 1) /\ 1 # n
  <2> HIDE DEF n
  <2>1. n \in Nat BY <1>1
  <2>2. n = 0 \/ n >= 2 BY <1>3
  <2> QED BY <2>1, <2>2
<1>9. all(1) = Then(kept(1), P) BY <1>7, <1>8
<1>10. Pieces(t) = all(1) /\ Pieces(s) = kept(1) BY <1>1, PiecesType
<1> QED BY <1>9, <1>10 DEF t, P

(* A line gives one message, and nothing but its end gives none. *)
LEMMA PiecesLine ==
  ASSUME NEW S, CR \in S, LF \in S, NEW text \in Seq(S),
         \A i \in 1..(Len(text) - 1) : ~(text[i] = CR /\ text[i + 1] = LF)
  PROVE  /\ Then(text, CRLF) \in Seq(S) /\ EndsLine(Then(text, CRLF))
         /\ Pieces(Then(text, CRLF)) = IF text = <<>> THEN <<>> ELSE <<text>>
<1> DEFINE t == Then(text, CRLF)
           k == Len(text)
           m == k + 1
           e == m + 2
<1>1. CRLF \in Seq(S) /\ Len(CRLF) = 2 /\ CRLF[1] = CR /\ CRLF[2] = LF BY DEF CRLF
<1>2. t \in Seq(S) /\ Len(t) = k + 2 /\ k \in Nat BY <1>1, ThenType, ThenLen
<1>3. \A h \in 1..k : t[h] = text[h] BY <1>1, ThenFirst
<1>4. t[k + 1] = CR /\ t[k + 2] = LF
  <2>1. 1 \in 1..Len(CRLF) /\ 2 \in 1..Len(CRLF) BY <1>1
  <2>2. t[k + 1] = CRLF[1] BY <1>1, <2>1, ThenLast
  <2>3. t[k + 2] = CRLF[2] BY <1>1, <2>1, ThenLast
  <2> QED BY <2>2, <2>3, <1>1
<1> HIDE DEF t, k
<1>5. EndsLine(t)
  <2>1. k + 2 >= 2 /\ k + 2 - 1 = k + 1 BY <1>2
  <2> QED BY <2>1, <1>2, <1>4 DEF EndsLine
<1>6. /\ m \in 1..Len(t) /\ m < Len(t) /\ m + 1 = k + 2 /\ m - 1 = k /\ e = Len(t) + 1
      /\ 1 \in 1..(Len(t) + 1) /\ e \in 1..(Len(t) + 1) /\ e - 1 = Len(t)
  BY <1>2
<1>7. m \in Found(t, 1)
  <2>1. t[m] = CR /\ t[m + 1] = LF BY <1>4, <1>6
  <2>2. Finds(t, m) BY <2>1, <1>2, <1>6, FindsIs
  <2> QED BY <2>2, <1>6 DEF Found
<1>8. ASSUME NEW i \in Found(t, 1) PROVE m <= i
  <2>1. i \in 1..Len(t) /\ i \in Int /\ Finds(t, i) BY <1>2 DEF Found
  <2>2. i < Len(t) /\ t[i] = CR /\ t[i + 1] = LF BY <2>1, <1>2, FindsIs
  <2>3. ASSUME i < m PROVE FALSE
    <3>1. i \in 1..k BY <2>1, <2>3, <1>2
    <3>2. CASE i = k
      <4>1. t[i + 1] = CR BY <3>2, <1>4
      <4> QED BY <4>1, <2>2, BytesAssumption
    <3>3. CASE i # k
      <4>1. i \in 1..(Len(text) - 1) /\ i + 1 \in 1..k BY <3>1, <3>3, <1>2 DEF k
      <4>2. text[i] = CR /\ text[i + 1] = LF BY <4>1, <3>1, <2>2, <1>3
      <4> QED BY <4>1, <4>2
    <3> QED BY <3>2, <3>3
  <2> QED BY <2>1, <2>3, <1>2
<1>9. Min(Found(t, 1)) = m BY <1>2, <1>6, <1>7, <1>8, FirstIs
<1>10. NotEmpty(SplitFrom(t)[1]) = Then(NotEmpty(<<SubSeq(t, 1, m - 1)>>), NotEmpty(SplitFrom(t)[m + 2]))
  <2>1. Found(t, 1) # {} BY <1>7
  <2> HIDE DEF m
  <2> QED BY <2>1, <1>2, <1>6, <1>9, KeptStep
<1>11. SubSeq(t, 1, m - 1) = text
  <2>1. 1 \in 1..(Len(text) + 1) /\ k \in (1 - 1)..Len(text) BY <1>2 DEF k
  <2>2. SubSeq(t, 1, k) = SubSeq(text, 1, k) BY <2>1, <1>1, SubSeqBefore DEF t, Then
  <2>3. SubSeq(text, 1, k) = text BY SubSeqAll DEF k
  <2> QED BY <2>2, <2>3, <1>6
<1>12. NotEmpty(SplitFrom(t)[e]) = <<>>
  <2>1. Found(t, e) = {} BY <1>2 DEF Found
  <2> HIDE DEF e
  <2>2. NotEmpty(SplitFrom(t)[e]) = NotEmpty(<<SubSeq(t, e, Len(t))>>) BY <2>1, <1>2, <1>6, KeptStep
  <2>3. SubSeq(t, e, Len(t)) = <<>> BY <1>2, <1>6, SubSeqNothing
  <2>4. <<>> \in Seq(S) BY EmptySeq
  <2>5. NotEmpty(<< <<>> >>) = <<>> BY <2>4, NotEmptyOne
  <2> QED BY <2>2, <2>3, <2>5
<1> DEFINE x == NotEmpty(<<text>>)
<1>13. x = (IF text = <<>> THEN <<>> ELSE <<text>>) /\ x \in Seq(Seq(S))
  <2>1. x = (IF text = <<>> THEN <<>> ELSE <<text>>) BY NotEmptyOne
  <2>2. <<text>> \in Seq(Seq(S)) /\ <<>> \in Seq(Seq(S)) BY SingleIs, EmptySeq
  <2> QED BY <2>1, <2>2
<1>14. NotEmpty(SplitFrom(t)[1]) = Then(x, <<>>) BY <1>10, <1>11, <1>12
<1>15. Then(x, <<>>) = x
  <2> HIDE DEF x
  <2> QED BY <1>13, ThenNothing
<1>16. Pieces(t) = x BY <1>2, <1>14, <1>15, PiecesType
<1> QED BY <1>2, <1>5, <1>13, <1>16 DEF t

(* One more line end gives nothing: the second one of PASS. *)
LEMMA PiecesWritten ==
  ASSUME NEW S, CR \in S, LF \in S, NEW text \in Seq(S), text # <<>>,
         \A i \in 1..(Len(text) - 1) : ~(text[i] = CR /\ text[i + 1] = LF),
         NEW tail \in {<<>>, CRLF}
  PROVE  /\ Then(Then(text, CRLF), tail) \in Seq(S)
         /\ EndsLine(Then(Then(text, CRLF), tail))
         /\ Pieces(Then(Then(text, CRLF), tail)) = <<text>>
<1> DEFINE l == Then(text, CRLF)
<1>1. l \in Seq(S) /\ EndsLine(l) /\ Pieces(l) = <<text>> BY PiecesLine
<1>2. CRLF \in Seq(S) /\ <<>> \in Seq(S) /\ tail \in Seq(S)
  <2>1. CRLF \in Seq(S) BY DEF CRLF
  <2>2. <<>> \in Seq(S) BY EmptySeq
  <2> QED BY <2>1, <2>2
<1>3. Pieces(CRLF) = <<>>
  <2>1. \A i \in 1..(Len(<<>>) - 1) : FALSE BY EmptySeq
  <2>2. Pieces(Then(<<>>, CRLF)) = <<>> BY <1>2, <2>1, PiecesLine
  <2>3. Then(<<>>, CRLF) = CRLF BY <1>2, ThenNothing
  <2> QED BY <2>2, <2>3
<1>4. Pieces(tail) = <<>> BY <1>3, PiecesNothing
<1> HIDE DEF l
<1>5. Pieces(Then(l, tail)) = Then(Pieces(l), Pieces(tail))
  <2>1. l \in Seq(S) /\ EndsLine(l) BY <1>1
  <2> QED BY <2>1, <1>2, PiecesThen
<1>6. <<text>> \in Seq(Seq(S)) BY SingleIs
<1>7. Pieces(Then(l, tail)) = <<text>>
  <2> DEFINE x == <<text>>
  <2>1. x \in Seq(Seq(S)) /\ Pieces(Then(l, tail)) = Then(x, <<>>) BY <1>1, <1>4, <1>5, <1>6
  <2> HIDE DEF x
  <2>2. Then(x, <<>>) = x BY <2>1, ThenNothing
  <2> QED BY <2>1, <2>2 DEF x
<1>8. Then(l, tail) \in Seq(S) BY <1>1, <1>2, ThenType
<1>9. EndsLine(Then(l, tail))
  <2>1. CASE tail = <<>> BY <2>1, <1>1, ThenNothing
  <2>2. CASE tail = CRLF
    <3>1. Len(CRLF) = 2 /\ CRLF[1] = CR /\ CRLF[2] = LF /\ 1 \in 1..Len(CRLF) /\ 2 \in 1..Len(CRLF)
      BY DEF CRLF
    <3>2. Len(Then(l, CRLF)) = Len(l) + 2 /\ Len(l) \in Nat BY <3>1, <1>1, <1>2, ThenLen
    <3>3. \A i \in 1..Len(CRLF) : Then(l, CRLF)[Len(l) + i] = CRLF[i] BY <1>1, <1>2, ThenLast
    <3>4. Then(l, CRLF)[Len(l) + 1] = CR /\ Then(l, CRLF)[Len(l) + 2] = LF BY <3>1, <3>3
    <3>5. Len(l) + 2 >= 2 /\ Len(l) + 2 - 1 = Len(l) + 1 BY <3>2
    <3> QED BY <2>2, <3>2, <3>4, <3>5 DEF EndsLine
  <2> QED BY <2>1, <2>2
<1> QED BY <1>7, <1>8, <1>9 DEF l

(***************************************************************************)
(* The text in bytes.                                                      *)
(***************************************************************************)

LEMMA TextThen ==
  ASSUME NEW S, NEW a \in Seq(S), NEW b \in Seq(S)
  PROVE  /\ TextOf(a) \in Seq(S) /\ TextOf(b) \in Seq(S)
         /\ TextOf(Then(a, b)) = Then(TextOf(a), TextOf(b))
<1> DEFINE K == [x \in S |-> IF x \in {CR, LF, Stray} THEN <<>> ELSE <<x>>]
<1>1. Turns(K, S, S)
  <2>1. ASSUME NEW x \in S PROVE (IF x \in {CR, LF, Stray} THEN <<>> ELSE <<x>>) \in Seq(S)
    BY SingleIs, EmptySeq
  <2> QED BY <2>1 DEF Turns
<1>2. ASSUME NEW c \in Seq(S)
      PROVE  TextOf(c) = Each(K, c)
  <2>1. \A i \in DOMAIN c : c[i] \in S BY LenProperties, ElementOfSeq
  <2>2. [i \in DOMAIN c |-> IF c[i] \in {CR, LF, Stray} THEN <<>> ELSE <<c[i]>>] = [i \in DOMAIN c |-> K[c[i]]]
    BY <2>1
  <2> QED BY <2>2 DEF TextOf, Each
<1>3. Then(a, b) \in Seq(S) BY ThenType
<1> HIDE DEF K
<1>4. /\ Each(K, a) \in Seq(S) /\ Each(K, b) \in Seq(S)
      /\ Each(K, Then(a, b)) = Then(Each(K, a), Each(K, b))
  BY <1>1, EachConcat
<1>5. TextOf(a) = Each(K, a) BY <1>2
<1>6. TextOf(b) = Each(K, b) BY <1>2
<1>7. TextOf(Then(a, b)) = Each(K, Then(a, b)) BY <1>2, <1>3
<1> QED BY <1>4, <1>5, <1>6, <1>7

LEMMA TextOne ==
  ASSUME NEW S, NEW x \in S, x \in {CR, LF, Stray}
  PROVE  TextOf(<<x>>) = <<>>
<1>1. [i \in DOMAIN <<x>> |-> IF <<x>>[i] \in {CR, LF, Stray} THEN <<>> ELSE << <<x>>[i] >>] = << <<>> >>
  OBVIOUS
<1>2. <<>> \in Seq(S) BY EmptySeq
<1>3. FlattenSeq(<< <<>> >>) = <<>> BY <1>2, FlattenOne
<1> QED BY <1>1, <1>3 DEF TextOf

LEMMA TextNothing == TextOf(CRLF) = <<>> /\ TextOf(<<>>) = <<>>
<1> DEFINE S == {CR, LF}
<1>1. <<CR>> \in Seq(S) /\ <<LF>> \in Seq(S) /\ CRLF = Then(<<CR>>, <<LF>>)
  <2>1. <<CR>> \in Seq(S) /\ <<LF>> \in Seq(S) BY SingleIs
  <2> DEFINE a == <<CR>>
             b == <<LF>>
             e == Then(a, b)
  <2>2. a \in Seq(S) /\ b \in Seq(S) /\ Len(a) = 1 /\ Len(b) = 1 /\ a[1] = CR /\ b[1] = LF BY SingleIs
  <2> HIDE DEF a, b
  <2>3. 1 \in 1..Len(a) /\ 1 \in 1..Len(b) BY <2>2
  <2>4. e[1] = CR BY <2>2, <2>3, ThenFirst
  <2>5. e[Len(a) + 1] = b[1] BY <2>2, <2>3, ThenLast
  <2>6. Len(e) = Len(a) + Len(b) /\ e \in Seq(S) BY <2>2, ThenLen, ThenType
  <2> HIDE DEF e
  <2>7. e \in Seq(S) /\ Len(e) = 2 /\ e[1] = CR /\ e[2] = LF BY <2>2, <2>4, <2>5, <2>6
  <2>8. e = <<e[1], e[2]>> BY <2>7
  <2>9. e = CRLF BY <2>7, <2>8 DEF CRLF
  <2> QED BY <2>1, <2>9 DEF a, b, e
<1>2. TextOf(<<CR>>) = <<>> /\ TextOf(<<LF>>) = <<>> BY TextOne
<1> DEFINE c == <<CR>>
           d == <<LF>>
<1> HIDE DEF c, d
<1>3. TextOf(Then(c, d)) = Then(TextOf(c), TextOf(d)) BY <1>1, TextThen DEF c, d
<1>4. <<>> \in Seq(S) BY EmptySeq
<1>5. Then(<<>>, <<>>) = <<>> BY <1>4, ThenNothing
<1>6. TextOf(CRLF) = <<>> BY <1>1, <1>2, <1>3, <1>5 DEF c, d
<1>7. [i \in DOMAIN <<>> |-> IF <<>>[i] \in {CR, LF, Stray} THEN <<>> ELSE << <<>>[i] >>] = <<>>
  OBVIOUS
<1>8. TextOf(<<>>) = <<>> BY <1>7, FlattenNothing DEF TextOf
<1> QED BY <1>6, <1>8

LEMMA FlattenThen ==
  ASSUME NEW S, NEW s \in Seq(Seq(S)), NEW t \in Seq(Seq(S))
  PROVE  /\ FlattenSeq(Then(s, t)) = Then(FlattenSeq(s), FlattenSeq(t))
         /\ FlattenSeq(s) \in Seq(S) /\ FlattenSeq(t) \in Seq(S)
BY FlattenConcat, FlattenType DEF Then

(* An empty part that is not kept had no text in it. *)
LEMMA KeptOne ==
  ASSUME NEW S, NEW p \in Seq(S)
  PROVE  NotEmpty(<<p>>) \in Seq(Seq(S)) /\ FlattenSeq(NotEmpty(<<p>>)) = p
<1>1. NotEmpty(<<p>>) = IF p = <<>> THEN <<>> ELSE <<p>> BY NotEmptyOne
<1>2. <<p>> \in Seq(Seq(S)) /\ <<>> \in Seq(Seq(S)) BY SingleIs, EmptySeq
<1>3. CASE p = <<>> BY <1>1, <1>2, <1>3, FlattenNothing
<1>4. CASE p # <<>> BY <1>1, <1>2, <1>4, FlattenOne
<1> QED BY <1>3, <1>4

(* split, and what is pushed back of its parts, lose no text. *)
LEMMA TextPieces ==
  ASSUME NEW S, CR \in S, LF \in S, NEW s \in Seq(S)
  PROVE  TextOf(FlattenSeq(Pieces(s))) = TextOf(s)
<1> DEFINE n == Len(s)
           text(o) == TextOf(FlattenSeq(NotEmpty(SplitFrom(s)[o])))
           T == {o \in 1..(n + 1) : text(o) = TextOf(SubSeq(s, o, n))}
<1>1. n \in Nat BY LenProperties
<1>2. ASSUME NEW o \in 1..(n + 1), \A j \in (o + 1)..(n + 1) : j \in T PROVE o \in T
  <2>1. SubSeq(s, o, n) \in Seq(S)
    <3>1. n \in (o - 1)..n BY <1>1
    <3> QED BY <3>1, SubSeqIs
  <2>2. CASE Found(s, o) = {}
    <3>1. NotEmpty(SplitFrom(s)[o]) = NotEmpty(<<SubSeq(s, o, n)>>) BY <2>2, KeptStep
    <3>2. FlattenSeq(NotEmpty(SplitFrom(s)[o])) = SubSeq(s, o, n) BY <3>1, <2>1, KeptOne
    <3> QED BY <3>2
  <2>3. CASE Found(s, o) # {}
    <3> DEFINE m == Min(Found(s, o))
               q == m + 2
               a == SubSeq(s, o, m - 1)
               b == SubSeq(s, q, n)
               x == NotEmpty(<<a>>)
               y == NotEmpty(SplitFrom(s)[q])
    <3>1. /\ m \in o..(n - 1) /\ q \in (o + 2)..(n + 1) /\ s[m] = CR /\ s[m + 1] = LF
      BY <2>3, FoundIs
    <3>2. NotEmpty(SplitFrom(s)[o]) = Then(x, y) BY <2>3, KeptStep
    <3> HIDE DEF m
    <3>3. SubSeq(s, o, n) = Then(a, Then(CRLF, b)) /\ a \in Seq(S) /\ b \in Seq(S)
      BY <3>1, <1>1, SubSeqLine
    <3>4. text(q) = TextOf(b)
      <4>1. q \in (o + 1)..(n + 1) BY <3>1, <1>1
      <4> HIDE DEF q
      <4> QED BY <4>1, <1>2
    <3>5. x \in Seq(Seq(S)) /\ FlattenSeq(x) = a BY <3>3, KeptOne
    <3>6. y \in Seq(Seq(S))
      <4>1. q \in 1..(Len(s) + 1) BY <3>1, <1>1
      <4> QED BY <4>1, KeptStep
    <3> HIDE DEF a, b, x, y
    <3>7. FlattenSeq(Then(x, y)) = Then(a, FlattenSeq(y)) /\ FlattenSeq(y) \in Seq(S)
      BY <3>5, <3>6, FlattenThen
    <3>8. TextOf(Then(a, FlattenSeq(y))) = Then(TextOf(a), TextOf(FlattenSeq(y)))
      BY <3>3, <3>7, TextThen
    <3>9. TextOf(FlattenSeq(y)) = TextOf(b) BY <3>4 DEF y
    <3>10. CRLF \in Seq(S) /\ Then(CRLF, b) \in Seq(S)
      <4>1. CRLF \in Seq(S) BY DEF CRLF
      <4> QED BY <4>1, <3>3, ThenType
    <3>11. TextOf(Then(CRLF, b)) = TextOf(b)
      <4>1. TextOf(Then(CRLF, b)) = Then(TextOf(CRLF), TextOf(b)) /\ TextOf(b) \in Seq(S)
        BY <3>3, <3>10, TextThen
      <4>2. Then(<<>>, TextOf(b)) = TextOf(b) BY <4>1, ThenNothing
      <4> QED BY <4>1, <4>2, TextNothing
    <3>12. TextOf(Then(a, Then(CRLF, b))) = Then(TextOf(a), TextOf(Then(CRLF, b)))
      BY <3>3, <3>10, TextThen
    <3>13. text(o) = TextOf(SubSeq(s, o, n))
      BY <3>2, <3>3, <3>7, <3>8, <3>9, <3>11, <3>12
    <3> QED BY <3>13
  <2> QED BY <2>2, <2>3
<1>3. 1..(n + 1) \subseteq T
  <2> HIDE DEF n, T
  <2> QED BY <1>1, <1>2, CountDown
<1>4. 1 \in 1..(n + 1) BY <1>1
<1>5. text(1) = TextOf(SubSeq(s, 1, n)) BY <1>3, <1>4
<1> QED BY <1>5, SubSeqAll, PiecesType

(***************************************************************************)
(* What split returns, as it was given.                                    *)
(***************************************************************************)

LEMMA JoinedThen ==
  ASSUME NEW S, CR \in S, LF \in S, NEW a \in Seq(Seq(S)), NEW b \in Seq(Seq(S))
  PROVE  /\ Joined(a) \in Seq(S) /\ Joined(b) \in Seq(S)
         /\ Joined(Then(a, b)) = Then(Joined(a), Joined(b))
<1> DEFINE K == [p \in Seq(S) |-> p \o CRLF]
<1>1. Turns(K, Seq(S), S)
  <2>1. CRLF \in Seq(S) BY DEF CRLF
  <2>2. ASSUME NEW p \in Seq(S) PROVE p \o CRLF \in Seq(S) BY <2>1, ConcatProperties
  <2> QED BY <2>2 DEF Turns
<1>2. ASSUME NEW c \in Seq(Seq(S))
      PROVE  Joined(c) = Each(K, c)
  <2>1. \A i \in DOMAIN c : c[i] \in Seq(S) BY LenProperties, ElementOfSeq
  <2>2. [i \in DOMAIN c |-> c[i] \o CRLF] = [i \in DOMAIN c |-> K[c[i]]] BY <2>1
  <2> QED BY <2>2 DEF Joined, Each
<1>3. Then(a, b) \in Seq(Seq(S)) BY ThenType
<1> DEFINE Q == Seq(S)
<1> HIDE DEF K, Q
<1>4. Turns(K, Q, S) /\ a \in Seq(Q) /\ b \in Seq(Q) BY <1>1 DEF Q
<1>5. /\ Each(K, a) \in Seq(S) /\ Each(K, b) \in Seq(S)
      /\ Each(K, Then(a, b)) = Then(Each(K, a), Each(K, b))
  BY <1>4, EachConcat
<1>6. Joined(a) = Each(K, a) BY <1>2
<1>7. Joined(b) = Each(K, b) BY <1>2
<1>8. Joined(Then(a, b)) = Each(K, Then(a, b)) BY <1>2, <1>3
<1> QED BY <1>5, <1>6, <1>7, <1>8

LEMMA JoinedOne ==
  ASSUME NEW S, CR \in S, LF \in S, NEW p \in Seq(S)
  PROVE  Joined(<<p>>) = Then(p, CRLF) /\ <<p>> \in Seq(Seq(S))
<1> DEFINE x == p \o CRLF
<1>1. x \in Seq(S)
  <2>1. CRLF \in Seq(S) BY DEF CRLF
  <2> QED BY <2>1, ConcatProperties
<1>2. [i \in DOMAIN <<p>> |-> <<p>>[i] \o CRLF] = <<x>>
  <2> HIDE DEF x
  <2>1. \A i \in DOMAIN <<p>> : <<p>>[i] = p OBVIOUS
  <2>2. [i \in DOMAIN <<p>> |-> <<p>>[i] \o CRLF] = [i \in DOMAIN <<p>> |-> x] BY <2>1 DEF x
  <2>3. [i \in DOMAIN <<p>> |-> x] = <<x>> OBVIOUS
  <2> QED BY <2>2, <2>3
<1> HIDE DEF x
<1>3. FlattenSeq(<<x>>) = x BY <1>1, FlattenOne
<1>4. <<p>> \in Seq(Seq(S)) BY SingleIs
<1>5. Joined(<<p>>) = x BY <1>2, <1>3 DEF Joined
<1> QED BY <1>4, <1>5 DEF x, Then

(* The parts from an offset on. *)
PartsFrom(s, o) ==
  /\ Joined(SplitFrom(s)[o]) = Then(SubSeq(s, o, Len(s)), CRLF)
  /\ \A part \in ToSet(SplitFrom(s)[o]) : \A i \in DOMAIN part : ~Finds(part, i)

(* There is no CR LF in what comes before the first. *)
LEMMA NoneBefore ==
  ASSUME NEW S, NEW s \in Seq(S), NEW o \in 1..(Len(s) + 1), NEW e \in (o - 1)..Len(s),
         \A i \in Found(s, o) : e < i,
         NEW i \in DOMAIN SubSeq(s, o, e)
  PROVE  ~Finds(SubSeq(s, o, e), i)
<1> DEFINE p == SubSeq(s, o, e)
<1>1. Len(s) \in Nat BY LenProperties
<1>2. p \in Seq(S) /\ Len(p) = e - o + 1 /\ \A k \in 1..(e - o + 1) : p[k] = s[o + k - 1]
  BY SubSeqIs
<1> HIDE DEF p
<1>3. DOMAIN p = 1..Len(p) BY <1>2, LenProperties
<1>4. i \in 1..Len(p) BY <1>3 DEF p
<1>5. ASSUME Finds(p, i) PROVE FALSE
  <2> DEFINE k == o + i - 1
  <2>1. i < Len(p) /\ p[i] = CR /\ p[i + 1] = LF BY <1>2, <1>4, <1>5, FindsIs
  <2>2. i \in 1..(e - o + 1) /\ i + 1 \in 1..(e - o + 1) /\ i < e - o + 1
    BY <1>2, <1>4, <2>1, <1>1, SMTT(20)
  <2>3. s[o + i - 1] = CR /\ s[o + (i + 1) - 1] = LF BY <2>1, <2>2, <1>2
  <2>4. /\ k \in 1..Len(s) /\ k < Len(s) /\ k \in o..Len(s) /\ k + 1 = o + (i + 1) - 1 /\ k < e
    BY <2>2, <1>1
  <2>5. s[k] = CR /\ s[k + 1] = LF BY <2>3, <2>4
  <2> HIDE DEF k
  <2>6. Finds(s, k) BY <2>4, <2>5, FindsIs
  <2>7. k \in Found(s, o) BY <2>4, <2>6 DEF Found
  <2> QED BY <2>4, <2>7
<1> QED BY <1>5 DEF p

LEMMA ToSetThen ==
  ASSUME NEW S, NEW x \in S, NEW r \in Seq(S)
  PROVE  ToSet(Then(<<x>>, r)) = {x} \cup ToSet(r)
<1> DEFINE a == <<x>>
<1>1. a \in Seq(S) BY SingleIs
<1>2. ToSet(a) = {x} BY DEF ToSet
<1> HIDE DEF a
<1>3. ToSet(a \o r) = ToSet(a) \cup ToSet(r) BY <1>1, ConcatIs
<1> QED BY <1>2, <1>3 DEF a, Then

LEMMA SplitParts ==
  ASSUME NEW S, CR \in S, LF \in S, NEW s \in Seq(S)
  PROVE  PartsFrom(s, 1)
<1> DEFINE n == Len(s)
           T == {o \in 1..(n + 1) : PartsFrom(s, o)}
<1>1. n \in Nat BY LenProperties
<1>2. ASSUME NEW o \in 1..(n + 1), \A j \in (o + 1)..(n + 1) : j \in T PROVE o \in T
  <2>1. n \in (o - 1)..n BY <1>1
  <2>2. SubSeq(s, o, n) \in Seq(S) BY <2>1, SubSeqIs
  <2>3. CASE Found(s, o) = {}
    <3> DEFINE p == SubSeq(s, o, n)
    <3>1. SplitFrom(s)[o] = <<p>> BY <2>3, SplitStep
    <3>2. Joined(<<p>>) = Then(p, CRLF) BY <2>2, JoinedOne
    <3>3. \A i \in DOMAIN p : ~Finds(p, i) BY <2>1, <2>3, NoneBefore
    <3> HIDE DEF p
    <3>4. ToSet(<<p>>) = {p} BY DEF ToSet
    <3>5. PartsFrom(s, o) BY <3>1, <3>2, <3>3, <3>4 DEF PartsFrom, p
    <3> QED BY <3>5
  <2>4. CASE Found(s, o) # {}
    <3> DEFINE m == Min(Found(s, o))
               q == m + 2
               k == m - 1
               a == SubSeq(s, o, k)
               b == SubSeq(s, q, n)
               y == SplitFrom(s)[q]
    <3>1. /\ m \in o..(n - 1) /\ q \in (o + 2)..(n + 1) /\ s[m] = CR /\ s[m + 1] = LF
          /\ \A i \in Found(s, o) : m <= i
      BY <2>4, FoundIs
    <3>2. SplitFrom(s)[o] = Then(<<a>>, y) BY <2>4, SplitStep
    <3> HIDE DEF m
    <3>3. SubSeq(s, o, n) = Then(a, Then(CRLF, b)) /\ a \in Seq(S) /\ b \in Seq(S)
      BY <3>1, <1>1, SubSeqLine
    <3>4. PartsFrom(s, q) /\ y \in Seq(Seq(S))
      <4>1. q \in (o + 1)..(n + 1) /\ q \in 1..(Len(s) + 1) BY <3>1, <1>1
      <4> HIDE DEF q
      <4> QED BY <4>1, <1>2, SplitType
    <3>5. \A i \in DOMAIN a : ~Finds(a, i)
      <4>1. k \in (o - 1)..n /\ \A i \in Found(s, o) : k < i
        <5>1. k \in (o - 1)..n /\ k < m /\ k \in Int /\ m \in Int BY <3>1, <1>1
        <5>2. \A i \in Found(s, o) : i \in Int BY <1>1 DEF Found
        <5> QED BY <5>1, <5>2, <3>1
      <4> HIDE DEF k
      <4> QED BY <4>1, NoneBefore
    <3>6. Joined(y) = Then(b, CRLF) /\ \A part \in ToSet(y) : \A i \in DOMAIN part : ~Finds(part, i)
      BY <3>4 DEF PartsFrom
    <3> HIDE DEF a, b, y
    <3>7. <<a>> \in Seq(Seq(S)) /\ Joined(<<a>>) = Then(a, CRLF) BY <3>3, JoinedOne
    <3>8. Joined(Then(<<a>>, y)) = Then(Then(a, CRLF), Then(b, CRLF))
      <4> DEFINE c == <<a>>
      <4>1. c \in Seq(Seq(S)) /\ Joined(c) = Then(a, CRLF) BY <3>7
      <4> HIDE DEF c
      <4>2. Joined(Then(c, y)) = Then(Joined(c), Joined(y)) BY <4>1, <3>4, JoinedThen
      <4>3. Joined(Then(c, y)) = Then(Then(a, CRLF), Then(b, CRLF)) BY <4>1, <4>2, <3>6
      <4> QED BY <4>3 DEF c
    <3>9. Then(Then(a, Then(CRLF, b)), CRLF) = Then(Then(a, CRLF), Then(b, CRLF))
      <4>1. CRLF \in Seq(S) BY DEF CRLF
      <4>2. Then(CRLF, b) \in Seq(S) /\ Then(b, CRLF) \in Seq(S) BY <4>1, <3>3, ThenType
      <4>3. Then(Then(a, Then(CRLF, b)), CRLF) = Then(a, Then(Then(CRLF, b), CRLF))
        BY <4>1, <4>2, <3>3, ThenThen
      <4>4. Then(Then(CRLF, b), CRLF) = Then(CRLF, Then(b, CRLF)) BY <4>1, <3>3, ThenThen
      <4>5. Then(Then(a, CRLF), Then(b, CRLF)) = Then(a, Then(CRLF, Then(b, CRLF)))
        BY <4>1, <4>2, <3>3, ThenThen
      <4> QED BY <4>3, <4>4, <4>5
    <3>10. ToSet(Then(<<a>>, y)) = {a} \cup ToSet(y) BY <3>3, <3>4, ToSetThen
    <3>11. Joined(SplitFrom(s)[o]) = Then(SubSeq(s, o, n), CRLF) BY <3>2, <3>3, <3>8, <3>9
    <3>12. \A part \in ToSet(SplitFrom(s)[o]) : \A i \in DOMAIN part : ~Finds(part, i)
      BY <3>2, <3>5, <3>6, <3>10
    <3>13. PartsFrom(s, o) BY <3>11, <3>12 DEF PartsFrom
    <3> QED BY <3>13
  <2> QED BY <2>3, <2>4
<1>3. 1..(n + 1) \subseteq T
  <2> HIDE DEF n, T
  <2> QED BY <1>1, <1>2, CountDown
<1>4. 1 \in 1..(n + 1) BY <1>1
<1> QED BY <1>3, <1>4

(***************************************************************************)
(* Where writes have ended.                                                *)
(***************************************************************************)

(* At a place where a write has ended a line has ended, and between two of   *)
(* them there is a message.                                                  *)
Marks(all, at) ==
  /\ Len(all) \in at
  /\ \A e \in at : e \in 0..Len(all) /\ (e = 0 \/ (e >= 2 /\ all[e - 1] = CR /\ all[e] = LF))
  /\ \A e \in at, f \in at : e < f => Pieces(SubSeq(all, e + 1, f)) # <<>>

LEMMA MarksBetween ==
  ASSUME NEW S, NEW all \in Seq(S), NEW at, Marks(all, at), NEW e \in at, NEW f \in at, e < f
  PROVE  /\ SubSeq(all, e + 1, f) \in Seq(S) /\ EndsLine(SubSeq(all, e + 1, f))
         /\ e + 1 \in 1..(Len(all) + 1) /\ f \in e..Len(all) /\ e \in Nat /\ f \in Nat
<1> DEFINE b == SubSeq(all, e + 1, f)
           l == f - (e + 1) + 1
<1>0. Len(all) \in Nat BY LenProperties
<1>1. /\ e \in 0..Len(all) /\ (e = 0 \/ (e >= 2 /\ all[e - 1] = CR /\ all[e] = LF))
      /\ f \in 0..Len(all) /\ (f = 0 \/ (f >= 2 /\ all[f - 1] = CR /\ all[f] = LF))
  BY DEF Marks
<1>2. e + 1 \in 1..(Len(all) + 1) /\ f \in e..Len(all) /\ f \in (e + 1 - 1)..Len(all) /\ e \in Nat /\ f \in Nat
  BY <1>0, <1>1
<1>3. f >= 2 /\ all[f - 1] = CR /\ all[f] = LF BY <1>1, <1>2
<1>4. f # e + 1
  <2>1. ASSUME f = e + 1 PROVE FALSE
    <3>1. e # 0 /\ f - 1 = e BY <2>1, <1>2, <1>3
    <3>2. all[e] = LF /\ all[e] = CR BY <3>1, <1>1, <1>3
    <3> QED BY <3>2, BytesAssumption
  <2> QED BY <2>1
<1> DEFINE o == e + 1
<1>5. o \in 1..(Len(all) + 1) /\ f \in (o - 1)..Len(all) BY <1>2
<1> HIDE DEF o
<1>6. /\ SubSeq(all, o, f) \in Seq(S) /\ Len(SubSeq(all, o, f)) = f - o + 1
      /\ \A k \in 1..(f - o + 1) : SubSeq(all, o, f)[k] = all[o + k - 1]
  BY <1>5, SubSeqIs
<1>7. b \in Seq(S) /\ Len(b) = l /\ \A k \in 1..l : b[k] = all[e + 1 + k - 1] BY <1>6 DEF o
<1>8. /\ l \in Nat /\ l >= 2 /\ l \in 1..l /\ l - 1 \in 1..l
      /\ e + 1 + (l - 1) - 1 = f - 1 /\ e + 1 + l - 1 = f
  BY <1>2, <1>4
<1> HIDE DEF b, l
<1>9. b[l - 1] = CR /\ b[l] = LF
  <2>1. b[l - 1] = all[e + 1 + (l - 1) - 1] BY <1>7, <1>8
  <2>2. b[l] = all[e + 1 + l - 1] BY <1>7, <1>8
  <2> QED BY <2>1, <2>2, <1>3, <1>8
<1>10. EndsLine(b) BY <1>7, <1>8, <1>9 DEF EndsLine
<1> QED BY <1>2, <1>7, <1>10 DEF b

(* Everything behind such a place ends where a line ends. *)
LEMMA MarksRest ==
  ASSUME NEW S, NEW all \in Seq(S), NEW at, Marks(all, at), NEW e \in at
  PROVE  /\ e \in 0..Len(all) /\ Len(all) \in Nat
         /\ SubSeq(all, e + 1, Len(all)) \in Seq(S)
         /\ EndsLine(SubSeq(all, e + 1, Len(all)))
<1>1. Len(all) \in Nat /\ Len(all) \in at /\ e \in 0..Len(all) BY LenProperties DEF Marks
<1>2. CASE e < Len(all) BY <1>1, <1>2, MarksBetween
<1>3. CASE ~(e < Len(all))
  <2> DEFINE o == e + 1
  <2>1. o \in 1..(Len(all) + 1) /\ o - 1 = Len(all) BY <1>1, <1>3
  <2> HIDE DEF o
  <2>2. SubSeq(all, o, Len(all)) = <<>> BY <2>1, SubSeqNothing
  <2>3. <<>> \in Seq(S) BY EmptySeq
  <2> QED BY <1>1, <2>2, <2>3 DEF o, EndsLine
<1> QED BY <1>2, <1>3

(* One more write. *)
LEMMA MarksMore ==
  ASSUME NEW S, NEW all \in Seq(S), NEW at, Marks(all, at),
         NEW w \in Seq(S), EndsLine(w), Pieces(w) # <<>>
  PROVE  Marks(Then(all, w), at \cup {Len(Then(all, w))})
<1> DEFINE t == Then(all, w)
           l == Len(all)
           n == Len(t)
           more == at \cup {n}
<1>1. t \in Seq(S) /\ n = l + Len(w) /\ l \in Nat /\ Len(w) \in Nat BY ThenType, ThenLen
<1>2. w # <<>> BY PiecesNothing
<1>3. Len(w) >= 2 /\ w[Len(w) - 1] = CR /\ w[Len(w)] = LF BY <1>2 DEF EndsLine
<1>4. /\ n \in Nat /\ n >= 2 /\ l < n
      /\ Len(w) - 1 \in 1..Len(w) /\ Len(w) \in 1..Len(w) /\ l + (Len(w) - 1) = n - 1
  BY <1>1, <1>3
<1>5. \A h \in 1..Len(w) : t[l + h] = w[h] BY ThenLast
<1>6. \A h \in 1..l : t[h] = all[h] BY ThenFirst
<1> HIDE DEF t, n, l
<1>7. t[n - 1] = CR /\ t[n] = LF
  <2>1. t[l + (Len(w) - 1)] = w[Len(w) - 1] /\ t[l + Len(w)] = w[Len(w)] BY <1>4, <1>5
  <2> QED BY <2>1, <1>1, <1>3, <1>4
<1>8. ASSUME NEW e \in at
      PROVE  e \in 0..l /\ e \in 0..n /\ (e = 0 \/ (e >= 2 /\ t[e - 1] = CR /\ t[e] = LF))
  <2>1. e \in 0..l /\ (e = 0 \/ (e >= 2 /\ all[e - 1] = CR /\ all[e] = LF)) BY DEF Marks, l
  <2>2. e >= 2 => e - 1 \in 1..l /\ e \in 1..l BY <2>1, <1>1
  <2>3. e \in 0..n BY <2>1, <1>1
  <2>4. e >= 2 => t[e - 1] = all[e - 1] /\ t[e] = all[e] BY <2>2, <1>6
  <2> QED BY <2>1, <2>3, <2>4
<1>9. ASSUME NEW e \in more
      PROVE  e \in 0..n /\ (e = 0 \/ (e >= 2 /\ t[e - 1] = CR /\ t[e] = LF))
  <2>1. CASE e \in at BY <2>1, <1>8
  <2>2. CASE e = n BY <2>2, <1>4, <1>7
  <2> QED BY <2>1, <2>2
<1>10. ASSUME NEW e \in more, NEW f \in more, e < f
       PROVE  Pieces(SubSeq(t, e + 1, f)) # <<>>
  <2>1. e \in at /\ e \in 0..l
    <3>1. e # n BY <1>9, <1>10, <1>1
    <3> QED BY <3>1, <1>8
  <2>2. CASE f \in at
    <3>1. /\ Pieces(SubSeq(all, e + 1, f)) # <<>>
      BY <2>1, <2>2, <1>10 DEF Marks
    <3>2. e + 1 \in 1..(Len(all) + 1) /\ f \in e..Len(all) /\ e \in Nat BY <2>1, <2>2, <1>10, MarksBetween
    <3> DEFINE o == e + 1
    <3>3. o \in 1..(Len(all) + 1) /\ f \in (o - 1)..Len(all) BY <3>2
    <3> HIDE DEF o
    <3>4. SubSeq(t, o, f) = SubSeq(all, o, f) BY <3>3, SubSeqBefore DEF t, Then
    <3> QED BY <3>1, <3>4 DEF o
  <2>3. CASE f = n
    <3> DEFINE a == SubSeq(all, e + 1, l)
    <3>1. a \in Seq(S) /\ EndsLine(a) BY <2>1, MarksRest DEF l
    <3>2. SubSeq(t, e + 1, n) = Then(a, w)
      <4> DEFINE o == e + 1
                 p == l + 1
      <4>1. /\ o \in 1..(Len(t) + 1) /\ n \in (o - 1)..Len(t) /\ l \in (o - 1)..n
            /\ o \in 1..(Len(all) + 1) /\ l \in (o - 1)..Len(all)
        BY <2>1, <1>1, <1>4 DEF n, l
      <4> HIDE DEF o
      <4>2. SubSeq(t, o, n) = Then(SubSeq(t, o, l), SubSeq(t, l + 1, n))
        BY <4>1, <1>1, SubSeqJoin, SMTT(20)
      <4>3. SubSeq(t, o, l) = SubSeq(all, o, l) BY <4>1, SubSeqBefore DEF t, Then
      <4>4. SubSeq(t, l + 1, n) = w
        <5>1. 1 \in 1..(Len(w) + 1) /\ Len(w) \in (1 - 1)..Len(w) BY <1>1
        <5>2. SubSeq(t, Len(all) + 1, Len(all) + Len(w)) = SubSeq(w, 1, Len(w))
          BY <5>1, SubSeqBehind DEF t, Then
        <5>3. SubSeq(w, 1, Len(w)) = w BY SubSeqAll
        <5> QED BY <5>2, <5>3, <1>1 DEF l
      <4> QED BY <4>2, <4>3, <4>4 DEF o
    <3> HIDE DEF a
    <3>3. Pieces(Then(a, w)) = Then(Pieces(a), Pieces(w)) BY <3>1, PiecesThen
    <3>4. Then(Pieces(a), Pieces(w)) # <<>>
      <4> DEFINE x == Pieces(a)
                 y == Pieces(w)
      <4>1. x \in Seq(Seq(S)) /\ y \in Seq(Seq(S)) BY <3>1, PiecesType
      <4> HIDE DEF x, y
      <4>2. Len(Then(x, y)) = Len(x) + Len(y) /\ Len(x) \in Nat /\ Len(y) \in Nat BY <4>1, ThenLen
      <4>3. Len(y) # 0
        <5>1. y # <<>> BY DEF y
        <5> QED BY <5>1, <4>1, EmptySeq
      <4>4. Len(Then(x, y)) # 0 BY <4>2, <4>3
      <4> QED BY <4>4, EmptySeq DEF x, y
    <3> QED BY <2>3, <3>2, <3>3, <3>4
  <2> QED BY <2>2, <2>3
<1>11. n \in more OBVIOUS
<1> HIDE DEF more
<1>12. Marks(t, more) BY <1>9, <1>10, <1>11 DEF Marks, n
<1> QED BY <1>12 DEF t, n, more

(***************************************************************************)
(* The inductive invariant.                                                *)
(***************************************************************************)

(* Nobody writes a NUL. *)
Byte == Bytes \ {NUL}

All == Then(Then(consumed, arrived), wire)

Types ==
  /\ consumed \in Seq(Byte) /\ arrived \in Seq(Byte) /\ wire \in Seq(Byte) /\ chunk \in Seq(Byte)
  /\ msgs \in Seq(Seq(Byte)) /\ taken \in Seq(Seq(Byte)) /\ sent \in Seq(Seq(Byte))

WritesEnd == Marks(All, ends)

(* What has been received and what is still under way is what was sent. *)
Exact == ~cut => /\ Len(consumed) \in ends
                 /\ Then(Received, Pieces(Then(arrived, wire))) = sent

SInv == Types /\ WritesEnd /\ Exact /\ TextIsKept /\ UndefinedOnlyAtEndOrCut

LEMMA ByteIs == CR \in Byte /\ LF \in Byte /\ Stray \in Byte /\ NUL \notin Byte
BY BytesAssumption DEF Byte, Bytes

LEMMA AllType ==
  ASSUME Types
  PROVE  /\ Then(consumed, arrived) \in Seq(Byte) /\ All \in Seq(Byte)
         /\ Then(arrived, wire) \in Seq(Byte)
         /\ All = Then(consumed, Then(arrived, wire))
         /\ Received \in Seq(Seq(Byte)) /\ Received = Then(taken, msgs)
BY ThenType, ThenThen DEF Types, All, Received, Then

(* After a read that has not cut, what is still to be read is the end of     *)
(* what has been written.                                                    *)
LEMMA RestIs ==
  ASSUME Types, WritesEnd, Len(consumed) \in ends
  PROVE  EndsLine(Then(arrived, wire))
<1> DEFINE r == Then(arrived, wire)
           c == Len(consumed)
<1>1. All \in Seq(Byte) /\ r \in Seq(Byte) /\ All = Then(consumed, r) BY AllType
<1>2. consumed \in Seq(Byte) BY DEF Types
<1> HIDE DEF r
<1>3. Len(All) = c + Len(r) /\ Len(r) \in Nat /\ c \in Nat BY <1>1, <1>2, ThenLen
<1>4. EndsLine(SubSeq(All, c + 1, Len(All))) BY <1>1, MarksRest DEF WritesEnd
<1>5. SubSeq(All, c + 1, c + Len(r)) = r
  <2>1. 1 \in 1..(Len(r) + 1) /\ Len(r) \in (1 - 1)..Len(r) BY <1>3
  <2>2. SubSeq(Then(consumed, r), c + 1, c + Len(r)) = SubSeq(r, 1, Len(r))
    BY <2>1, <1>1, <1>2, SubSeqBehind DEF Then
  <2> QED BY <2>2, <1>1, SubSeqAll
<1> QED BY <1>3, <1>4, <1>5 DEF r

LEMMA InitInv == Init => SInv
<1> SUFFICES ASSUME Init PROVE SInv
  OBVIOUS
<1>1. /\ sent = <<>> /\ ends = {0} /\ wire = <<>> /\ arrived = <<>> /\ msgs = <<>> /\ taken = <<>>
      /\ consumed = <<>> /\ chunk = <<>> /\ state = "reading"
  BY DEF Init
<1>2. <<>> \in Seq(Byte) /\ <<>> \in Seq(Seq(Byte)) /\ Len(<<>>) = 0 BY EmptySeq
<1>3. Then(<<>>, <<>>) = <<>> BY <1>2, ThenNothing
<1>4. Types BY <1>1, <1>2 DEF Types
<1>5. All = <<>> BY <1>1, <1>3 DEF All
<1>6. WritesEnd
  <2>1. Marks(<<>>, {0}) BY <1>2 DEF Marks
  <2> QED BY <2>1, <1>1, <1>5 DEF WritesEnd
<1>7. Received = <<>> BY <1>1, <1>3 DEF Received, Then
<1>8. Exact BY <1>1, <1>2, <1>3, <1>7, PiecesNothing DEF Exact
<1>9. TextIsKept BY <1>1, <1>7, FlattenNothing, TextNothing DEF TextIsKept
<1>10. UndefinedOnlyAtEndOrCut BY <1>1 DEF UndefinedOnlyAtEndOrCut
<1> QED BY <1>4, <1>6, <1>8, <1>9, <1>10 DEF SInv

LEMMA TryWritingInv ==
  ASSUME SInv, NEW text \in Texts, NEW tail \in {<<>>, CRLF}, TryWriting(text, tail)
  PROVE  SInv'
<1> DEFINE w == Then(Then(text, CRLF), tail)
           r == Then(arrived, wire)
<1>1. /\ consumed \in Seq(Byte) /\ arrived \in Seq(Byte) /\ wire \in Seq(Byte) /\ sent \in Seq(Seq(Byte))
      /\ Types
  BY DEF SInv, Types
<1>2. /\ text \in Seq(Byte) /\ text # <<>>
      /\ \A i \in 1..(Len(text) - 1) : ~(text[i] = CR /\ text[i + 1] = LF)
  BY TextsAssumption DEF Byte
<1>3. w \in Seq(Byte) /\ EndsLine(w) /\ Pieces(w) = <<text>> BY <1>2, ByteIs, PiecesWritten
<1>4. CRLF \in Seq(Byte) /\ tail \in Seq(Byte)
  <2>1. CRLF \in Seq(Byte) BY ByteIs DEF CRLF
  <2>2. <<>> \in Seq(Byte) BY EmptySeq
  <2> QED BY <2>1, <2>2
<1>5. wire' = Then(wire, w)
  <2>1. wire' = Then(Then(Then(wire, text), CRLF), tail) BY DEF TryWriting, Then
  <2>2. Then(text, CRLF) \in Seq(Byte) /\ Then(wire, text) \in Seq(Byte) BY <1>1, <1>2, <1>4, ThenType
  <2>3. Then(Then(wire, text), CRLF) = Then(wire, Then(text, CRLF)) BY <1>1, <1>2, <1>4, ThenThen
  <2>4. Then(Then(wire, Then(text, CRLF)), tail) = Then(wire, w) BY <1>1, <1>4, <2>2, ThenThen
  <2> QED BY <2>1, <2>3, <2>4
<1> HIDE DEF w
<1>6. /\ consumed' = consumed /\ arrived' = arrived /\ chunk' = chunk /\ msgs' = msgs /\ taken' = taken
      /\ cut' = cut /\ eof' = eof /\ state' = state /\ sent' = Append(sent, text)
      /\ ends' = ends \cup {Len(consumed \o arrived \o wire')}
  BY DEF TryWriting
<1>7. Types'
  <2>1. wire' \in Seq(Byte) BY <1>1, <1>3, <1>5, ThenType
  <2>2. sent' \in Seq(Seq(Byte)) BY <1>1, <1>2, <1>6, AppendProperties
  <2> QED BY <1>1, <1>6, <2>1, <2>2 DEF Types
<1>8. All \in Seq(Byte) /\ All' = Then(All, w)
  <2>1. Then(consumed, arrived) \in Seq(Byte) /\ All \in Seq(Byte) BY <1>1, AllType
  <2>2. Then(Then(consumed, arrived), Then(wire, w)) = Then(Then(Then(consumed, arrived), wire), w)
    BY <2>1, <1>1, <1>3, ThenThen
  <2> QED BY <2>1, <2>2, <1>5, <1>6 DEF All
<1>9. WritesEnd'
  <2>1. ends' = ends \cup {Len(All')} BY <1>6 DEF All, Then
  <2>2. Pieces(w) # <<>>
    <3>1. <<text>> # <<>> BY SingleIs
    <3> QED BY <3>1, <1>3
  <2>3. Marks(All, ends) BY DEF SInv, WritesEnd
  <2>4. Marks(Then(All, w), ends \cup {Len(Then(All, w))}) BY <1>3, <1>8, <2>2, <2>3, MarksMore
  <2> QED BY <2>1, <2>4, <1>8 DEF WritesEnd
<1>10. Exact'
  <2> SUFFICES ASSUME ~cut PROVE /\ Len(consumed) \in ends
                                 /\ Then(Received, Pieces(Then(arrived, wire'))) = sent'
    <3>1. Received' = Received BY <1>6 DEF Received
    <3>2. Len(consumed) \in ends => Len(consumed) \in ends' BY <1>6
    <3> QED BY <3>1, <3>2, <1>6 DEF Exact
  <2>1. Len(consumed) \in ends /\ Then(Received, Pieces(r)) = sent BY DEF SInv, Exact
  <2>2. r \in Seq(Byte) /\ EndsLine(r) /\ Received \in Seq(Seq(Byte))
    BY <1>1, <2>1, RestIs, AllType DEF SInv
  <2>3. Then(arrived, wire') = Then(r, w) BY <1>1, <1>3, <1>5, ThenThen
  <2> HIDE DEF r
  <2>4. Pieces(Then(r, w)) = Then(Pieces(r), Pieces(w)) BY <2>2, <1>3, PiecesThen
  <2>5. Pieces(r) \in Seq(Seq(Byte)) /\ Pieces(w) \in Seq(Seq(Byte)) BY <2>2, <1>3, PiecesType
  <2>6. Then(Received, Then(Pieces(r), Pieces(w))) = Then(sent, Pieces(w))
    <3>1. Then(Then(Received, Pieces(r)), Pieces(w)) = Then(Received, Then(Pieces(r), Pieces(w)))
      BY <2>2, <2>5, ThenThen
    <3> QED BY <3>1, <2>1
  <2>7. Then(sent, <<text>>) = Append(sent, text) BY <1>1, <1>2, AppendIsConcat DEF Then
  <2>8. Then(sent, Pieces(w)) = sent' BY <2>7, <1>3, <1>6
  <2> QED BY <2>1, <2>3, <2>4, <2>6, <2>8
<1>11. TextIsKept'
  <2>1. TextIsKept BY DEF SInv
  <2> QED BY <2>1, <1>6 DEF TextIsKept, Received
<1>12. UndefinedOnlyAtEndOrCut' BY <1>6 DEF SInv, UndefinedOnlyAtEndOrCut
<1> QED BY <1>7, <1>9, <1>10, <1>11, <1>12 DEF SInv

(* The first of some messages moves from one queue to the other. *)
LEMMA AppendHead ==
  ASSUME NEW S, NEW s \in Seq(S), NEW t \in Seq(S), t # <<>>
  PROVE  Append(s, Head(t)) \o Tail(t) = s \o t
<1> DEFINE h == <<Head(t)>>
           l == Tail(t)
<1>1. Head(t) \in S /\ l \in Seq(S) BY TailIs
<1>2. h \in Seq(S) BY <1>1, SingleIs
<1>3. t = h \o l
  <2> DEFINE c == Then(h, l)
  <2>1. Len(t) \in Nat \ {0} /\ Len(l) = Len(t) - 1 /\ Head(t) = t[1] BY TailIs
  <2>2. Len(h) = 1 /\ h[1] = t[1] BY <2>1, SingleIs
  <2>3. \A i \in 1..(Len(t) - 1) : l[i] = t[i + 1] BY TailIs
  <2> HIDE DEF h, l
  <2>4. c \in Seq(S) BY <1>1, <1>2, ThenType
  <2>5. Len(c) = Len(h) + Len(l) BY <1>1, <1>2, ThenLen
  <2>6. Len(c) = Len(t) BY <2>1, <2>2, <2>5
  <2>7. ASSUME NEW i \in 1..Len(t) PROVE t[i] = c[i]
    <3>1. CASE i = 1
      <4>1. 1 \in 1..Len(h) BY <2>2
      <4>2. c[1] = h[1] BY <4>1, <1>1, <1>2, ThenFirst
      <4> QED BY <4>2, <3>1, <2>2
    <3>2. CASE i # 1
      <4> DEFINE k == i - 1
      <4>1. k \in 1..Len(l) /\ k \in 1..(Len(t) - 1) /\ k + 1 = i /\ 1 + k = i BY <3>2, <2>1
      <4> HIDE DEF k
      <4>2. c[Len(h) + k] = l[k] BY <4>1, <1>1, <1>2, ThenLast
      <4>3. l[k] = t[k + 1] BY <4>1, <2>3
      <4> QED BY <4>1, <4>2, <4>3, <2>2
    <3> QED BY <3>1, <3>2
  <2> HIDE DEF c
  <2>8. t = c BY <2>4, <2>6, <2>7, SeqEqual
  <2> QED BY <2>8 DEF c, Then
<1>4. Append(s, Head(t)) = s \o h BY <1>1, AppendIsConcat
<1> HIDE DEF h, l
<1>5. (s \o h) \o l = s \o (h \o l) BY <1>1, <1>2, ConcatAssociative
<1> QED BY <1>3, <1>4, <1>5 DEF l

LEMMA CloseInv ==
  ASSUME SInv, Close
  PROVE  SInv'
<1>1. /\ consumed' = consumed /\ arrived' = arrived /\ wire' = wire /\ chunk' = chunk /\ msgs' = msgs
      /\ taken' = taken /\ cut' = cut /\ state' = state /\ sent' = sent /\ ends' = ends /\ eof' = TRUE
  BY DEF Close
<1>2. All' = All /\ Received' = Received BY <1>1 DEF All, Received
<1>3. Types' BY <1>1 DEF SInv, Types
<1>4. WritesEnd' BY <1>1, <1>2 DEF SInv, WritesEnd
<1>5. Exact' BY <1>1, <1>2 DEF SInv, Exact
<1>6. TextIsKept' BY <1>1, <1>2 DEF SInv, TextIsKept
<1>7. UndefinedOnlyAtEndOrCut' BY <1>1 DEF SInv, UndefinedOnlyAtEndOrCut
<1> QED BY <1>3, <1>4, <1>5, <1>6, <1>7 DEF SInv

LEMMA ArriveInv ==
  ASSUME SInv, Arrive
  PROVE  SInv'
<1>1. /\ consumed' = consumed /\ chunk' = chunk /\ msgs' = msgs /\ eof' = eof
      /\ taken' = taken /\ cut' = cut /\ state' = state /\ sent' = sent /\ ends' = ends
  BY DEF Arrive
<1>2. PICK n \in 1..Len(wire) : /\ arrived' = arrived \o SubSeq(wire, 1, n)
                                /\ wire' = SubSeq(wire, n + 1, Len(wire))
  BY DEF Arrive
<1> DEFINE a == SubSeq(wire, 1, n)
           b == SubSeq(wire, n + 1, Len(wire))
<1>3. consumed \in Seq(Byte) /\ arrived \in Seq(Byte) /\ wire \in Seq(Byte) /\ Types BY DEF SInv, Types
<1>4. a \in Seq(Byte) /\ b \in Seq(Byte) /\ wire = Then(a, b)
  <2>1. Len(wire) \in Nat BY <1>3, LenProperties
  <2>2. 1 \in 1..(Len(wire) + 1) /\ Len(wire) \in (1 - 1)..Len(wire) /\ n \in (1 - 1)..Len(wire) BY <2>1
  <2> DEFINE w == SubSeq(wire, 1, Len(wire))
  <2>3. a \in Seq(Byte) /\ b \in Seq(Byte) /\ w = Then(a, b) BY <2>2, <1>3, SubSeqJoin
  <2>4. w = wire BY <1>3, SubSeqAll
  <2> QED BY <2>3, <2>4
<1>5. arrived' = Then(arrived, a) /\ wire' = b BY <1>2 DEF Then
<1> HIDE DEF a, b
<1>6. Then(arrived, wire)' = Then(arrived, wire) BY <1>3, <1>4, <1>5, ThenThen
<1>7. Types'
  <2>1. arrived' \in Seq(Byte) /\ wire' \in Seq(Byte) BY <1>3, <1>4, <1>5, ThenType
  <2> QED BY <2>1, <1>1, <1>3 DEF Types
<1>8. All' = All
  <2>1. All = Then(consumed, Then(arrived, wire)) BY <1>3, AllType
  <2>2. All' = Then(consumed, Then(arrived, wire))'
    <3>1. consumed' \in Seq(Byte) /\ arrived' \in Seq(Byte) /\ wire' \in Seq(Byte) BY <1>7 DEF Types
    <3>2. Then(Then(consumed', arrived'), wire') = Then(consumed', Then(arrived', wire'))
      BY <3>1, ThenThen
    <3> QED BY <3>2 DEF All
  <2> QED BY <2>1, <2>2, <1>1, <1>6
<1>9. Received' = Received BY <1>1 DEF Received
<1>10. WritesEnd' BY <1>1, <1>8 DEF SInv, WritesEnd
<1>11. Exact' BY <1>1, <1>6, <1>9 DEF SInv, Exact
<1>12. TextIsKept' BY <1>1, <1>9 DEF SInv, TextIsKept
<1>13. UndefinedOnlyAtEndOrCut' BY <1>1 DEF SInv, UndefinedOnlyAtEndOrCut
<1> QED BY <1>7, <1>10, <1>11, <1>12, <1>13 DEF SInv

LEMMA TakeMessageInv ==
  ASSUME SInv, TakeMessage
  PROVE  SInv'
<1>1. /\ consumed' = consumed /\ arrived' = arrived /\ wire' = wire /\ chunk' = chunk /\ eof' = eof
      /\ cut' = cut /\ state' = state /\ sent' = sent /\ ends' = ends /\ msgs # <<>>
      /\ taken' = Append(taken, Head(msgs)) /\ msgs' = Tail(msgs)
  BY DEF TakeMessage
<1>2. Types /\ msgs \in Seq(Seq(Byte)) /\ taken \in Seq(Seq(Byte)) BY DEF SInv, Types
<1>3. Head(msgs) \in Seq(Byte) /\ Tail(msgs) \in Seq(Seq(Byte)) BY <1>1, <1>2, TailIs
<1>4. Types'
  <2>1. taken' \in Seq(Seq(Byte)) BY <1>1, <1>2, <1>3, AppendProperties
  <2> QED BY <2>1, <1>1, <1>2, <1>3 DEF Types
<1>5. Received' = Received
  <2>1. Append(taken, Head(msgs)) \o Tail(msgs) = taken \o msgs
    BY <1>1, <1>2, AppendHead
  <2> QED BY <2>1, <1>1 DEF Received
<1>6. All' = All BY <1>1 DEF All
<1>7. WritesEnd' BY <1>1, <1>6 DEF SInv, WritesEnd
<1>8. Exact' BY <1>1, <1>5 DEF SInv, Exact
<1>9. TextIsKept' BY <1>1, <1>5 DEF SInv, TextIsKept
<1>10. UndefinedOnlyAtEndOrCut' BY <1>1 DEF SInv, UndefinedOnlyAtEndOrCut
<1> QED BY <1>4, <1>7, <1>8, <1>9, <1>10 DEF SInv

(* What a read takes. *)
LEMMA GotIs ==
  ASSUME Types
  PROVE  /\ Got \in Seq(Byte) /\ Len(Got) \in Nat /\ Len(Got) <= Len(arrived)
         /\ SubSeq(arrived, Len(Got) + 1, Len(arrived)) \in Seq(Byte)
         /\ arrived = Then(Got, SubSeq(arrived, Len(Got) + 1, Len(arrived)))
         /\ Len(Got) <= BuffSize
         /\ Len(Got) # BuffSize => Got = arrived
<1> DEFINE k == Min({BuffSize, Len(arrived)})
           l == Len(arrived)
<1>1. arrived \in Seq(Byte) /\ l \in Nat BY LenProperties DEF Types
<1>2. k \in {BuffSize, l} /\ k <= BuffSize /\ k <= l
  <2>1. {BuffSize, Len(arrived)} \in SUBSET Nat /\ {BuffSize, Len(arrived)} # {} BY <1>1, BuffAssumption
  <2> QED BY <2>1, MinWorks
<1>3. Got = SubSeq(arrived, 1, k) BY DEF Got
<1> HIDE DEF k
<1>4. k \in Nat /\ k \in (1 - 1)..l /\ l \in (1 - 1)..Len(arrived) /\ 1 \in 1..(Len(arrived) + 1) /\ k - 1 + 1 = k
  BY <1>1, <1>2, BuffAssumption
<1>5. Got \in Seq(Byte) /\ Len(Got) = k
  <2>1. Got \in Seq(Byte) /\ Len(Got) = k - 1 + 1 BY <1>1, <1>3, <1>4, SubSeqIs
  <2> QED BY <2>1, <1>4
<1>6. /\ SubSeq(arrived, k + 1, l) \in Seq(Byte)
      /\ SubSeq(arrived, 1, l) = Then(SubSeq(arrived, 1, k), SubSeq(arrived, k + 1, l))
  BY <1>1, <1>4, SubSeqJoin
<1>7. SubSeq(arrived, 1, l) = arrived BY <1>1, SubSeqAll
<1>8. k # BuffSize => Got = arrived BY <1>2, <1>3, <1>7
<1> QED BY <1>2, <1>3, <1>4, <1>5, <1>6, <1>7, <1>8

LEMMA ReadIs ==
  ASSUME Types, ReadSome
  PROVE  /\ consumed' \in Seq(Byte) /\ arrived' \in Seq(Byte) /\ chunk' \in Seq(Byte)
         /\ Then(consumed', arrived') = Then(consumed, arrived)
         /\ TextOf(consumed') = Then(TextOf(consumed), TextOf(chunk'))
         /\ ~cut' => /\ ~cut /\ chunk' = arrived /\ arrived' = <<>>
                     /\ consumed' = Then(consumed, arrived) /\ Len(consumed') \in ends
<1> DEFINE b == SubSeq(arrived, Len(Got) + 1, Len(arrived))
           g == Got
<1>1. consumed \in Seq(Byte) /\ arrived \in Seq(Byte) BY DEF Types
<1>2. /\ g \in Seq(Byte) /\ Len(g) \in Nat /\ b \in Seq(Byte) /\ arrived = Then(g, b)
      /\ Len(g) <= BuffSize /\ (Len(g) # BuffSize => g = arrived)
  BY GotIs
<1>3. arrived' = b /\ consumed' = Then(consumed, g) /\ chunk' \in CString(g)
  BY DEF ReadSome, Then
<1>4. cut' = (cut \/ Len(consumed') \notin ends \/ Len(g) = BuffSize) BY DEF ReadSome
<1> HIDE DEF b, g
<1>5. NUL \notin ToSet(g) BY <1>2, ToSetIs, ByteIs
<1>6. chunk' = g \/ (Len(g) = BuffSize /\ chunk' = Append(g, Stray))
  <2>1. CASE Len(g) < BuffSize
    <3>1. CString(g) = {g} BY <1>5, <2>1 DEF CString
    <3> QED BY <3>1, <1>3
  <2>2. CASE ~(Len(g) < BuffSize)
    <3>1. CString(g) = {g, Append(g, Stray)} BY <1>5, <2>2 DEF CString
    <3>2. Len(g) = BuffSize BY <2>2, <1>2, BuffAssumption
    <3> QED BY <3>1, <3>2, <1>3
  <2> QED BY <2>1, <2>2
<1>7. consumed' \in Seq(Byte) /\ arrived' \in Seq(Byte) /\ Then(consumed', arrived') = Then(consumed, arrived)
  BY <1>1, <1>2, <1>3, ThenType, ThenThen
<1>8. chunk' \in Seq(Byte) /\ TextOf(chunk') = TextOf(g)
  <2>1. CASE chunk' = g BY <2>1, <1>2
  <2>2. CASE chunk' = Append(g, Stray)
    <3> DEFINE y == <<Stray>>
    <3>1. y \in Seq(Byte) /\ TextOf(y) = <<>> BY ByteIs, SingleIs, TextOne
    <3>2. chunk' = Then(g, y) BY <2>2, <1>2, ByteIs, AppendIsConcat DEF Then
    <3> HIDE DEF y
    <3>3. TextOf(Then(g, y)) = Then(TextOf(g), TextOf(y)) /\ TextOf(g) \in Seq(Byte)
      BY <1>2, <3>1, TextThen
    <3>4. Then(TextOf(g), <<>>) = TextOf(g) BY <3>3, ThenNothing
    <3>5. chunk' \in Seq(Byte) BY <1>2, <3>1, <3>2, ThenType
    <3> QED BY <3>1, <3>2, <3>3, <3>4, <3>5
  <2> QED BY <2>1, <2>2, <1>6
<1>9. TextOf(consumed') = Then(TextOf(consumed), TextOf(chunk'))
  <2>1. TextOf(Then(consumed, g)) = Then(TextOf(consumed), TextOf(g)) BY <1>1, <1>2, TextThen
  <2> QED BY <2>1, <1>3, <1>8
<1>10. ASSUME ~cut'
       PROVE  /\ ~cut /\ chunk' = arrived /\ arrived' = <<>>
              /\ consumed' = Then(consumed, arrived) /\ Len(consumed') \in ends
  <2>1. ~cut /\ Len(consumed') \in ends /\ Len(g) # BuffSize BY <1>4, <1>10
  <2>2. g = arrived /\ chunk' = g BY <2>1, <1>2, <1>6
  <2>3. b = <<>>
    <3>1. b = SubSeq(arrived, Len(arrived) + 1, Len(arrived)) BY <2>2 DEF b, g
    <3> DEFINE o == Len(arrived) + 1
    <3>2. Len(arrived) \in Nat /\ o \in 1..(Len(arrived) + 1) /\ o - 1 = Len(arrived) BY <1>1, LenProperties
    <3> HIDE DEF o
    <3>3. SubSeq(arrived, o, Len(arrived)) = <<>> BY <1>1, <3>2, SubSeqNothing
    <3> QED BY <3>1, <3>3 DEF o
  <2> QED BY <2>1, <2>2, <2>3, <1>3
<1> QED BY <1>7, <1>8, <1>9, <1>10

(* Between two places where writes have ended. *)
LEMMA ArrivedIs ==
  ASSUME Types, WritesEnd, Len(consumed) \in ends, Len(Then(consumed, arrived)) \in ends
  PROVE  EndsLine(arrived) /\ (arrived # <<>> => Pieces(arrived) # <<>>)
<1> DEFINE c == Len(consumed)
           t == Then(consumed, arrived)
           d == Len(t)
<1>1. consumed \in Seq(Byte) /\ arrived \in Seq(Byte) /\ wire \in Seq(Byte) BY DEF Types
<1>2. t \in Seq(Byte) /\ All \in Seq(Byte) /\ All = Then(t, wire) BY AllType DEF All
<1>3. d = c + Len(arrived) /\ c \in Nat /\ Len(arrived) \in Nat BY <1>1, ThenLen
<1>4. CASE arrived = <<>> BY <1>4 DEF EndsLine
<1>5. CASE arrived # <<>>
  <2>1. c < d
    <3>1. Len(arrived) # 0 BY <1>5, <1>1, EmptySeq
    <3> HIDE DEF c, d
    <3> QED BY <3>1, <1>3
  <2>2. c \in ends /\ d \in ends /\ Marks(All, ends) BY DEF WritesEnd
  <2>3. SubSeq(All, c + 1, d) = arrived
    <3> DEFINE o == c + 1
    <3>1. 1 \in 1..(Len(arrived) + 1) /\ Len(arrived) \in (1 - 1)..Len(arrived) BY <1>3
    <3>2. SubSeq(t, c + 1, c + Len(arrived)) = SubSeq(arrived, 1, Len(arrived))
      BY <3>1, <1>1, SubSeqBehind DEF Then
    <3>3. SubSeq(arrived, 1, Len(arrived)) = arrived BY <1>1, SubSeqAll
    <3>4. o \in 1..(Len(t) + 1) /\ d \in (o - 1)..Len(t)
      <4> HIDE DEF c, t
      <4> QED BY <1>3
    <3> HIDE DEF o, t
    <3>5. SubSeq(All, o, d) = SubSeq(t, o, d) BY <3>4, <1>1, <1>2, SubSeqBefore DEF Then
    <3>6. d = c + Len(arrived) BY <1>3
    <3> HIDE DEF c, d
    <3> QED BY <3>2, <3>3, <3>5, <3>6 DEF o
  <2> HIDE DEF c, d, t
  <2>4. EndsLine(SubSeq(All, c + 1, d)) BY <2>1, <2>2, <1>2, MarksBetween
  <2>5. Pieces(SubSeq(All, c + 1, d)) # <<>> BY <2>1, <2>2 DEF Marks
  <2> QED BY <2>3, <2>4, <2>5
<1> QED BY <1>4, <1>5

(* A read that has put all its messages where they belong. *)
LEMMA ReadInv ==
  ASSUME SInv, ReadSome, sent' = sent, ends' = ends, wire' = wire, eof' = eof,
         msgs' \in Seq(Seq(Byte)), taken' \in Seq(Seq(Byte)),
         Received' = Then(Received, Pieces(chunk')),
         UndefinedOnlyAtEndOrCut'
  PROVE  SInv'
<1>1. /\ Types /\ WritesEnd /\ arrived \in Seq(Byte) /\ wire \in Seq(Byte) /\ consumed \in Seq(Byte)
      /\ sent \in Seq(Seq(Byte))
  BY DEF SInv, Types
<1>2. /\ consumed' \in Seq(Byte) /\ arrived' \in Seq(Byte) /\ chunk' \in Seq(Byte)
      /\ Then(consumed', arrived') = Then(consumed, arrived)
      /\ TextOf(consumed') = Then(TextOf(consumed), TextOf(chunk'))
      /\ ~cut' => /\ ~cut /\ chunk' = arrived /\ arrived' = <<>>
                  /\ consumed' = Then(consumed, arrived) /\ Len(consumed') \in ends
  BY <1>1, ReadIs
<1>3. Types' BY <1>1, <1>2 DEF Types
<1>4. All' = All BY <1>2 DEF All
<1>5. WritesEnd' BY <1>1, <1>4 DEF WritesEnd
<1>6. Received \in Seq(Seq(Byte)) /\ Pieces(chunk') \in Seq(Seq(Byte)) BY <1>1, <1>2, AllType, PiecesType
<1>7. Exact'
  <2> SUFFICES ASSUME ~cut'
               PROVE  /\ Len(consumed') \in ends
                      /\ Then(Received', Pieces(Then(arrived', wire))) = sent
    BY DEF Exact
  <2>1. /\ ~cut /\ chunk' = arrived /\ arrived' = <<>>
        /\ consumed' = Then(consumed, arrived) /\ Len(consumed') \in ends
    BY <1>2
  <2>2. Len(consumed) \in ends /\ Then(Received, Pieces(Then(arrived, wire))) = sent
    BY <2>1 DEF SInv, Exact
  <2>3. EndsLine(arrived) BY <1>1, <2>1, <2>2, ArrivedIs
  <2>4. Pieces(Then(arrived, wire)) = Then(Pieces(arrived), Pieces(wire)) BY <1>1, <2>3, PiecesThen
  <2>5. Pieces(arrived) \in Seq(Seq(Byte)) /\ Pieces(wire) \in Seq(Seq(Byte)) BY <1>1, PiecesType
  <2>6. Then(Then(Received, Pieces(arrived)), Pieces(wire)) = Then(Received, Then(Pieces(arrived), Pieces(wire)))
    BY <1>6, <2>5, ThenThen
  <2>7. Then(<<>>, wire) = wire BY <1>1, ThenNothing
  <2> QED BY <2>1, <2>2, <2>4, <2>6, <2>7
<1>8. TextIsKept'
  <2> DEFINE P == Pieces(chunk')
             R == Received
  <2>1. TextOf(FlattenSeq(P)) = TextOf(chunk') BY <1>2, ByteIs, TextPieces
  <2>2. TextOf(FlattenSeq(R)) = TextOf(consumed) BY DEF SInv, TextIsKept
  <2>3. R \in Seq(Seq(Byte)) /\ P \in Seq(Seq(Byte)) BY <1>6
  <2> HIDE DEF P, R
  <2>4. /\ FlattenSeq(Then(R, P)) = Then(FlattenSeq(R), FlattenSeq(P))
        /\ FlattenSeq(R) \in Seq(Byte) /\ FlattenSeq(P) \in Seq(Byte)
    BY <2>3, FlattenThen
  <2>5. TextOf(Then(FlattenSeq(R), FlattenSeq(P))) = Then(TextOf(FlattenSeq(R)), TextOf(FlattenSeq(P)))
    BY <2>4, TextThen
  <2>6. TextOf(FlattenSeq(Then(R, P))) = TextOf(consumed') BY <2>1, <2>2, <2>4, <2>5, <1>2
  <2>7. Received' = Then(R, P) BY DEF R, P
  <2> QED BY <2>6, <2>7 DEF TextIsKept
<1> QED BY <1>3, <1>5, <1>7, <1>8 DEF SInv

LEMMA UpdateInv ==
  ASSUME SInv, UpdateSockmsgs
  PROVE  SInv'
<1>1. /\ ReadSome /\ sent' = sent /\ ends' = ends /\ wire' = wire /\ eof' = eof /\ taken' = taken
      /\ state' = state /\ msgs' = Then(msgs, Pieces(chunk')) /\ state = "reading"
  BY DEF UpdateSockmsgs, Then
<1>2. Types /\ msgs \in Seq(Seq(Byte)) /\ taken \in Seq(Seq(Byte)) BY DEF SInv, Types
<1>3. chunk' \in Seq(Byte) BY <1>1, <1>2, ReadIs
<1>4. Pieces(chunk') \in Seq(Seq(Byte)) BY <1>3, PiecesType
<1>5. msgs' \in Seq(Seq(Byte)) /\ taken' \in Seq(Seq(Byte)) BY <1>1, <1>2, <1>4, ThenType
<1>6. Received' = Then(Received, Pieces(chunk'))
  <2>1. Then(Then(taken, msgs), Pieces(chunk')) = Then(taken, Then(msgs, Pieces(chunk')))
    BY <1>2, <1>4, ThenThen
  <2>2. Received = Then(taken, msgs) /\ Received' = Then(taken', msgs') BY DEF Received, Then
  <2> QED BY <2>1, <2>2, <1>1
<1>7. UndefinedOnlyAtEndOrCut' BY <1>1 DEF UndefinedOnlyAtEndOrCut
<1> QED BY <1>1, <1>5, <1>6, <1>7, ReadInv

LEMMA TryReadingInv ==
  ASSUME SInv, TryReading
  PROVE  SInv'
<1> DEFINE P == Pieces(chunk')
<1>1. /\ ReadSome /\ sent' = sent /\ ends' = ends /\ wire' = wire /\ eof' = eof
      /\ state = "reading" /\ msgs = <<>> /\ (arrived # <<>> \/ (eof /\ wire = <<>>))
  BY DEF TryReading
<1>2. Types /\ WritesEnd /\ taken \in Seq(Seq(Byte)) BY DEF SInv, Types
<1>3. P \in Seq(Seq(Byte))
  <2>1. chunk' \in Seq(Byte) BY <1>1, <1>2, ReadIs
  <2> QED BY <2>1, PiecesType
<1>4. Received = taken
  <2>1. Received = Then(taken, <<>>) BY <1>1 DEF Received, Then
  <2> QED BY <2>1, <1>2, ThenNothing
<1>5. CASE P = <<>>
  <2>1. state' = "undefined" /\ msgs' = <<>> /\ taken' = taken BY <1>1, <1>5 DEF TryReading
  <2>2. <<>> \in Seq(Seq(Byte)) BY EmptySeq
  <2>3. Received' = Then(Received, P)
    <3>1. Received' = Then(taken, <<>>) BY <2>1 DEF Received, Then
    <3> QED BY <3>1, <1>4, <1>5
  <2>4. UndefinedOnlyAtEndOrCut'
    <3> SUFFICES ASSUME ~cut' PROVE eof'
      BY DEF UndefinedOnlyAtEndOrCut
    <3>1. ~cut /\ chunk' = arrived /\ consumed' = Then(consumed, arrived) /\ Len(consumed') \in ends
      BY <1>1, <1>2, ReadIs
    <3>2. Len(consumed) \in ends BY <3>1 DEF SInv, Exact
    <3>3. arrived # <<>> => Pieces(arrived) # <<>> BY <3>1, <3>2, <1>2, ArrivedIs
    <3>4. arrived = <<>> BY <3>1, <3>3, <1>5
    <3> QED BY <3>4, <1>1
  <2> QED BY <2>1, <2>2, <2>3, <2>4, <1>1, <1>2, ReadInv
<1>6. CASE P # <<>>
  <2>1. state' = state /\ taken' = Append(taken, Head(P)) /\ msgs' = Tail(P) BY <1>6 DEF TryReading
  <2> HIDE DEF P
  <2>2. Head(P) \in Seq(Byte) /\ Tail(P) \in Seq(Seq(Byte)) BY <1>3, <1>6, TailIs
  <2>3. taken' \in Seq(Seq(Byte)) /\ msgs' \in Seq(Seq(Byte))
    BY <2>1, <2>2, <1>2, AppendProperties
  <2>4. Received' = Then(Received, P)
    <3>1. Append(taken, Head(P)) \o Tail(P) = taken \o P BY <1>2, <1>3, <1>6, AppendHead
    <3> QED BY <3>1, <2>1, <1>4 DEF Received, Then
  <2>5. UndefinedOnlyAtEndOrCut' BY <2>1, <1>1 DEF UndefinedOnlyAtEndOrCut
  <2> QED BY <2>3, <2>4, <2>5, <1>1, ReadInv DEF P
<1> QED BY <1>5, <1>6

LEMMA NextInv == SInv /\ [Next]_vars => SInv'
<1> SUFFICES ASSUME SInv, [Next]_vars PROVE SInv'
  OBVIOUS
<1>1. ASSUME NEW text \in Texts, NEW tail \in {<<>>, CRLF}, TryWriting(text, tail) PROVE SInv'
  BY <1>1, TryWritingInv
<1>2. CASE Close BY <1>2, CloseInv
<1>3. CASE Arrive BY <1>3, ArriveInv
<1>4. CASE UpdateSockmsgs BY <1>4, UpdateInv
<1>5. CASE TakeMessage BY <1>5, TakeMessageInv
<1>6. CASE TryReading BY <1>6, TryReadingInv
<1>7. CASE UNCHANGED vars
  <2>1. All' = All /\ Received' = Received BY <1>7 DEF vars, All, Received
  <2>2. Types' BY <1>7 DEF SInv, Types, vars
  <2>3. WritesEnd' BY <1>7, <2>1 DEF SInv, WritesEnd, vars
  <2>4. Exact' BY <1>7, <2>1 DEF SInv, Exact, vars
  <2>5. TextIsKept' BY <1>7, <2>1 DEF SInv, TextIsKept, vars
  <2>6. UndefinedOnlyAtEndOrCut' BY <1>7 DEF SInv, UndefinedOnlyAtEndOrCut, vars
  <2> QED BY <2>2, <2>3, <2>4, <2>5, <2>6 DEF SInv
<1> QED BY <1>1, <1>2, <1>3, <1>4, <1>5, <1>6, <1>7 DEF Next

THEOREM SpecSInv == Spec => []SInv
BY InitInv, NextInv, PTL DEF Spec

(***************************************************************************)
(* What the runs check, for all texts and all sizes of the buffer.         *)
(***************************************************************************)

(* Whatever bytes a read gave, split takes them apart at every CR LF and     *)
(* nowhere else, and loses none of them (split in sockio).                   *)
THEOREM SpecSplitRoundTrip == Spec => []SplitRoundTrip
<1>1. ASSUME SInv PROVE SplitRoundTrip
  <2>1. chunk \in Seq(Byte) BY <1>1 DEF SInv, Types
  <2>2. PartsFrom(chunk, 1) BY <2>1, ByteIs, SplitParts
  <2>3. SubSeq(chunk, 1, Len(chunk)) = chunk BY <2>1, SubSeqAll
  <2> QED BY <2>2, <2>3, SplitIs DEF PartsFrom, SplitRoundTrip, Then
<1> QED BY <1>1, SpecSInv, PTL

(* Reads that end where writes have ended, and do not fill the buffer, give  *)
(* the messages as they were sent (update_sockmsgs, try_reading_from_sock).  *)
THEOREM SpecAlignedIsExact == Spec => []AlignedIsExact
<1>1. ASSUME SInv PROVE AlignedIsExact
  <2> SUFFICES ASSUME ~cut
               PROVE  /\ IsPrefix(Received, sent)
                      /\ arrived = <<>> /\ wire = <<>> => Received = sent
    BY DEF AlignedIsExact
  <2> DEFINE r == Then(arrived, wire)
             P == Pieces(r)
  <2>1. Then(Received, P) = sent BY <1>1 DEF SInv, Exact
  <2>2. r \in Seq(Byte) /\ Received \in Seq(Seq(Byte)) BY <1>1, AllType DEF SInv
  <2>3. P \in Seq(Seq(Byte)) BY <2>2, PiecesType
  <2>4. IsPrefix(Received, sent) BY <2>1, <2>2, <2>3 DEF IsPrefix, Then
  <2>5. ASSUME arrived = <<>>, wire = <<>> PROVE Received = sent
    <3>1. <<>> \in Seq(Byte) BY EmptySeq
    <3>2. r = <<>> BY <2>5, <3>1, ThenNothing
    <3>3. P = <<>> BY <3>2, PiecesNothing
    <3> QED BY <3>3, <2>1, <2>2, ThenNothing
  <2> QED BY <2>4, <2>5
<1> QED BY <1>1, SpecSInv, PTL

(* However the stream is cut, its text is received in order (update_sockmsgs, *)
(* try_reading_from_sock).                                                    *)
THEOREM SpecTextIsKept == Spec => []TextIsKept
<1>1. SInv => TextIsKept BY DEF SInv
<1> QED BY <1>1, SpecSInv, PTL

(* The first of no messages is taken only at the end of the stream or after  *)
(* a read that has cut it (try_reading_from_sock).                           *)
THEOREM SpecUndefinedOnlyAtEndOrCut == Spec => []UndefinedOnlyAtEndOrCut
<1>1. SInv => UndefinedOnlyAtEndOrCut BY DEF SInv
<1> QED BY <1>1, SpecSInv, PTL

=====
