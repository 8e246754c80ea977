---------------------------- MODULE QueueLemmas -----------------------------
(***************************************************************************)
(* What the operators of the community modules on sequences do, for the    *)
(* queues of Servlet.tla: deques of users, of sockets and of messages, in  *)
(* which nobody stands twice; and induction over numbers.                  *)
(***************************************************************************)
EXTENDS SequencesExt, SequenceTheorems, WellFoundedInduction, TLAPS

(* The least of a set of numbers is in it. *)
LEMMA MinWorks ==
  ASSUME NEW S \in SUBSET Nat, S # {}
  PROVE  Min(S) \in S /\ \A y \in S : Min(S) <= y
<1>1. PICK x \in S : \A y \in S : ~ (<<y, x>> \in OpToRel(<, Nat))
  BY NatLessThanWellFounded, WFMin, Zenon
<1>2. ASSUME NEW y \in S PROVE x <= y
  <2>1. ~(y < x) BY <1>1 DEF OpToRel
  <2>2. y \in Nat /\ x \in Nat OBVIOUS
  <2> QED BY <2>1, <2>2
<1> QED BY <1>2 DEF Min

(* Induction, for sets in place of predicates. *)
LEMMA CountUp ==
  ASSUME NEW T, 0 \in T, \A n \in Nat : n \in T => n + 1 \in T
  PROVE  Nat \subseteq T
<1> DEFINE missing == Nat \ T
<1>1. ASSUME missing # {} PROVE FALSE
  <2>1. Min(missing) \in missing /\ \A y \in missing : Min(missing) <= y
    BY <1>1, MinWorks
  <2>2. PICK m \in missing : \A y \in missing : m <= y BY <2>1
  <2>3. m # 0 /\ m \in Nat BY <2>2
  <2>4. m - 1 \in Nat /\ ~(m <= m - 1) BY <2>3
  <2>5. m - 1 \in T BY <2>2, <2>4
  <2>6. m - 1 + 1 \in T BY <2>4, <2>5
  <2> QED BY <2>2, <2>3, <2>6
<1> QED BY <1>1

(* What a queue holds.                                                       *)
LEMMA ToSetIs ==
  ASSUME NEW S, NEW s \in Seq(S)
  PROVE  /\ ToSet(s) \subseteq S
         /\ DOMAIN s = 1..Len(s) /\ Len(s) \in Nat
         /\ \A x : x \in ToSet(s) <=> \E i \in 1..Len(s) : s[i] = x
<1>1. DOMAIN s = 1..Len(s) /\ Len(s) \in Nat /\ \A i \in 1..Len(s) : s[i] \in S
  BY LenProperties, ElementOfSeq
<1> QED BY <1>1 DEF ToSet

(* An empty queue. *)
LEMMA NothingIn ==
  /\ ToSet(<<>>) = {} /\ IsInjective(<<>>) /\ DOMAIN <<>> = {}
  /\ \A S : <<>> \in Seq(S)
<1>1. Len(<<>>) = 0 /\ DOMAIN <<>> = 1..Len(<<>>) BY EmptySeq, LenProperties
<1>2. DOMAIN <<>> = {} BY <1>1
<1> QED BY <1>2, EmptySeq DEF ToSet, IsInjective

(* push_back. *)
LEMMA AppendIs ==
  ASSUME NEW S, NEW s \in Seq(S), NEW x \in S
  PROVE  /\ Append(s, x) \in Seq(S)
         /\ Len(Append(s, x)) = Len(s) + 1 /\ DOMAIN Append(s, x) = 1..(Len(s) + 1)
         /\ \A i \in 1..Len(s) : Append(s, x)[i] = s[i]
         /\ Append(s, x)[Len(s) + 1] = x
         /\ ToSet(Append(s, x)) = ToSet(s) \cup {x}
         /\ Append(s, x) # <<>>
         /\ IsInjective(s) /\ x \notin ToSet(s) => IsInjective(Append(s, x))
<1> DEFINE a == Append(s, x)
           n == Len(s)
<1>1. /\ a \in Seq(S) /\ Len(a) = n + 1 /\ a # <<>>
      /\ \A i \in 1..n : a[i] = s[i]
      /\ a[n + 1] = x
  BY AppendProperties
<1>2. n \in Nat /\ DOMAIN s = 1..n /\ DOMAIN a = 1..(n + 1)
  BY <1>1, LenProperties
<1> HIDE DEF a, n
<1>3. ToSet(a) = ToSet(s) \cup {x}
  <2>1. ASSUME NEW y \in ToSet(a) PROVE y \in ToSet(s) \cup {x}
    <3>1. PICK i \in 1..(n + 1) : y = a[i] BY <1>2 DEF ToSet
    <3>2. CASE i \in 1..n BY <3>1, <3>2, <1>1, <1>2 DEF ToSet
    <3>3. CASE i = n + 1 BY <3>1, <3>3, <1>1
    <3> QED BY <3>2, <3>3, <1>2
  <2>2. ASSUME NEW y \in ToSet(s) PROVE y \in ToSet(a)
    <3>1. PICK i \in 1..n : y = s[i] BY <1>2 DEF ToSet
    <3>2. i \in 1..(n + 1) /\ a[i] = y BY <3>1, <1>1, <1>2
    <3> QED BY <3>2, <1>2 DEF ToSet
  <2>3. x \in ToSet(a)
    <3>1. n + 1 \in 1..(n + 1) BY <1>2
    <3> QED BY <3>1, <1>1, <1>2 DEF ToSet
  <2> QED BY <2>1, <2>2, <2>3
<1>4. ASSUME IsInjective(s), x \notin ToSet(s) PROVE IsInjective(a)
  <2>1. ASSUME NEW i \in 1..(n + 1), NEW j \in 1..(n + 1), a[i] = a[j] PROVE i = j
    <3>1. \A k \in 1..n : s[k] # x BY <1>4, <1>2 DEF ToSet
    <3>2. i = n + 1 => j = n + 1 BY <3>1, <2>1, <1>1, <1>2
    <3>3. j = n + 1 => i = n + 1 BY <3>1, <2>1, <1>1, <1>2
    <3>4. CASE i \in 1..n /\ j \in 1..n
      BY <3>4, <2>1, <1>1, <1>2, <1>4 DEF IsInjective
    <3> QED BY <3>2, <3>3, <3>4, <1>2
  <2> QED BY <2>1, <1>2 DEF IsInjective
<1> QED BY <1>1, <1>2, <1>3, <1>4 DEF a, n

(* pop_front. *)
LEMMA TailIs ==
  ASSUME NEW S, NEW s \in Seq(S), s # <<>>
  PROVE  /\ Head(s) \in S /\ Tail(s) \in Seq(S)
         /\ Len(s) \in Nat \ {0} /\ Len(Tail(s)) \in Nat
         /\ Len(Tail(s)) = Len(s) - 1 /\ DOMAIN Tail(s) = 1..(Len(s) - 1)
         /\ Head(s) = s[1] /\ 1 \in DOMAIN s
         /\ \A i \in 1..(Len(s) - 1) : i + 1 \in DOMAIN s /\ Tail(s)[i] = s[i + 1]
         /\ ToSet(s) = {Head(s)} \cup ToSet(Tail(s))
         /\ IsInjective(s) => IsInjective(Tail(s)) /\ Head(s) \notin ToSet(Tail(s))
<1> DEFINE t == Tail(s)
           n == Len(s)
<1>1. /\ Head(s) \in S /\ t \in Seq(S) /\ n \in Nat \ {0} /\ Len(t) = n - 1
      /\ \A i \in 1..(n - 1) : t[i] = s[i + 1]
      /\ Head(s) = s[1]
  BY HeadTailProperties, EmptySeq, LenProperties
<1>2. DOMAIN s = 1..n /\ DOMAIN t = 1..(n - 1)
  BY <1>1, LenProperties
<1> HIDE DEF t, n
<1>3. ToSet(s) = {Head(s)} \cup ToSet(t)
  <2>1. ASSUME NEW y \in ToSet(s) PROVE y \in {Head(s)} \cup ToSet(t)
    <3>1. PICK i \in 1..n : y = s[i] BY <1>2 DEF ToSet
    <3>2. CASE i = 1 BY <3>1, <3>2, <1>1
    <3>3. CASE i # 1
      <4>1. i - 1 \in 1..(n - 1) /\ t[i - 1] = s[i] BY <3>3, <1>1
      <4> QED BY <4>1, <3>1, <1>2 DEF ToSet
    <3> QED BY <3>2, <3>3
  <2>2. ASSUME NEW y \in ToSet(t) PROVE y \in ToSet(s)
    <3>1. PICK i \in 1..(n - 1) : y = t[i] BY <1>2 DEF ToSet
    <3>2. i + 1 \in 1..n /\ s[i + 1] = y BY <3>1, <1>1
    <3> QED BY <3>2, <1>2 DEF ToSet
  <2>3. Head(s) \in ToSet(s)
    <3>1. 1 \in 1..n BY <1>1
    <3> QED BY <3>1, <1>1, <1>2 DEF ToSet
  <2> QED BY <2>1, <2>2, <2>3
<1>4. ASSUME IsInjective(s) PROVE IsInjective(t) /\ Head(s) \notin ToSet(t)
  <2>1. ASSUME NEW i \in 1..(n - 1), NEW j \in 1..(n - 1), t[i] = t[j] PROVE i = j
    <3>1. i + 1 \in 1..n /\ j + 1 \in 1..n /\ s[i + 1] = s[j + 1] BY <2>1, <1>1
    <3>2. i + 1 = j + 1 BY <3>1, <1>2, <1>4 DEF IsInjective
    <3> QED BY <3>2, <1>1
  <2>2. ASSUME NEW i \in 1..(n - 1), t[i] = s[1] PROVE FALSE
    <3>1. i + 1 \in 1..n /\ 1 \in 1..n /\ s[i + 1] = s[1] /\ i + 1 # 1 BY <2>2, <1>1
    <3> QED BY <3>1, <1>2, <1>4 DEF IsInjective
  <2> QED BY <2>1, <2>2, <1>1, <1>2 DEF IsInjective, ToSet
<1>5. 1 \in 1..n /\ \A i \in 1..(n - 1) : i + 1 \in 1..n BY <1>1
<1> QED BY <1>1, <1>2, <1>3, <1>4, <1>5 DEF t, n

(* One queue behind another. *)
LEMMA ConcatIs ==
  ASSUME NEW S, NEW s \in Seq(S), NEW t \in Seq(S)
  PROVE  /\ s \o t \in Seq(S)
         /\ Len(s \o t) = Len(s) + Len(t) /\ DOMAIN (s \o t) = 1..(Len(s) + Len(t))
         /\ Len(s) \in Nat /\ Len(t) \in Nat
         /\ \A i \in 1..Len(s) : (s \o t)[i] = s[i]
         /\ \A i \in 1..Len(t) : (s \o t)[Len(s) + i] = t[i]
         /\ ToSet(s \o t) = ToSet(s) \cup ToSet(t)
         /\ IsInjective(s) /\ IsInjective(t) /\ (\A x \in ToSet(t) : x \notin ToSet(s)) =>
              IsInjective(s \o t)
<1> DEFINE u == s \o t
           m == Len(s)
           n == Len(t)
<1>1. /\ u \in Seq(S) /\ Len(u) = m + n
      /\ \A i \in 1..(m + n) : u[i] = IF i <= m THEN s[i] ELSE t[i - m]
  BY ConcatProperties
<1>2. m \in Nat /\ n \in Nat /\ DOMAIN s = 1..m /\ DOMAIN t = 1..n /\ DOMAIN u = 1..(m + n)
  BY <1>1, LenProperties
<1> HIDE DEF u, m, n
<1>3. /\ \A i \in 1..m : i \in 1..(m + n) /\ u[i] = s[i]
      /\ \A i \in 1..n : m + i \in 1..(m + n) /\ u[m + i] = t[i]
  BY <1>1, <1>2
<1>4. ASSUME NEW i \in 1..(m + n) PROVE i \in 1..m \/ \E j \in 1..n : i = m + j
  <2>1. CASE ~(i <= m)
    <3>1. i - m \in 1..n /\ i = m + (i - m) BY <2>1, <1>2
    <3> QED BY <3>1
  <2> QED BY <2>1, <1>2
<1>5. ToSet(u) = ToSet(s) \cup ToSet(t)
  <2>1. ASSUME NEW y \in ToSet(u) PROVE y \in ToSet(s) \cup ToSet(t)
    <3>1. PICK i \in 1..(m + n) : y = u[i] BY <1>2 DEF ToSet
    <3> QED BY <3>1, <1>2, <1>3, <1>4 DEF ToSet
  <2>2. ASSUME NEW y \in ToSet(s) \cup ToSet(t) PROVE y \in ToSet(u)
    BY <1>2, <1>3 DEF ToSet
  <2> QED BY <2>1, <2>2
<1>6. ASSUME IsInjective(s), IsInjective(t), \A x \in ToSet(t) : x \notin ToSet(s)
      PROVE  IsInjective(u)
  <2>1. ASSUME NEW i \in 1..m, NEW j \in 1..n PROVE s[i] # t[j]
    BY <1>6, <1>2 DEF ToSet
  <2>2. ASSUME NEW i \in 1..(m + n), NEW j \in 1..(m + n), u[i] = u[j] PROVE i = j
    <3>1. CASE i \in 1..m /\ j \in 1..m
      BY <3>1, <2>2, <1>2, <1>3, <1>6 DEF IsInjective
    <3>2. CASE \E k \in 1..n, l \in 1..n : i = m + k /\ j = m + l
      <4>1. PICK k \in 1..n, l \in 1..n : i = m + k /\ j = m + l BY <3>2
      <4>2. k = l BY <4>1, <2>2, <1>2, <1>3, <1>6 DEF IsInjective
      <4> QED BY <4>1, <4>2
    <3>3. CASE i \in 1..m /\ \E l \in 1..n : j = m + l
      BY <3>3, <2>1, <2>2, <1>3
    <3>4. CASE j \in 1..m /\ \E l \in 1..n : i = m + l
      BY <3>4, <2>1, <2>2, <1>3
    <3> QED BY <3>1, <3>2, <3>3, <3>4, <1>4
  <2> QED BY <2>2, <1>2 DEF IsInjective
<1> QED BY <1>1, <1>2, <1>3, <1>5, <1>6 DEF u, m, n

(* A sequence without its k-th element.                                      *)
LEMMA RemoveAtIs ==
  ASSUME NEW S, NEW s \in Seq(S), NEW k \in 1..Len(s)
  PROVE  /\ RemoveAt(s, k) \in Seq(S)
         /\ Len(s) \in Nat /\ Len(RemoveAt(s, k)) = Len(s) - 1
         /\ \A i \in 1..(Len(s) - 1) : RemoveAt(s, k)[i] = IF i < k THEN s[i] ELSE s[i + 1]
         /\ IsInjective(s) =>
              IsInjective(RemoveAt(s, k)) /\ ToSet(RemoveAt(s, k)) = ToSet(s) \ {s[k]}
<1> DEFINE r == RemoveAt(s, k)
           n == Len(s)
           a == SubSeq(s, 1, k - 1)
           b == SubSeq(s, k + 1, n)
<1>1. n \in Nat /\ DOMAIN s = 1..n /\ k \in 1..n /\ \A i \in 1..n : s[i] \in S
  BY LenProperties, ElementOfSeq
<1>2. /\ a \in Seq(S) /\ Len(a) = k - 1
      /\ \A i \in 1..(k - 1) : a[i] = s[i]
  <2> HIDE DEF n
  <2>1. \A i \in 1..(k - 1) : s[i] \in S BY <1>1
  <2>2. /\ a \in Seq(S) /\ Len(a) = IF 1 <= k - 1 THEN k - 1 - 1 + 1 ELSE 0
        /\ \A i \in 1..(k - 1 - 1 + 1) : a[i] = s[1 + i - 1]
    BY <2>1, <1>1, SubSeqProperties
  <2> HIDE DEF a
  <2> QED BY <2>2, <1>1
<1>3. /\ b \in Seq(S) /\ Len(b) = n - k
      /\ \A i \in 1..(n - k) : b[i] = s[k + i]
  <2> HIDE DEF n
  <2>1. \A i \in (k + 1)..n : s[i] \in S BY <1>1
  <2>2. /\ b \in Seq(S) /\ Len(b) = IF k + 1 <= n THEN n - (k + 1) + 1 ELSE 0
        /\ \A i \in 1..(n - (k + 1) + 1) : b[i] = s[k + 1 + i - 1]
    BY <2>1, <1>1, SubSeqProperties
  <2> HIDE DEF b
  <2> QED BY <2>2, <1>1
<1>4. r = a \o b BY DEF RemoveAt
<1> HIDE DEF r, n, a, b
<1>5. /\ r \in Seq(S) /\ Len(r) = Len(a) + Len(b)
      /\ \A i \in 1..Len(a) : r[i] = a[i]
      /\ \A i \in 1..Len(b) : r[Len(a) + i] = b[i]
  <2>1. a \in Seq(S) /\ b \in Seq(S) BY <1>2, <1>3
  <2>2. /\ a \o b \in Seq(S) /\ Len(a \o b) = Len(a) + Len(b)
        /\ \A i \in 1..Len(a) : (a \o b)[i] = a[i]
        /\ \A i \in 1..Len(b) : (a \o b)[Len(a) + i] = b[i]
    BY <2>1, ConcatIs
  <2> QED BY <2>2, <1>4
<1>6. Len(r) = n - 1 /\ DOMAIN r = 1..(n - 1)
  BY <1>1, <1>2, <1>3, <1>5, LenProperties
<1>7. ASSUME NEW i \in 1..(n - 1) PROVE r[i] = IF i < k THEN s[i] ELSE s[i + 1]
  <2>1. CASE i < k BY <2>1, <1>1, <1>2, <1>5
  <2>2. CASE ~(i < k)
    <3>1. i - k + 1 \in 1..(n - k) /\ (k - 1) + (i - k + 1) = i /\ k + (i - k + 1) = i + 1
      BY <2>2, <1>1
    <3>2. r[i] = b[i - k + 1] BY <3>1, <1>2, <1>3, <1>5
    <3> QED BY <3>1, <3>2, <2>2, <1>3
  <2> QED BY <2>1, <2>2
<1>8. ASSUME IsInjective(s) PROVE IsInjective(r) /\ ToSet(r) = ToSet(s) \ {s[k]}
  <2>1. \A i \in 1..n, j \in 1..n : s[i] = s[j] => i = j BY <1>1, <1>8 DEF IsInjective
  <2>2. ASSUME NEW i \in 1..(n - 1), NEW j \in 1..(n - 1), r[i] = r[j] PROVE i = j
    <3>1. /\ i \in 1..n /\ i + 1 \in 1..n /\ j \in 1..n /\ j + 1 \in 1..n BY <1>1
    <3>2. CASE i < k /\ j < k BY <3>1, <3>2, <2>1, <2>2, <1>7
    <3>3. CASE ~(i < k) /\ ~(j < k)
      <4>1. i + 1 = j + 1 BY <3>1, <3>3, <2>1, <2>2, <1>7
      <4> QED BY <4>1
    <3>4. CASE i < k /\ ~(j < k)
      <4>1. i = j + 1 BY <3>1, <3>4, <2>1, <2>2, <1>7
      <4> QED BY <4>1, <3>4, <1>1
    <3>5. CASE ~(i < k) /\ j < k
      <4>1. i + 1 = j BY <3>1, <3>5, <2>1, <2>2, <1>7
      <4> QED BY <4>1, <3>5, <1>1
    <3> QED BY <3>2, <3>3, <3>4, <3>5
  <2>3. ASSUME NEW y \in ToSet(r) PROVE y \in ToSet(s) /\ y # s[k]
    <3>1. PICK i \in 1..(n - 1) : y = r[i] BY <1>6 DEF ToSet
    <3>2. i \in 1..n /\ i + 1 \in 1..n BY <1>1
    <3>3. CASE i < k BY <3>1, <3>2, <3>3, <2>1, <1>1, <1>7 DEF ToSet
    <3>4. CASE ~(i < k)
      <4>1. y = s[i + 1] /\ i + 1 # k BY <3>1, <3>4, <1>1, <1>7
      <4> QED BY <4>1, <3>2, <2>1, <1>1 DEF ToSet
    <3> QED BY <3>3, <3>4
  <2>4. ASSUME NEW y \in ToSet(s), y # s[k] PROVE y \in ToSet(r)
    <3>1. PICK i \in 1..n : y = s[i] BY <1>1 DEF ToSet
    <3>2. i # k BY <3>1, <2>4
    <3>3. CASE i < k
      <4>1. i \in 1..(n - 1) /\ r[i] = y BY <3>1, <3>3, <1>1, <1>7
      <4> QED BY <4>1, <1>6 DEF ToSet
    <3>4. CASE ~(i < k)
      <4>1. i - 1 \in 1..(n - 1) /\ ~(i - 1 < k) /\ i - 1 + 1 = i BY <3>2, <3>4, <1>1
      <4>2. r[i - 1] = y BY <4>1, <3>1, <1>7
      <4> QED BY <4>1, <4>2, <1>6 DEF ToSet
    <3> QED BY <3>3, <3>4
  <2> QED BY <2>2, <2>3, <2>4, <1>6 DEF IsInjective
<1> QED BY <1>1, <1>5, <1>6, <1>7, <1>8 DEF r, n

(* A function on 1..n is a sequence of length n.                             *)
LEMMA FunIsSeq ==
  ASSUME NEW S, NEW n \in Nat, NEW f \in [1..n -> S]
  PROVE  f \in Seq(S) /\ Len(f) = n
<1>1. f \in Seq(S) BY SeqDef
<1>2. Len(f) \in Nat /\ 1..Len(f) = 1..n BY <1>1, LenProperties
<1>3. ~(n < Len(f))
  <2>1. ASSUME n < Len(f) PROVE FALSE
    <3>1. n + 1 \in 1..Len(f) /\ n + 1 \notin 1..n BY <2>1, <1>2
    <3> QED BY <3>1, <1>2
  <2> QED BY <2>1
<1>4. ~(Len(f) < n)
  <2>1. ASSUME Len(f) < n PROVE FALSE
    <3>1. n \in 1..n /\ n \notin 1..Len(f) BY <2>1, <1>2
    <3> QED BY <3>1, <1>2
  <2> QED BY <2>1
<1> QED BY <1>1, <1>2, <1>3, <1>4

(* Nothing is taken out of a queue without c; else c is, where it first    *)
(* stands.                                                                 *)
LEMMA RemoveFirstIs ==
  ASSUME NEW S, NEW s \in Seq(S), NEW c
  PROVE  \/ c \notin ToSet(s) /\ RemoveFirst(s, c) = s
         \/ \E k \in 1..Len(s) : s[k] = c /\ RemoveFirst(s, c) = RemoveAt(s, k)
<1> DEFINE I == {i \in 1..Len(s) : s[i] = c}
<1>1. CASE I = {}
  <2>1. ~ \E i \in 1..Len(s) : s[i] = c BY <1>1
  <2>2. c \notin ToSet(s) BY <2>1, ToSetIs
  <2> QED BY <2>1, <2>2 DEF RemoveFirst
<1>2. CASE I # {}
  <2>1. I \in SUBSET Nat BY LenProperties
  <2>2. Min(I) \in I BY <2>1, <1>2, MinWorks
  <2>3. SelectInSeq(s, LAMBDA v : v = c) = Min(I) BY <1>2 DEF SelectInSeq
  <2>4. RemoveFirst(s, c) = RemoveAt(s, Min(I)) BY <2>3, <1>2 DEF RemoveFirst
  <2> QED BY <2>2, <2>4
<1> QED BY <1>1, <1>2

=============================================================================
