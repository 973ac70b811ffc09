--------------------------- MODULE SequenceLemmas ---------------------------
(***************************************************************************)
(* Induction, recursion and sorting for the proofs about texts and lists   *)
(* (RunOutput, EditPlan, Retrieval, LspEdits).  The principles are         *)
(* stated over sets instead of predicates, so that the provers can use     *)
(* them: what is proved of all numbers is that they are in a set.          *)
(***************************************************************************)
EXTENDS Naturals, Sequences, SequencesExt, Orderings, FiniteSetTheorems,
        WellFoundedInduction, SequenceTheorems, TLAPS

(* A set of numbers that is not empty has a least element.                 *)
LEMMA LeastNumber ==
  ASSUME NEW T \in SUBSET Nat, T # {}
  PROVE  \E x \in T : \A y \in T : x <= y
<1> DEFINE R == OpToRel(<, Nat)
<1>1. IsWellFoundedOn(R, Nat)  BY NatLessThanWellFounded, Zenon
<1> HIDE DEF R
<1>2. PICK x \in T : \A y \in T : ~ (<<y, x>> \in R)  BY <1>1, WFMin
<1>3. \A y \in T : y < x => <<y, x>> \in R  BY DEF R, OpToRel
<1>4. \A y \in T : ~ (y < x) /\ y \in Nat /\ x \in Nat  BY <1>2, <1>3
<1>5. \A y \in T : x <= y  BY <1>4
<1> QED  BY <1>5

(* Induction from each number to the next.                                 *)
LEMMA NumberInduction ==
  ASSUME NEW T, 0 \in T, \A n \in Nat : n \in T => n + 1 \in T
  PROVE  \A n \in Nat : n \in T
<1> SUFFICES ASSUME NEW k \in Nat, k \notin T PROVE FALSE  OBVIOUS
<1> DEFINE B == {n \in Nat : n \notin T}
<1>1. PICK x \in B : \A y \in B : x <= y  BY LeastNumber
<1>2. x # 0 /\ x - 1 \in Nat /\ x - 1 < x  BY <1>1
<1>3. x - 1 \in T  BY <1>1, <1>2
<1> QED  BY <1>2, <1>3

(* Induction from all smaller numbers.                                     *)
LEMMA SmallerInduction ==
  ASSUME NEW T, \A n \in Nat : (\A m \in Nat : m < n => m \in T) => n \in T
  PROVE  \A n \in Nat : n \in T
<1> SUFFICES ASSUME NEW k \in Nat, k \notin T PROVE FALSE  OBVIOUS
<1> DEFINE B == {n \in Nat : n \notin T}
<1>1. PICK x \in B : \A y \in B : x <= y  BY LeastNumber
<1>2. \A m \in Nat : m < x => m \in T  BY <1>1
<1> QED  BY <1>2

(* Induction up a range.                                                   *)
LEMMA UpwardInduction ==
  ASSUME NEW n \in Nat, NEW T, 0 \in T, \A k \in 1..n : k - 1 \in T => k \in T
  PROVE  \A k \in 0..n : k \in T
<1> DEFINE U == {k \in Nat : k \in 0..n => k \in T}
<1>1. 0 \in U  OBVIOUS
<1>2. ASSUME NEW k \in Nat, k \in U PROVE k + 1 \in U
  <2> SUFFICES ASSUME k + 1 \in 0..n PROVE k + 1 \in T  OBVIOUS
  <2>1. k \in 0..n /\ k + 1 \in 1..n /\ (k + 1) - 1 = k  OBVIOUS
  <2>2. k \in T  BY <1>2, <2>1
  <2> QED  BY <2>1, <2>2
<1>3. \A k \in Nat : k \in U
  <2> HIDE DEF U
  <2> QED  BY <1>1, <1>2, NumberInduction
<1> QED  BY <1>3

(* A body that gives a value in S for each place of D, from values in S of *)
(* the places of smaller rank.                                             *)
Recursion(D, S, bound, rank, body) ==
  /\ S # {} /\ bound \in Nat /\ rank \in [D -> 0..bound]
  /\ body \in [[D -> S] \X D -> S]
  /\ \A f, g \in [D -> S] : \A i \in D :
       (\A j \in D : rank[j] < rank[i] => f[j] = g[j]) => body[<<f, i>>] = body[<<g, i>>]

(* A function may be defined by recursion: some function satisfies it.     *)
LEMMA RankedRecursion ==
  ASSUME NEW D, NEW S, NEW bound, NEW rank, NEW body, Recursion(D, S, bound, rank, body)
  PROVE  \E f \in [D -> S] : \A i \in D : f[i] = body[<<f, i>>]
<1> USE DEF Recursion
<1> DEFINE Solves(f, k) == \A i \in D : rank[i] < k => f[i] = body[<<f, i>>]
           T == {k \in Nat : \E f \in [D -> S] : Solves(f, k)}
<1>1. 0 \in T
  <2>1. PICK s \in S : TRUE  OBVIOUS
  <2>2. [i \in D |-> s] \in [D -> S] /\ Solves([i \in D |-> s], 0)  OBVIOUS
  <2> QED  BY <2>2
<1>2. ASSUME NEW k \in Nat, k \in T PROVE k + 1 \in T
  <2>1. PICK f \in [D -> S] : Solves(f, k)  BY <1>2
  <2> DEFINE g == [i \in D |-> IF rank[i] = k THEN body[<<f, i>>] ELSE f[i]]
  <2>2. g \in [D -> S]  OBVIOUS
  <2>3. \A i \in D : rank[i] # k => g[i] = f[i]  OBVIOUS
  <2>4. \A i \in D : rank[i] = k => g[i] = body[<<f, i>>]  OBVIOUS
  <2> HIDE DEF g
  <2>5. ASSUME NEW i \in D, rank[i] < k + 1 PROVE g[i] = body[<<g, i>>]
    <3>1. rank[i] \in Nat /\ \A j \in D : rank[j] \in Nat  OBVIOUS
    <3>2. \A j \in D : rank[j] < rank[i] => g[j] = f[j]  BY <2>3, <2>5, <3>1
    <3>3. body[<<g, i>>] = body[<<f, i>>]  BY <2>2, <3>2
    <3>4. CASE rank[i] = k  BY <2>4, <3>3, <3>4
    <3>5. CASE rank[i] # k
      <4>1. rank[i] < k  BY <2>5, <3>1, <3>5
      <4> QED  BY <2>1, <2>3, <3>3, <3>5, <4>1
    <3> QED  BY <3>4, <3>5
  <2> QED  BY <2>2, <2>5
<1>3. bound + 1 \in T
  <2> HIDE DEF T
  <2>1. \A n \in Nat : n \in T  BY <1>1, <1>2, NumberInduction
  <2> QED  BY <2>1
<1>4. PICK f \in [D -> S] : Solves(f, bound + 1)  BY <1>3
<1>5. \A i \in D : rank[i] < bound + 1  OBVIOUS
<1> QED  BY <1>4, <1>5

(* A function defined from each number to the next.                        *)
Steps(n, base, step, f) ==
  f[0] = base /\ \A k \in 1..n : f[k] = step[<<f[k - 1], k>>]

(* Some function is.                                                       *)
LEMMA StepRecursion ==
  ASSUME NEW n \in Nat, NEW S, NEW base \in S, NEW step \in [S \X (1..n) -> S]
  PROVE  \E f \in [0..n -> S] : Steps(n, base, step, f)
<1> DEFINE D == 0..n
           rank == [k \in D |-> k]
           body == [fk \in [D -> S] \X D |->
                      IF fk[2] = 0 THEN base ELSE step[<<fk[1][fk[2] - 1], fk[2]>>]]
<1>1. rank \in [D -> 0..n]  OBVIOUS
<1>2. \A k \in D : k # 0 => k - 1 \in D /\ k \in 1..n /\ rank[k - 1] < rank[k]  OBVIOUS
<1>3. \A f \in [D -> S], k \in D :
        body[<<f, k>>] = IF k = 0 THEN base ELSE step[<<f[k - 1], k>>]  OBVIOUS
<1>4. body \in [[D -> S] \X D -> S]
  <2>1. ASSUME NEW f \in [D -> S], NEW k \in D PROVE body[<<f, k>>] \in S
    <3>1. CASE k = 0  BY <1>3, <3>1
    <3>2. CASE k # 0
      <4>1. f[k - 1] \in S /\ k \in 1..n  BY <1>2, <3>2
      <4> QED  BY <1>3, <3>2, <4>1
    <3> QED  BY <3>1, <3>2
  <2> QED  BY <2>1
<1> HIDE DEF rank, body, D
<1>5. \A f, g \in [D -> S] : \A k \in D :
        (\A j \in D : rank[j] < rank[k] => f[j] = g[j]) => body[<<f, k>>] = body[<<g, k>>]
  <2> SUFFICES ASSUME NEW f \in [D -> S], NEW g \in [D -> S], NEW k \in D,
                      \A j \in D : rank[j] < rank[k] => f[j] = g[j]
               PROVE  body[<<f, k>>] = body[<<g, k>>]
    OBVIOUS
  <2>1. k # 0 => f[k - 1] = g[k - 1]  BY <1>2
  <2> QED  BY <1>3, <2>1
<1>6. Recursion(D, S, n, rank, body)
  <2>1. S # {}  OBVIOUS
  <2> QED  BY <1>1, <1>4, <1>5, <2>1, Zenon DEF Recursion
<1>7. PICK f \in [D -> S] : \A k \in D : f[k] = body[<<f, k>>]  BY <1>6, RankedRecursion
<1>8. 0 \in D /\ \A k \in 1..n : k \in D /\ k # 0  BY DEF D
<1>9. f[0] = base  BY <1>3, <1>7, <1>8
<1>10. \A k \in 1..n : f[k] = step[<<f[k - 1], k>>]  BY <1>3, <1>7, <1>8
<1>11. Steps(n, base, step, f)  BY <1>9, <1>10 DEF Steps
<1> QED  BY <1>7, <1>11 DEF D

(* Induction down a range: each place from all that come after it.         *)
LEMMA DownwardInduction ==
  ASSUME NEW n \in Nat, NEW T,
         \A i \in 1..n : (\A j \in 1..n : i < j => j \in T) => i \in T
  PROVE  \A i \in 1..n : i \in T
<1> DEFINE U == {d \in Nat : \A i \in 1..n : n - i = d => i \in T}
<1>1. ASSUME NEW d \in Nat, \A m \in Nat : m < d => m \in U PROVE d \in U
  <2> SUFFICES ASSUME NEW i \in 1..n, n - i = d PROVE i \in T  OBVIOUS
  <2>1. ASSUME NEW j \in 1..n, i < j PROVE j \in T
    <3>1. n - j \in Nat /\ n - j < d  BY <2>1
    <3> QED  BY <1>1, <3>1
  <2> QED  BY <2>1
<1> HIDE DEF U
<1>2. \A d \in Nat : d \in U  BY <1>1, SmallerInduction
<1> USE DEF U
<1> SUFFICES ASSUME NEW i \in 1..n PROVE i \in T  OBVIOUS
<1>3. n - i \in Nat  OBVIOUS
<1>4. n - i \in U  BY <1>2, <1>3
<1> QED  BY <1>4

-----------------------------------------------------------------------------
(* Parts of sequences.                                                     *)

(* A part of one element.                                                  *)
LEMMA SubSeqOne ==
  ASSUME NEW S, NEW seq \in Seq(S), NEW i \in 1..Len(seq)
  PROVE  SubSeq(seq, i, i) = <<seq[i]>>
<1>1. SubSeq(seq, i, i) = <<seq[i]>> \o SubSeq(seq, i + 1, i)  BY SubSeqRecursiveFirst
<1>2. SubSeq(seq, i + 1, i) = <<>>  BY SubSeqEmpty
<1>3. <<seq[i]>> \in Seq(S)  OBVIOUS
<1>4. <<seq[i]>> \o <<>> = <<seq[i]>>  BY <1>3, ConcatEmptySeq
<1> QED  BY <1>1, <1>2, <1>4

(* A part of two elements.                                                 *)
LEMMA SubSeqTwo ==
  ASSUME NEW S, NEW seq \in Seq(S), NEW i \in 1..Len(seq), i + 1 <= Len(seq)
  PROVE  SubSeq(seq, i, i + 1) = <<seq[i], seq[i + 1]>>
<1>1. i + 1 \in i..Len(seq) /\ i + 1 \in 1..Len(seq)  OBVIOUS
<1>2. SubSeq(seq, i, i + 1) = <<seq[i]>> \o SubSeq(seq, i + 1, i + 1)
  BY <1>1, SubSeqRecursiveFirst
<1>3. SubSeq(seq, i + 1, i + 1) = <<seq[i + 1]>>  BY <1>1, SubSeqOne
<1>4. seq[i] \in S /\ seq[i + 1] \in S  BY <1>1
<1>5. ASSUME NEW a \in S, NEW b \in S PROVE <<a>> \o <<b>> = <<a, b>>
  <2>1. <<a>> \in Seq(S) /\ <<b>> \in Seq(S) /\ <<a, b>> \in Seq(S)  OBVIOUS
  <2>2. Len(<<a>>) = 1 /\ Len(<<b>>) = 1 /\ Len(<<a, b>>) = 2  OBVIOUS
  <2>3. <<a>> \o <<b>> \in Seq(S) /\ Len(<<a>> \o <<b>>) = 2
        /\ (<<a>> \o <<b>>)[1] = a /\ (<<a>> \o <<b>>)[2] = b
    BY <2>1, <2>2, ConcatProperties
  <2>4. \A k \in 1..2 : (<<a>> \o <<b>>)[k] = <<a, b>>[k]  BY <2>3
  <2> QED  BY <2>1, <2>2, <2>3, <2>4, SeqEqual
<1> QED  BY <1>2, <1>3, <1>4, <1>5

(* A part of a sequence, possibly empty.                                   *)
LEMMA PartOf ==
  ASSUME NEW S, NEW seq \in Seq(S), NEW i \in 1..Len(seq) + 1, NEW j \in i - 1..Len(seq)
  PROVE  /\ SubSeq(seq, i, j) \in Seq(S)
         /\ Len(SubSeq(seq, i, j)) = j - i + 1
         /\ \A k \in 1..j - i + 1 : SubSeq(seq, i, j)[k] = seq[i + k - 1]
<1>1. i \in Int /\ j \in Int /\ \A k \in i..j : seq[k] \in S  OBVIOUS
<1>2. /\ SubSeq(seq, i, j) \in Seq(S)
      /\ Len(SubSeq(seq, i, j)) = IF i <= j THEN j - i + 1 ELSE 0
      /\ \A k \in 1..j - i + 1 : SubSeq(seq, i, j)[k] = seq[i + k - 1]
  BY <1>1, SubSeqProperties
<1>3. i > j => j - i + 1 = 0  OBVIOUS
<1> QED  BY <1>2, <1>3

(* The end of a sequence from a place on.                                  *)
LEMMA EndOf ==
  ASSUME NEW S, NEW seq \in Seq(S), NEW i \in 1..Len(seq) + 1
  PROVE  /\ SubSeq(seq, i, Len(seq)) \in Seq(S)
         /\ Len(SubSeq(seq, i, Len(seq))) = Len(seq) - i + 1
         /\ \A k \in 1..Len(seq) - i + 1 : SubSeq(seq, i, Len(seq))[k] = seq[i + k - 1]
<1>1. Len(seq) \in i - 1..Len(seq)  OBVIOUS
<1> QED  BY <1>1, PartOf

(* A part of a part.                                                       *)
LEMMA PartOfPart ==
  ASSUME NEW S, NEW seq \in Seq(S), NEW i \in 1..Len(seq) + 1, NEW j \in i - 1..Len(seq),
         NEW k \in 1..j - i + 2, NEW l \in k - 1..j - i + 1
  PROVE  SubSeq(SubSeq(seq, i, j), k, l) = SubSeq(seq, i + k - 1, i + l - 1)
<1> DEFINE part == SubSeq(seq, i, j)
           inner == SubSeq(part, k, l)
           direct == SubSeq(seq, i + k - 1, i + l - 1)
<1>1. part \in Seq(S) /\ Len(part) = j - i + 1
      /\ \A m \in 1..j - i + 1 : part[m] = seq[i + m - 1]  BY PartOf
<1>2. k \in 1..Len(part) + 1 /\ l \in k - 1..Len(part)  BY <1>1
<1> HIDE DEF part
<1>3. inner \in Seq(S) /\ Len(inner) = l - k + 1
      /\ \A m \in 1..l - k + 1 : inner[m] = part[k + m - 1]  BY <1>1, <1>2, PartOf
<1>4. i + k - 1 \in 1..Len(seq) + 1 /\ i + l - 1 \in (i + k - 1) - 1..Len(seq)
      /\ (i + l - 1) - (i + k - 1) + 1 = l - k + 1  OBVIOUS
<1>5. direct \in Seq(S) /\ Len(direct) = l - k + 1
      /\ \A m \in 1..l - k + 1 : direct[m] = seq[(i + k - 1) + m - 1]  BY <1>4, PartOf
<1> HIDE DEF inner, direct
<1>6. ASSUME NEW m \in 1..l - k + 1 PROVE inner[m] = direct[m]
  <2>1. k + m - 1 \in 1..j - i + 1 /\ i + (k + m - 1) - 1 = (i + k - 1) + m - 1  OBVIOUS
  <2> QED  BY <1>1, <1>3, <1>5, <2>1
<1>7. inner = direct  BY <1>3, <1>5, <1>6, SeqEqual
<1> QED  BY <1>7 DEF inner, direct, part

(* The start of a part.                                                    *)
LEMMA StartOfPart ==
  ASSUME NEW S, NEW seq \in Seq(S), NEW i \in 1..Len(seq) + 1, NEW j \in i - 1..Len(seq),
         NEW l \in 0..j - i + 1
  PROVE  SubSeq(SubSeq(seq, i, j), 1, l) = SubSeq(seq, i, i + l - 1)
<1>1. PICK k : k = 1  OBVIOUS
<1>2. k \in 1..j - i + 2 /\ l \in k - 1..j - i + 1 /\ i + k - 1 = i  BY <1>1
<1>3. SubSeq(SubSeq(seq, i, j), k, l) = SubSeq(seq, i + k - 1, i + l - 1)  BY <1>2, PartOfPart
<1> QED  BY <1>1, <1>2, <1>3

(* The whole of a sequence.                                                *)
LEMMA WholePart ==
  ASSUME NEW S, NEW s \in Seq(S)
  PROVE  SubSeq(s, 1, Len(s)) = s
<1>1. PICK o, l \in Nat : o = 1 /\ l = Len(s)  OBVIOUS
<1>2. o \in 1..Len(s) + 1 /\ Len(s) - o + 1 = l /\ \A k \in 1..l : o + k - 1 = k  BY <1>1
<1>3. PICK t : t = SubSeq(s, o, Len(s))  OBVIOUS
<1>4. /\ t \in Seq(S) /\ Len(t) = Len(s) - o + 1
      /\ \A k \in 1..Len(s) - o + 1 : t[k] = s[o + k - 1]
  BY <1>2, <1>3, EndOf, Zenon
<1>7. Len(t) = l /\ \A k \in 1..l : t[k] = s[o + k - 1]  BY <1>2, <1>4, Zenon
<1>5. Len(t) = Len(s) /\ \A k \in 1..Len(s) : t[k] = s[k]  BY <1>1, <1>2, <1>7
<1>6. t = s  BY <1>4, <1>5, SeqEqual
<1> QED  BY <1>1, <1>3, <1>6, Zenon

(* One more element of a start.                                            *)
LEMMA GrowsByOne ==
  ASSUME NEW S, NEW s \in Seq(S), NEW k \in 1..Len(s)
  PROVE  SubSeq(s, 1, k) = SubSeq(s, 1, k - 1) \o <<s[k]>>
<1>1. PICK l \in Nat, i \in Nat : l = Len(s) /\ i = 1  OBVIOUS
<1>2. PICK a, b, c :
        a = SubSeq(s, i, k) /\ b = SubSeq(s, i, k - 1) /\ c = <<s[k]>>
  OBVIOUS
<1>3. i \in 1..Len(s) + 1 /\ k \in i - 1..Len(s) /\ k - 1 \in i - 1..Len(s)  BY <1>1
<1>4. /\ a \in Seq(S) /\ Len(a) = k - i + 1 /\ \A m \in 1..k - i + 1 : a[m] = s[i + m - 1]
  BY <1>2, <1>3, PartOf, Zenon
<1>5. b \in Seq(S) /\ Len(b) = k - 1 - i + 1 /\ \A m \in 1..k - 1 - i + 1 : b[m] = s[i + m - 1]
  BY <1>2, <1>3, PartOf, Zenon
<1>6. Len(a) = k /\ \A m \in 1..k : a[m] = s[m]  BY <1>1, <1>4
<1>7. Len(b) = k - 1 /\ \A m \in 1..k - 1 : b[m] = s[m]  BY <1>1, <1>5
<1>8. c \in Seq(S) /\ Len(c) = 1 /\ c[1] = s[k]  BY <1>2
<1>9. PICK d : d = b \o c  OBVIOUS
<1>10. d \in Seq(S) /\ Len(d) = k /\ \A m \in 1..k : d[m] = s[m]
  <2>1. /\ b \o c \in Seq(S) /\ Len(b \o c) = Len(b) + Len(c)
        /\ \A m \in 1..Len(b) + Len(c) :
             (b \o c)[m] = IF m <= Len(b) THEN b[m] ELSE c[m - Len(b)]
    BY <1>5, <1>8, ConcatProperties
  <2>2. d \in Seq(S) /\ Len(d) = k
    <3>1. k - 1 + 1 = k  OBVIOUS
    <3> QED  BY <1>7, <1>8, <1>9, <2>1, <3>1, Zenon
  <2>3. ASSUME NEW m \in 1..k PROVE d[m] = s[m]
    <3>1. d[m] = IF m <= k - 1 THEN b[m] ELSE c[m - (k - 1)]
      <4>1. k - 1 + 1 = k  OBVIOUS
      <4> QED  BY <1>7, <1>8, <1>9, <2>1, <4>1, Zenon
    <3>2. CASE m <= k - 1  BY <1>7, <3>1, <3>2
    <3>3. CASE ~ (m <= k - 1)
      <4>1. m = k /\ m - (k - 1) = 1  BY <3>3
      <4> QED  BY <1>8, <3>1, <3>3, <4>1, Zenon
    <3> QED  BY <3>2, <3>3
  <2> QED  BY <2>2, <2>3
<1>11. a = d  BY <1>4, <1>6, <1>10, SeqEqual
<1> QED  BY <1>1, <1>2, <1>9, <1>11, Zenon

(* More at the end changes no part of what there was.                      *)
LEMMA PartOfConcat ==
  ASSUME NEW S, NEW s \in Seq(S), NEW t \in Seq(S),
         NEW i \in 1..Len(s) + 1, NEW j \in i - 1..Len(s)
  PROVE  SubSeq(s \o t, i, j) = SubSeq(s, i, j)
<1> DEFINE x == s \o t
           p == SubSeq(x, i, j)
           q == SubSeq(s, i, j)
<1>1. x \in Seq(S) /\ Len(x) = Len(s) + Len(t) /\ Len(t) \in Nat /\ Len(s) \in Nat
      /\ \A k \in 1..Len(s) : x[k] = s[k]  BY ConcatProperties
<1>2. i \in 1..Len(x) + 1 /\ j \in i - 1..Len(x)  BY <1>1
<1> HIDE DEF x
<1>3. p \in Seq(S) /\ Len(p) = j - i + 1 /\ \A k \in 1..j - i + 1 : p[k] = x[i + k - 1]
  BY <1>1, <1>2, PartOf
<1>4. q \in Seq(S) /\ Len(q) = j - i + 1 /\ \A k \in 1..j - i + 1 : q[k] = s[i + k - 1]
  BY PartOf
<1> HIDE DEF p, q
<1>5. ASSUME NEW k \in 1..j - i + 1 PROVE p[k] = q[k]
  <2>1. i + k - 1 \in 1..Len(s)  OBVIOUS
  <2> QED  BY <1>1, <1>3, <1>4, <2>1
<1>6. p = q  BY <1>3, <1>4, <1>5, SeqEqual
<1> QED  BY <1>6 DEF p, q, x

(* The end of two sequences put together.                                  *)
LEMMA EndOfConcat ==
  ASSUME NEW S, NEW s \in Seq(S), NEW t \in Seq(S), NEW i \in 1..Len(s) + 1
  PROVE  SubSeq(s \o t, i, Len(s \o t)) = SubSeq(s, i, Len(s)) \o t
<1> DEFINE x == s \o t
           y == SubSeq(s, i, Len(s))
           n == Len(s)
           m == Len(t)
           e == SubSeq(x, i, Len(x))
<1>1. x \in Seq(S) /\ Len(x) = n + m /\ n \in Nat /\ m \in Nat
  BY ConcatProperties
<1>2. \A k \in 1..n + m : x[k] = IF k <= n THEN s[k] ELSE t[k - n]
  BY ConcatProperties
<1>3. y \in Seq(S) /\ Len(y) = n - i + 1 /\ \A k \in 1..n - i + 1 : y[k] = s[i + k - 1]
  BY EndOf
<1>4. i \in 1..Len(x) + 1  BY <1>1
<1>5. e \in Seq(S) /\ Len(e) = n + m - i + 1 /\ \A k \in 1..n + m - i + 1 : e[k] = x[i + k - 1]
  BY <1>1, <1>4, EndOf
<1>6. y \o t \in Seq(S) /\ Len(y \o t) = Len(y) + m
      /\ \A k \in 1..Len(y) + m : (y \o t)[k] = IF k <= Len(y) THEN y[k] ELSE t[k - Len(y)]
  BY <1>3, ConcatProperties
<1> HIDE DEF x, y, n, m, e
<1>7. Len(y) + m = n + m - i + 1  BY <1>1, <1>3
<1>8. ASSUME NEW k \in 1..n + m - i + 1 PROVE e[k] = (y \o t)[k]
  <2>1. e[k] = x[i + k - 1] /\ i + k - 1 \in 1..n + m  BY <1>1, <1>5
  <2>2. CASE k <= n - i + 1
    <3>1. i + k - 1 <= n /\ k \in 1..n - i + 1  BY <1>1, <2>2
    <3>2. e[k] = s[i + k - 1] /\ y[k] = s[i + k - 1]  BY <1>2, <1>3, <2>1, <3>1
    <3> QED  BY <1>3, <1>6, <1>7, <2>2, <3>2
  <2>3. CASE ~ (k <= n - i + 1)
    <3>1. ~ (i + k - 1 <= n) /\ (i + k - 1) - n = k - (n - i + 1)  BY <1>1, <2>3
    <3>2. e[k] = t[k - (n - i + 1)]  BY <1>2, <2>1, <3>1
    <3> QED  BY <1>3, <1>6, <1>7, <2>3, <3>2
  <2> QED  BY <2>2, <2>3
<1>9. e = y \o t  BY <1>5, <1>6, <1>7, <1>8, SeqEqual
<1> QED  BY <1>9 DEF e, y, x, n

(* Dropping more of two equal ends.                                        *)
LEMMA EndOfEnd ==
  ASSUME NEW S, NEW s \in Seq(S), NEW i \in 0..Len(s), NEW k \in 0..Len(s) - i
  PROVE  SubSeq(SubSeq(s, i + 1, Len(s)), k + 1, Len(s) - i) = SubSeq(s, i + k + 1, Len(s))
<1>1. /\ i + 1 \in 1..Len(s) + 1 /\ Len(s) \in (i + 1) - 1..Len(s)
      /\ k + 1 \in 1..Len(s) - (i + 1) + 2
      /\ Len(s) - i \in (k + 1) - 1..Len(s) - (i + 1) + 1
      /\ (i + 1) + (k + 1) - 1 = i + k + 1 /\ (i + 1) + (Len(s) - i) - 1 = Len(s)
  OBVIOUS
<1>2. SubSeq(SubSeq(s, i + 1, Len(s)), k + 1, Len(s) - i)
        = SubSeq(s, (i + 1) + (k + 1) - 1, (i + 1) + (Len(s) - i) - 1)
  BY <1>1, PartOfPart
<1> QED  BY <1>1, <1>2

(* Appending to the second of two sequences put together.                  *)
AppendsLast(s, t, c) == Append(s \o t, c) = s \o Append(t, c)

(* It appends to the whole.                                                *)
LEMMA AppendConcat ==
  ASSUME NEW S, NEW s \in Seq(S), NEW t \in Seq(S), NEW c \in S
  PROVE  AppendsLast(s, t, c)
<1>1. PICK d : d = <<c>>  OBVIOUS
<1>2. d \in Seq(S) /\ s \o t \in Seq(S)  BY <1>1
<1>3. Append(s \o t, c) = (s \o t) \o d  BY <1>1, <1>2, AppendIsConcat
<1>4. Append(t, c) = t \o d  BY <1>1, AppendIsConcat
<1>5. (s \o t) \o d = s \o (t \o d)  BY <1>2, ConcatAssociative
<1> QED  BY <1>3, <1>4, <1>5 DEF AppendsLast

(* Putting sequences together associates; named, because the provers lose  *)
(* the equation itself among the parts of its sequences.                   *)
Associates(s, t, u) == (s \o t) \o u = s \o (t \o u)

(* It does for all sequences.                                              *)
LEMMA ConcatAssociates ==
  ASSUME NEW S, NEW s \in Seq(S), NEW t \in Seq(S), NEW u \in Seq(S)
  PROVE  Associates(s, t, u)
BY ConcatAssociative DEF Associates

-----------------------------------------------------------------------------
(* Sequences put together.                                                 *)

(* FlattenSeq, sequence by sequence.                                       *)
LEMMA FlattenDef ==
  ASSUME NEW S, NEW seqs \in Seq(Seq(S))
  PROVE  \E f \in [0..Len(seqs) -> Seq(S)] :
           /\ f[0] = <<>>
           /\ \A k \in 1..Len(seqs) : f[k] = f[k - 1] \o seqs[k]
           /\ FlattenSeq(seqs) = f[Len(seqs)]
<1> DEFINE n == Len(seqs)
           step == [sk \in Seq(S) \X (1..n) |-> sk[1] \o seqs[sk[2]]]
           Sat(f) == f = [i \in 1..n |-> IF i = 1 THEN seqs[i] ELSE f[i - 1] \o seqs[i]]
<1>1. n \in Nat /\ <<>> \in Seq(S) /\ \A k \in 1..n : seqs[k] \in Seq(S)  OBVIOUS
<1>2. step \in [Seq(S) \X (1..n) -> Seq(S)]
  <2>1. ASSUME NEW s \in Seq(S), NEW k \in 1..n PROVE s \o seqs[k] \in Seq(S)  BY <1>1
  <2> QED  BY <2>1
<1>3. \A s \in Seq(S), k \in 1..n : step[<<s, k>>] = s \o seqs[k]  OBVIOUS
<1> HIDE DEF step
<1>4. PICK f \in [0..n -> Seq(S)] :
        f[0] = <<>> /\ \A k \in 1..n : f[k] = step[<<f[k - 1], k>>]
  <2> DEFINE Q == Seq(S)
             e == <<>>
  <2> HIDE DEF Q, e, n
  <2>1. n \in Nat /\ e \in Q /\ step \in [Q \X (1..n) -> Q]  BY <1>1, <1>2 DEF Q, e
  <2>2. \E f \in [0..n -> Q] : Steps(n, e, step, f)  BY <2>1, StepRecursion
  <2> QED  BY <2>2 DEF Q, e, Steps
<1>5. \A k \in 1..n : f[k] = f[k - 1] \o seqs[k]
  <2>1. \A k \in 1..n : k - 1 \in 0..n  OBVIOUS
  <2> QED  BY <1>3, <1>4, <2>1
<1>6. CASE n = 0
  <2>1. seqs = <<>>  BY <1>6
  <2>2. FlattenSeq(seqs) = f[n]  BY <1>4, <1>6, <2>1 DEF FlattenSeq
  <2> QED  BY <1>4, <1>5, <2>2
<1>7. CASE n # 0
  <2> DEFINE g == [i \in 1..n |-> f[i]]
  <2>1. f[1] = seqs[1]
    <3>1. 1 \in 1..n /\ 1 - 1 = 0  BY <1>1, <1>7
    <3>2. f[1] = <<>> \o seqs[1] /\ seqs[1] \in Seq(S)  BY <1>1, <1>4, <1>5, <3>1
    <3> QED  BY <3>2
  <2>2. Sat(g)
    <3>1. \A i \in 1..n : i # 1 => i - 1 \in 1..n /\ g[i - 1] = f[i - 1]  BY <1>1
    <3>2. \A i \in 1..n : g[i] = IF i = 1 THEN seqs[i] ELSE g[i - 1] \o seqs[i]
      BY <1>5, <2>1, <3>1
    <3> QED  BY <3>2
  <2> DEFINE u == CHOOSE h : Sat(h)
  <2>3. FlattenSeq(seqs) = u[n]  BY <1>7 DEF FlattenSeq
  <2>4. Sat(u)
    <3> HIDE DEF Sat, g
    <3> QED  BY <2>2
  <2>5. \A i \in 1..n : u[i] = IF i = 1 THEN seqs[i] ELSE u[i - 1] \o seqs[i]
    BY <2>4
  <2> HIDE DEF u, Sat, g
  <2> DEFINE T == {i \in Nat : i \in 1..n => u[i] = f[i]}
  <2>6. 0 \in T  OBVIOUS
  <2>7. ASSUME NEW i \in Nat, i \in T PROVE i + 1 \in T
    <3> SUFFICES ASSUME i + 1 \in 1..n PROVE u[i + 1] = f[i + 1]  OBVIOUS
    <3>1. CASE i = 0  BY <2>1, <2>5, <3>1
    <3>2. CASE i # 0
      <4>1. i \in 1..n /\ (i + 1) - 1 = i /\ i + 1 # 1  BY <1>1, <3>2
      <4>2. u[i] = f[i]  BY <2>7, <4>1
      <4>3. f[i + 1] = f[i] \o seqs[i + 1]  BY <1>5, <4>1
      <4>4. u[i + 1] = u[i] \o seqs[i + 1]  BY <2>5, <4>1
      <4> QED  BY <4>2, <4>3, <4>4
    <3> QED  BY <3>1, <3>2
  <2>8. \A i \in Nat : i \in T
    <3> HIDE DEF T
    <3> QED  BY <2>6, <2>7, NumberInduction
  <2>9. n \in Nat /\ n \in 1..n  BY <1>1, <1>7
  <2>10. u[n] = f[n]  BY <2>8, <2>9
  <2> QED  BY <1>4, <1>5, <2>3, <2>10
<1> QED  BY <1>6, <1>7

(* A set of texts that is closed under putting together has the texts      *)
(* flattened from its members.                                             *)
LEMMA FlattenIn ==
  ASSUME NEW S, NEW T \in SUBSET Seq(S), <<>> \in T, \A s, t \in T : s \o t \in T,
         NEW seqs \in Seq(T)
  PROVE  FlattenSeq(seqs) \in T
<1>1. PICK n \in Nat : n = Len(seqs)  OBVIOUS
<1>2. seqs \in Seq(Seq(S)) /\ \A k \in 1..n : seqs[k] \in T  BY <1>1
<1>3. PICK f \in [0..n -> Seq(S)] :
        /\ f[0] = <<>>
        /\ \A k \in 1..n : f[k] = f[k - 1] \o seqs[k]
        /\ FlattenSeq(seqs) = f[n]
  BY <1>1, <1>2, FlattenDef
<1> DEFINE N == {k \in Nat : k \in 0..n => f[k] \in T}
<1>4. 0 \in N  BY <1>3
<1>5. ASSUME NEW k \in Nat, k \in N PROVE k + 1 \in N
  <2> SUFFICES ASSUME k + 1 \in 0..n PROVE f[k + 1] \in T  OBVIOUS
  <2>1. k \in 0..n /\ k + 1 \in 1..n /\ (k + 1) - 1 = k  OBVIOUS
  <2>2. f[k] \in T /\ seqs[k + 1] \in T  BY <1>2, <1>5, <2>1
  <2>3. f[k + 1] = f[k] \o seqs[k + 1]  BY <1>3, <2>1
  <2> QED  BY <2>2, <2>3
<1>6. \A k \in Nat : k \in N
  <2> HIDE DEF N
  <2> QED  BY <1>4, <1>5, NumberInduction
<1>7. f[n] \in T  BY <1>6
<1> QED  BY <1>3, <1>7

(* The texts of the first pieces.                                          *)
JoinsPieces(f, n, S, seqs) ==
  /\ f \in [0..n -> Seq(S)]
  /\ f[0] = <<>>
  /\ \A k \in 1..n : f[k] = f[k - 1] \o seqs[k]

(* The pieces, each a sequence.                                            *)
Pieces(seqs, n, S) == seqs \in Seq(Seq(S)) /\ Len(seqs) = n

LEMMA FlattenJoins ==
  ASSUME NEW S, NEW n \in Nat, NEW seqs, Pieces(seqs, n, S)
  PROVE  \E f : JoinsPieces(f, n, S, seqs) /\ FlattenSeq(seqs) = f[n]
<1>1. seqs \in Seq(Seq(S)) /\ Len(seqs) = n  BY DEF Pieces
<1>2. PICK f \in [0..Len(seqs) -> Seq(S)] :
        /\ f[0] = <<>>
        /\ \A k \in 1..Len(seqs) : f[k] = f[k - 1] \o seqs[k]
        /\ FlattenSeq(seqs) = f[Len(seqs)]
  BY <1>1, FlattenDef
<1>3. JoinsPieces(f, n, S, seqs) /\ FlattenSeq(seqs) = f[n]  BY <1>1, <1>2, Zenon DEF JoinsPieces
<1> QED  BY <1>3

(* Pieces without a character add nothing.                                 *)
Silent(seqs, n, i, j) == \A k \in 1..n : i < k /\ k <= j => seqs[k] = <<>>

LEMMA JoinsNothing ==
  ASSUME NEW S, NEW n \in Nat, NEW seqs, NEW f, JoinsPieces(f, n, S, seqs),
         NEW i \in 0..n, NEW j \in i..n, Silent(seqs, n, i, j)
  PROVE  f[j] = f[i]
<1>1. f \in [0..n -> Seq(S)] /\ \A k \in 1..n : f[k] = f[k - 1] \o seqs[k]
  BY Zenon DEF JoinsPieces
<1> DEFINE T == {k \in 0..n : i <= k /\ k <= j => f[k] = f[i]}
<1>2. 0 \in T
  <2>1. i <= 0 => i = 0  OBVIOUS
  <2> QED  BY <2>1
<1>3. ASSUME NEW k \in 1..n, k - 1 \in T PROVE k \in T
  <2>1. k \in 0..n /\ k - 1 \in 0..n  OBVIOUS
  <2>2. CASE i <= k /\ k <= j /\ i # k
    <3>1. i <= k - 1 /\ k - 1 <= j /\ i < k  BY <2>2
    <3>2. f[k - 1] = f[i]  BY <1>3, <3>1
    <3>3. seqs[k] = <<>>  BY <2>2, <3>1 DEF Silent
    <3>4. PICK s \in Seq(S) : s = f[i]  BY <1>1
    <3>5. s \o <<>> = s  BY ConcatEmptySeq
    <3>6. f[k] = f[i]  BY <1>1, <3>2, <3>3, <3>4, <3>5, Zenon
    <3> QED  BY <2>1, <3>6
  <2>3. CASE ~ (i <= k /\ k <= j /\ i # k)  BY <2>1, <2>3
  <2> QED  BY <2>2, <2>3
<1>4. \A k \in 0..n : k \in T
  <2> HIDE DEF T
  <2> QED  BY <1>2, <1>3, UpwardInduction
<1>5. j \in 0..n /\ i <= j /\ j <= j  OBVIOUS
<1> QED  BY <1>4, <1>5

(* Pieces of one character each are the text.                              *)
Letters(seqs, n, text, j) == \A k \in 1..n : k <= j => seqs[k] = <<text[k]>>

LEMMA JoinsText ==
  ASSUME NEW S, NEW n \in Nat, NEW seqs, NEW f, JoinsPieces(f, n, S, seqs),
         NEW text \in Seq(S), NEW j \in 0..n, j <= Len(text),
         Letters(seqs, n, text, j)
  PROVE  \A k \in 0..j : f[k] = SubSeq(text, 1, k)
<1>1. f[0] = <<>> /\ \A k \in 1..n : f[k] = f[k - 1] \o seqs[k]
  BY Zenon DEF JoinsPieces
<1> DEFINE T == {k \in 0..j : f[k] = SubSeq(text, 1, k)}
<1>2. 0 \in T
  <2>1. SubSeq(text, 1, 0) = <<>>
    <3>1. PICK i, m : i = 1 /\ m = 0  OBVIOUS
    <3>2. i \in 1..Len(text) + 1 /\ m \in i - 1..Len(text) /\ m - i + 1 = 0
      BY <3>1
    <3>3. PICK t : t = SubSeq(text, i, m)  OBVIOUS
    <3>4. t \in Seq(S) /\ Len(t) = m - i + 1  BY <3>2, <3>3, PartOf, Zenon
    <3>5. t = <<>>  BY <3>2, <3>4
    <3> QED  BY <3>1, <3>3, <3>5, Zenon
  <2>2. 0 \in 0..j  OBVIOUS
  <2> QED  BY <1>1, <2>1, <2>2, Zenon
<1>3. ASSUME NEW k \in 1..j, k - 1 \in T PROVE k \in T
  <2>1. k \in 1..n /\ k <= j /\ k \in 1..Len(text) /\ k \in 0..j  OBVIOUS
  <2>2. SubSeq(text, 1, k) = SubSeq(text, 1, k - 1) \o <<text[k]>>  BY <2>1, GrowsByOne
  <2>3. f[k] = SubSeq(text, 1, k)
    <3>1. f[k - 1] = SubSeq(text, 1, k - 1)  BY <1>3
    <3>2. seqs[k] = <<text[k]>>  BY <2>1, Zenon DEF Letters
    <3> QED  BY <1>1, <2>1, <2>2, <3>1, <3>2, Zenon
  <2> QED  BY <2>1, <2>3, Zenon
<1>4. \A k \in 0..j : k \in T
  <2> HIDE DEF T
  <2>1. j \in Nat  OBVIOUS
  <2> QED  BY <1>2, <1>3, <2>1, UpwardInduction
<1> QED  BY <1>4

(* What follows is the same after two starts.                              *)
SameAfter(f, g, x, y, h, k) == f[k] = x \o h /\ g[k] = y \o h

LEMMA JoinsAlike ==
  ASSUME NEW S, NEW n \in Nat, NEW a, NEW f, JoinsPieces(f, n, S, a), Pieces(a, n, S),
         NEW b, NEW g, JoinsPieces(g, n, S, b),
         NEW x \in Seq(S), NEW y \in Seq(S), NEW i \in 0..n,
         NEW h \in Seq(S), SameAfter(f, g, x, y, h, i),
         \A k \in 1..n : i < k => b[k] = a[k]
  PROVE  \E r \in Seq(S) : SameAfter(f, g, x, y, r, n)
<1>1. \A k \in 1..n : f[k] = f[k - 1] \o a[k]  BY Zenon DEF JoinsPieces
<1>2. \A k \in 1..n : g[k] = g[k - 1] \o b[k]  BY Zenon DEF JoinsPieces
<1>3. \A k \in 1..n : a[k] \in Seq(S)  BY DEF Pieces
<1> DEFINE T == {k \in 0..n : i <= k => \E r \in Seq(S) : SameAfter(f, g, x, y, r, k)}
<1>4. 0 \in T
  <2>1. i <= 0 => i = 0  OBVIOUS
  <2>2. 0 \in 0..n  OBVIOUS
  <2> QED  BY <2>1, <2>2
<1>5. ASSUME NEW k \in 1..n, k - 1 \in T PROVE k \in T
  <2>1. k \in 0..n /\ k - 1 \in 0..n  OBVIOUS
  <2>2. CASE i < k
    <3>1. i <= k - 1  BY <2>2
    <3>2. PICK r \in Seq(S) : SameAfter(f, g, x, y, r, k - 1)  BY <1>5, <3>1
    <3>3. PICK c \in Seq(S) : c = a[k]  BY <1>3
    <3>4. f[k - 1] = x \o r /\ g[k - 1] = y \o r  BY <3>2, Zenon DEF SameAfter
    <3>5. f[k] = (x \o r) \o c /\ g[k] = (y \o r) \o c
      BY <1>1, <1>2, <2>2, <3>3, <3>4, Zenon
    <3>6. Associates(x, r, c) /\ Associates(y, r, c)  BY ConcatAssociates
    <3>7. f[k] = x \o (r \o c) /\ g[k] = y \o (r \o c)
      BY <3>5, <3>6, Zenon DEF Associates
    <3>8. r \o c \in Seq(S)  OBVIOUS
    <3>9. \E q \in Seq(S) : SameAfter(f, g, x, y, q, k)  BY <3>7, <3>8, Zenon DEF SameAfter
    <3> QED  BY <2>1, <3>9, Zenon
  <2>3. CASE i = k  BY <2>1, <2>3
  <2>4. CASE ~ (i <= k)  BY <2>1, <2>4
  <2> QED  BY <2>2, <2>3, <2>4
<1>6. \A k \in 0..n : k \in T
  <2> HIDE DEF T
  <2> QED  BY <1>4, <1>5, UpwardInduction
<1>7. n \in 0..n /\ i <= n  OBVIOUS
<1> QED  BY <1>6, <1>7

-----------------------------------------------------------------------------
(* Sorting and filtering.                                                  *)

(* A relation that orders a set.                                           *)
Orders(order, S) ==
  /\ \A x \in S : <<x, x>> \in order
  /\ \A x, y \in S : <<x, y>> \in order \/ <<y, x>> \in order
  /\ \A x, y \in S : <<x, y>> \in order /\ <<y, x>> \in order => x = y
  /\ \A x, y, z \in S : <<x, y>> \in order /\ <<y, z>> \in order => <<x, z>> \in order

(* A list of each element of a set, in an order.                           *)
Lists(f, S, order) ==
  /\ Cardinality(S) \in Nat
  /\ f \in [1..Cardinality(S) -> S]
  /\ \A x \in S : \E k \in 1..Cardinality(S) : f[k] = x
  /\ \A j, k \in 1..Cardinality(S) : j < k => f[j] # f[k] /\ <<f[j], f[k]>> \in order

(* A finite set is listed in any order.                                    *)
LEMMA ListedLists ==
  ASSUME NEW S, IsFiniteSet(S), NEW order, Orders(order, S)
  PROVE  Lists(Listed(S, order), S, order)
<1> DEFINE UpTo(x) == {y \in S : <<y, x>> \in order}
           rank == [x \in S |-> Cardinality(UpTo(x))]
<1>1. PICK n \in Nat : n = Cardinality(S)  BY FS_CardinalityType
<1>2. ASSUME NEW x \in S PROVE IsFiniteSet(UpTo(x)) /\ x \in UpTo(x) /\ rank[x] \in 1..n
  <2>1. UpTo(x) \in SUBSET S /\ x \in UpTo(x)  BY DEF Orders
  <2>2. IsFiniteSet(UpTo(x)) /\ Cardinality(UpTo(x)) <= n  BY <1>1, <2>1, FS_Subset
  <2>3. Cardinality(UpTo(x)) \in Nat /\ Cardinality(UpTo(x)) # 0
    BY <2>1, <2>2, FS_CardinalityType, FS_EmptySet
  <2> QED  BY <2>1, <2>2, <2>3
<1>12. \A x \in S : rank[x] \in Nat
  <2>1. \A k \in 1..n : k \in Nat  BY <1>1
  <2> HIDE DEF rank
  <2> QED  BY <1>2, <2>1
<1>3. ASSUME NEW x \in S, NEW y \in S, x # y, <<x, y>> \in order
      PROVE  rank[x] < rank[y]
  <2>1. UpTo(x) \in SUBSET UpTo(y) /\ y \in UpTo(y) /\ y \notin UpTo(x)
    BY <1>3 DEF Orders
  <2>2. Cardinality(UpTo(x)) <= Cardinality(UpTo(y)) /\ Cardinality(UpTo(x)) # Cardinality(UpTo(y))
    BY <1>2, <2>1, FS_Subset
  <2>3. rank[x] = Cardinality(UpTo(x)) /\ rank[y] = Cardinality(UpTo(y))  OBVIOUS
  <2> HIDE DEF rank
  <2>4. rank[x] \in Nat /\ rank[y] \in Nat  BY <1>12
  <2>5. rank[x] <= rank[y] /\ rank[x] # rank[y]  BY <2>2, <2>3, Zenon
  <2> QED  BY <2>4, <2>5
<1>4. ASSUME NEW x \in S, NEW y \in S, rank[x] = rank[y] PROVE x = y
  <2> SUFFICES ASSUME x # y PROVE FALSE  OBVIOUS
  <2> HIDE DEF rank
  <2>1. rank[x] \in Nat /\ rank[y] \in Nat  BY <1>12
  <2>2. CASE <<x, y>> \in order  BY <1>3, <1>4, <2>1, <2>2
  <2>3. CASE <<y, x>> \in order  BY <1>3, <1>4, <2>1, <2>3
  <2> QED  BY <2>2, <2>3 DEF Orders
<1>5. \A k \in 1..n : \E x \in S : rank[x] = k
  <2>1. rank \in [S -> 1..n]  BY <1>2
  <2>2. rank \in Injection(S, 1..n)  BY <1>4, <2>1 DEF Injection, IsInjective
  <2>3. IsFiniteSet(1..n) /\ Cardinality(1..n) = n
    <3>1. n \in Int /\ 1 \in Int  OBVIOUS
    <3>2. IsFiniteSet(1..n) /\ Cardinality(1..n) = IF 1 > n THEN 0 ELSE n - 1 + 1
      BY <3>1, FS_Interval
    <3> QED  BY <3>2
  <2>4. rank \in Surjection(S, 1..n)  BY <1>1, <2>2, <2>3, FS_Injection
  <2> QED  BY <2>4 DEF Surjection
<1>6. PICK f : f = Listed(S, order)  OBVIOUS
<1>7. f = [k \in 1..n |-> CHOOSE x \in S : Cardinality(UpTo(x)) = k]
  BY <1>1, <1>6, Zenon DEF Listed
<1>8. ASSUME NEW k \in 1..n PROVE f[k] \in S /\ rank[f[k]] = k
  <2>1. \E x \in S : Cardinality(UpTo(x)) = k  BY <1>5
  <2>2. f[k] = CHOOSE x \in S : Cardinality(UpTo(x)) = k  BY <1>7, Zenon
  <2>3. f[k] \in S /\ Cardinality(UpTo(f[k])) = k  BY <2>1, <2>2, Zenon
  <2> QED  BY <2>3
<1> HIDE DEF rank
<1>9. f \in [1..n -> S]
  <2>1. \A k \in 1..n : (CHOOSE x \in S : Cardinality(UpTo(x)) = k) \in S
    BY <1>7, <1>8, Zenon
  <2> QED  BY <1>7, <2>1, Zenon
<1>10. ASSUME NEW x \in S PROVE \E k \in 1..n : f[k] = x
  <2>1. rank[x] \in 1..n  BY <1>2
  <2> QED  BY <1>4, <1>8, <2>1
<1>11. ASSUME NEW j \in 1..n, NEW k \in 1..n, j < k
       PROVE  f[j] # f[k] /\ <<f[j], f[k]>> \in order
  <2>1. f[j] \in S /\ f[k] \in S /\ rank[f[j]] = j /\ rank[f[k]] = k  BY <1>8
  <2>2. f[j] # f[k]  BY <1>11, <2>1
  <2>3. <<f[k], f[j]>> \notin order  BY <1>3, <1>11, <2>1, <2>2
  <2> QED  BY <2>1, <2>2, <2>3 DEF Orders
<1> QED  BY <1>1, <1>6, <1>9, <1>10, <1>11 DEF Lists

(* A list of numbers, each once, from the least to the greatest.           *)
Ascends(f, S) ==
  /\ Cardinality(S) \in Nat
  /\ f \in [1..Cardinality(S) -> S]
  /\ \A x \in S : \E k \in 1..Cardinality(S) : f[k] = x
  /\ \A j, k \in 1..Cardinality(S) : j < k => f[j] < f[k]

(* Ascending is one.                                                       *)
LEMMA AscendingAscends ==
  ASSUME NEW S \in SUBSET Nat, IsFiniteSet(S)
  PROVE  Ascends(Ascending(S), S)
<1> DEFINE order == {p \in S \X S : p[1] <= p[2]}
<1>1. \A x, y \in S : <<x, y>> \in order <=> x <= y  OBVIOUS
<1> HIDE DEF order
<1>2. Orders(order, S)  BY <1>1 DEF Orders
<1>3. PICK f : f = Listed(S, order)  OBVIOUS
<1>4. Lists(f, S, order)  BY <1>2, <1>3, ListedLists
<1>5. ASSUME NEW j \in 1..Cardinality(S), NEW k \in 1..Cardinality(S), j < k
      PROVE  f[j] < f[k]
  <2>1. f[j] \in S /\ f[k] \in S /\ f[j] # f[k] /\ <<f[j], f[k]>> \in order
    BY <1>4, <1>5 DEF Lists
  <2>2. PICK a, b : a = f[j] /\ b = f[k]  OBVIOUS
  <2>3. a \in S /\ b \in S /\ a # b /\ <<a, b>> \in order  BY <2>1, <2>2, Zenon
  <2>4. a < b  BY <1>1, <2>3
  <2> QED  BY <2>2, <2>4
<1>6. f = Ascending(S)  BY <1>3 DEF Ascending, order
<1>7. Ascends(f, S)  BY <1>4, <1>5, Zenon DEF Ascends, Lists
<1> QED  BY <1>6, <1>7

(* What is picked from a sequence is a sequence of what is at the places.  *)
LEMMA PickedFrom ==
  ASSUME NEW T, NEW s \in Seq(T), NEW places \in SUBSET (1..Len(s))
  PROVE  \E f : /\ Ascends(f, places)
                /\ Picked(s, places) \in Seq(T)
                /\ Len(Picked(s, places)) = Cardinality(places)
                /\ \A k \in 1..Cardinality(places) : Picked(s, places)[k] = s[f[k]]
<1>1. places \in SUBSET Nat /\ IsFiniteSet(places)
  <2>1. Len(s) \in Int /\ 1 \in Int  OBVIOUS
  <2>2. IsFiniteSet(1..Len(s))  BY <2>1, FS_Interval
  <2>3. IsFiniteSet(places)  BY <2>2, FS_Subset
  <2> QED  BY <2>1, <2>3
<1>2. PICK f : f = Ascending(places)  OBVIOUS
<1>3. Ascends(f, places)  BY <1>1, <1>2, AscendingAscends
<1>4. PICK n \in Nat : n = Cardinality(places)  BY <1>3 DEF Ascends
<1>5. f \in [1..n -> places]  BY <1>3, <1>4 DEF Ascends
<1>6. PICK p : p = Picked(s, places)  OBVIOUS
<1>7. p = [k \in 1..n |-> s[f[k]]]  BY <1>2, <1>5, <1>6 DEF Picked
<1>8. \A k \in 1..n : s[f[k]] \in T
  <2>1. \A i \in places : s[i] \in T  OBVIOUS
  <2> QED  BY <1>5, <2>1, Zenon
<1>9. p \in Seq(T) /\ Len(p) = n  BY <1>7, <1>8
<1>10. \A k \in 1..n : p[k] = s[f[k]]  BY <1>7
<1> QED  BY <1>3, <1>4, <1>6, <1>9, <1>10, Zenon

(* A rearrangement of the places of a sequence, sorted by their keys.      *)
Sorts(f, n, key) ==
  /\ f \in [1..n -> 1..n]
  /\ \A i \in 1..n : \E k \in 1..n : f[k] = i
  /\ \A j, k \in 1..n : j < k =>
       f[j] # f[k] /\ (key[f[j]] < key[f[k]] \/ (key[f[j]] = key[f[k]] /\ f[j] < f[k]))

(* Sorting by numbers is one.                                              *)
LEMMA StableSortedBy ==
  ASSUME NEW T, NEW s \in Seq(T), NEW key \in [1..Len(s) -> Nat]
  PROVE  \E f : /\ Sorts(f, Len(s), key)
                /\ StableSorted(s, key) = [k \in 1..Len(s) |-> s[f[k]]]
                /\ StableSorted(s, key) \in Seq(T) /\ Len(StableSorted(s, key)) = Len(s)
<1>1. PICK n \in Nat : n = Len(s)  OBVIOUS
<1>2. IsFiniteSet(1..n) /\ Cardinality(1..n) = n
  <2>1. n \in Int /\ 1 \in Int  OBVIOUS
  <2>2. IsFiniteSet(1..n) /\ Cardinality(1..n) = IF 1 > n THEN 0 ELSE n - 1 + 1
    BY <2>1, FS_Interval
  <2> QED  BY <2>2
<1> DEFINE places == 1..n
           order == {p \in places \X places :
                       \/ key[p[1]] < key[p[2]]
                       \/ key[p[1]] = key[p[2]] /\ p[1] <= p[2]}
<1>3. \A i, j \in 1..n : <<i, j>> \in order
        <=> (key[i] < key[j] \/ (key[i] = key[j] /\ i <= j))
  OBVIOUS
<1>4. PICK f : f = Listed(places, order)  OBVIOUS
<1>5. StableSorted(s, key) = [k \in 1..n |-> s[f[k]]]
  <2>1. DOMAIN s = places  BY <1>1
  <2> QED  BY <1>4, <2>1, Zenon DEF StableSorted
<1> HIDE DEF order
<1>6. Orders(order, 1..n)
  <2>1. \A i \in 1..n : key[i] \in Nat  BY <1>1
  <2>2. \A i \in 1..n : <<i, i>> \in order  BY <1>3, <2>1
  <2>3. ASSUME NEW i \in 1..n, NEW j \in 1..n PROVE <<i, j>> \in order \/ <<j, i>> \in order
    <3>1. PICK a \in Nat, b \in Nat : a = key[i] /\ b = key[j]  BY <2>1
    <3>2. a < b \/ b < a \/ a = b  OBVIOUS
    <3>3. i <= j \/ j <= i  BY <1>1
    <3> QED  BY <1>3, <3>1, <3>2, <3>3
  <2>4. \A i, j \in 1..n : <<i, j>> \in order /\ <<j, i>> \in order => i = j
    BY <1>3, <2>1
  <2>5. ASSUME NEW i \in 1..n, NEW j \in 1..n, NEW k \in 1..n,
               <<i, j>> \in order, <<j, k>> \in order
        PROVE  <<i, k>> \in order
    <3>1. PICK a \in Nat, b \in Nat, c \in Nat : a = key[i] /\ b = key[j] /\ c = key[k]
      BY <2>1
    <3>2. /\ a < b \/ (a = b /\ i <= j)
          /\ b < c \/ (b = c /\ j <= k)
      BY <1>3, <2>5, <3>1
    <3>3. a < c \/ (a = c /\ i <= k)  BY <3>1, <3>2
    <3> QED  BY <1>3, <3>1, <3>3
  <2> QED  BY <2>2, <2>3, <2>4, <2>5, Zenon DEF Orders
<1>7. Lists(f, 1..n, order)  BY <1>2, <1>4, <1>6, ListedLists
<1>8. /\ f \in [1..n -> 1..n] /\ \A i \in 1..n : \E k \in 1..n : f[k] = i
      /\ \A j, k \in 1..n : j < k => f[j] # f[k] /\ <<f[j], f[k]>> \in order
  BY <1>2, <1>7, Zenon DEF Lists
<1>9. Sorts(f, n, key)
  <2>1. ASSUME NEW j \in 1..n, NEW k \in 1..n, j < k
        PROVE  f[j] # f[k] /\ (key[f[j]] < key[f[k]] \/ (key[f[j]] = key[f[k]] /\ f[j] < f[k]))
    <3>1. f[j] \in 1..n /\ f[k] \in 1..n /\ f[j] # f[k] /\ <<f[j], f[k]>> \in order
      BY <1>8, <2>1
    <3>2. PICK x \in 1..n, y \in 1..n : x = f[j] /\ y = f[k] /\ <<x, y>> \in order /\ x # y
      BY <3>1
    <3>3. key[x] < key[y] \/ (key[x] = key[y] /\ x <= y)  BY <1>3, <3>2
    <3>4. key[x] < key[y] \/ (key[x] = key[y] /\ x < y)  BY <3>2, <3>3
    <3> QED  BY <3>2, <3>4, Zenon
  <2> QED  BY <1>8, <2>1 DEF Sorts
<1>10. \A k \in 1..n : s[f[k]] \in T  BY <1>1, <1>8
<1>11. PICK t : t = [k \in 1..n |-> s[f[k]]]  OBVIOUS
<1>12. t \in Seq(T) /\ Len(t) = n  BY <1>10, <1>11
<1> QED  BY <1>1, <1>5, <1>9, <1>11, <1>12

(* Where each element of sequences put together comes from: the sequence   *)
(* and the place in it, each of the first k sequences in turn.             *)
Traced(flat, t, seqs, k, a, b) ==
  /\ a \in [1..t -> 1..k]
  /\ b \in [1..t -> Nat \ {0}]
  /\ \A i \in 1..t : b[i] <= Len(seqs[a[i]]) /\ flat[i] = seqs[a[i]][b[i]]
  /\ \A i, j \in 1..t : i < j => a[i] < a[j] \/ (a[i] = a[j] /\ b[i] < b[j])
  /\ \A h \in 1..k : \A m \in 1..Len(seqs[h]) : \E i \in 1..t : a[i] = h /\ b[i] = m

Origins(flat, seqs, k, a, b) == Traced(flat, Len(flat), seqs, k, a, b)

(* One more sequence.                                                      *)
LEMMA OriginsAdded ==
  ASSUME NEW S, NEW seqs \in Seq(Seq(S)), NEW k \in 1..Len(seqs), NEW flat \in Seq(S),
         NEW a, NEW b, Origins(flat, seqs, k - 1, a, b), NEW more, more = flat \o seqs[k]
  PROVE  \E c, d : Origins(more, seqs, k, c, d)
<1>1. PICK s \in Seq(S) : s = seqs[k]  OBVIOUS
<1>2. PICK m \in Nat, l \in Nat : m = Len(flat) /\ l = Len(s)  OBVIOUS
<1>3. /\ Len(more) = m + l
      /\ \A i \in 1..m : more[i] = flat[i]
      /\ \A i \in 1..m + l : i > m => more[i] = s[i - m]
  BY <1>1, <1>2
<1>4. /\ a \in [1..m -> 1..k - 1] /\ b \in [1..m -> Nat \ {0}]
      /\ \A i \in 1..m : b[i] <= Len(seqs[a[i]]) /\ flat[i] = seqs[a[i]][b[i]]
      /\ \A i, j \in 1..m : i < j => a[i] < a[j] \/ (a[i] = a[j] /\ b[i] < b[j])
      /\ \A h \in 1..k - 1 : \A n \in 1..Len(seqs[h]) : \E i \in 1..m : a[i] = h /\ b[i] = n
  <2>1. Traced(flat, m, seqs, k - 1, a, b)  BY <1>2, Zenon DEF Origins
  <2> QED  BY <2>1, Zenon DEF Traced
<1>5. PICK c, d : /\ c = [i \in 1..m + l |-> IF i <= m THEN a[i] ELSE k]
                  /\ d = [i \in 1..m + l |-> IF i <= m THEN b[i] ELSE i - m]
  OBVIOUS
<1>6. \A i \in 1..m : i \in 1..m + l /\ c[i] = a[i] /\ d[i] = b[i] /\ a[i] \in 1..k - 1
  BY <1>4, <1>5
<1>7. \A i \in 1..m + l : i > m => c[i] = k /\ d[i] = i - m /\ i - m \in 1..l
  BY <1>5
<1>8. \A i \in 1..m + l : i \in 1..m \/ i > m  OBVIOUS
<1>9. c \in [1..m + l -> 1..k] /\ d \in [1..m + l -> Nat \ {0}]
  <2>1. \A i \in 1..m + l : (IF i <= m THEN a[i] ELSE k) \in 1..k
    <3>1. \A i \in 1..m : a[i] \in 1..k  BY <1>4
    <3> QED  BY <3>1
  <2>2. \A i \in 1..m + l : (IF i <= m THEN b[i] ELSE i - m) \in Nat \ {0}
    <3>1. \A i \in 1..m : b[i] \in Nat \ {0}  BY <1>4
    <3> QED  BY <3>1
  <2> QED  BY <1>5, <2>1, <2>2
<1>10. ASSUME NEW i \in 1..m + l
       PROVE  d[i] <= Len(seqs[c[i]]) /\ more[i] = seqs[c[i]][d[i]]
  <2>1. CASE i \in 1..m
    <3>1. c[i] = a[i] /\ d[i] = b[i] /\ more[i] = flat[i]  BY <1>3, <1>6, <2>1, Zenon
    <3>2. b[i] <= Len(seqs[a[i]]) /\ flat[i] = seqs[a[i]][b[i]]  BY <1>4, <2>1, Zenon
    <3> QED  BY <3>1, <3>2, Zenon
  <2>2. CASE i > m
    <3>1. PICK r \in 1..l : r = i - m  BY <1>7, <2>2
    <3>2. c[i] = k /\ d[i] = r /\ more[i] = s[r]  BY <1>3, <1>7, <2>2, <3>1, Zenon
    <3>3. r <= Len(s)  BY <1>2, <3>1
    <3> QED  BY <1>1, <3>2, <3>3, Zenon
  <2> QED  BY <1>8, <2>1, <2>2
<1>11. ASSUME NEW i \in 1..m + l, NEW j \in 1..m + l, i < j
       PROVE  c[i] < c[j] \/ (c[i] = c[j] /\ d[i] < d[j])
  <2>1. CASE i \in 1..m /\ j \in 1..m
    <3>1. a[i] < a[j] \/ (a[i] = a[j] /\ b[i] < b[j])  BY <1>4, <1>11, <2>1
    <3>2. c[i] = a[i] /\ d[i] = b[i] /\ c[j] = a[j] /\ d[j] = b[j]  BY <1>6, <2>1
    <3> QED  BY <3>1, <3>2, Zenon
  <2>2. CASE i \in 1..m /\ j > m
    <3>1. PICK x \in 1..k - 1 : x = c[i]  BY <1>6, <2>2
    <3>2. c[j] = k  BY <1>7, <2>2
    <3> QED  BY <3>1, <3>2
  <2>3. CASE i > m
    <3>1. j > m  BY <1>11, <2>3
    <3> QED  BY <1>7, <1>11, <2>3, <3>1
  <2> QED  BY <1>8, <2>1, <2>2, <2>3
<1>12. ASSUME NEW h \in 1..k, NEW n \in 1..Len(seqs[h])
       PROVE  \E i \in 1..m + l : c[i] = h /\ d[i] = n
  <2>1. CASE h = k
    <3>1. n \in 1..l  BY <1>1, <1>2, <2>1
    <3>2. n + m \in 1..m + l /\ n + m > m /\ (n + m) - m = n  BY <3>1
    <3> QED  BY <1>7, <2>1, <3>2
  <2>2. CASE h # k
    <3>1. h \in 1..k - 1  BY <2>2
    <3>2. PICK i \in 1..m : a[i] = h /\ b[i] = n  BY <1>4, <3>1
    <3> QED  BY <1>6, <3>2
  <2> QED  BY <2>1, <2>2
<1>13. PICK t : t = m + l  OBVIOUS
<1>14. t = Len(more)  BY <1>3, <1>13
<1>15. Origins(more, seqs, k, c, d)
  <2>1. Traced(more, m + l, seqs, k, c, d)
    BY <1>9, <1>10, <1>11, <1>12, Zenon DEF Traced
  <2> QED  BY <1>13, <1>14, <2>1, Zenon DEF Origins
<1> QED  BY <1>15

(* All of them.                                                            *)
LEMMA FlattenOrigins ==
  ASSUME NEW S, NEW seqs \in Seq(Seq(S))
  PROVE  \E a, b : Origins(FlattenSeq(seqs), seqs, Len(seqs), a, b)
<1>1. PICK n \in Nat : n = Len(seqs)  OBVIOUS
<1>2. PICK f \in [0..n -> Seq(S)] :
        /\ f[0] = <<>>
        /\ \A k \in 1..n : f[k] = f[k - 1] \o seqs[k]
        /\ FlattenSeq(seqs) = f[n]
  BY <1>1, FlattenDef
<1> DEFINE T == {k \in 0..n : \E a, b : Origins(f[k], seqs, k, a, b)}
<1>3. 0 \in T
  <2>1. 0 \in 0..n  OBVIOUS
  <2>2. PICK e, a, b : e = <<>> /\ a = [i \in 1..0 |-> 1] /\ b = [i \in 1..0 |-> 1]
    OBVIOUS
  <2>3. Origins(e, seqs, 0, a, b)
    <3>1. Len(e) = 0 /\ \A i \in 1..0 : FALSE  BY <2>2
    <3>2. a \in [1..0 -> 1..0] /\ b \in [1..0 -> Nat \ {0}]  BY <2>2, <3>1, Zenon
    <3>3. Traced(e, 0, seqs, 0, a, b)  BY <3>1, <3>2, Zenon DEF Traced
    <3> QED  BY <3>1, <3>3, Zenon DEF Origins
  <2> QED  BY <1>2, <2>1, <2>2, <2>3
<1>4. ASSUME NEW k \in 1..n, k - 1 \in T PROVE k \in T
  <2>1. k - 1 \in 0..n /\ k \in 0..n  OBVIOUS
  <2>2. PICK flat \in Seq(S) : flat = f[k - 1]  BY <2>1
  <2>3. PICK a, b : Origins(flat, seqs, k - 1, a, b)  BY <1>4, <2>2
  <2>4. PICK more : more = f[k] /\ more = flat \o seqs[k]  BY <1>2, <2>2
  <2>5. \E c, d : Origins(more, seqs, k, c, d)  BY <1>1, <2>3, <2>4, OriginsAdded
  <2> QED  BY <2>1, <2>4, <2>5
<1>5. n \in T
  <2> HIDE DEF T
  <2>1. n \in 0..n  OBVIOUS
  <2> QED  BY <1>3, <1>4, <2>1, UpwardInduction
<1> QED  BY <1>1, <1>2, <1>5

(* The first m of a list are different.                                    *)
NoRepeats(f, m) == \A i, j \in 1..m : f[i] = f[j] => i = j

(* The first m of a list have them all.                                    *)
HasAll(f, m, P) == \A x \in P : \E r \in 1..m : f[r] = x

(* An injection of a range into one that is no longer reaches all of it.   *)
LEMMA FullRange ==
  ASSUME NEW m \in Nat, NEW n \in Nat, n <= m, NEW f \in [1..m -> 1..n], NoRepeats(f, m)
  PROVE  HasAll(f, m, 1..n)
<1>1. /\ IsFiniteSet(1..m) /\ Cardinality(1..m) = m
      /\ IsFiniteSet(1..n) /\ Cardinality(1..n) = n
  <2>1. m \in Int /\ n \in Int /\ 1 \in Int  OBVIOUS
  <2>2. /\ IsFiniteSet(1..m) /\ Cardinality(1..m) = IF 1 > m THEN 0 ELSE m - 1 + 1
        /\ IsFiniteSet(1..n) /\ Cardinality(1..n) = IF 1 > n THEN 0 ELSE n - 1 + 1
    BY <2>1, FS_Interval
  <2> QED  BY <2>2
<1>2. PICK A, B : A = 1..m /\ B = 1..n  OBVIOUS
<1>3. f \in Injection(A, B)  BY <1>2 DEF NoRepeats, Injection, IsInjective
<1>4. /\ Cardinality(A) <= Cardinality(B)
      /\ Cardinality(A) = Cardinality(B) <=> f \in Surjection(A, B)
  BY <1>1, <1>2, <1>3, FS_Injection
<1>5. m <= n  BY <1>1, <1>2, <1>4
<1>6. m = n  BY <1>5
<1>7. f \in Surjection(A, B)  BY <1>1, <1>2, <1>4, <1>6
<1> QED  BY <1>2, <1>7 DEF Surjection, HasAll

(* They are no more then.                                                  *)
LEMMA AtMost ==
  ASSUME NEW m \in Nat, NEW P, NEW f, HasAll(f, m, P)
  PROVE  IsFiniteSet(P) /\ Cardinality(P) \in Nat /\ Cardinality(P) <= m
<1>1. IsFiniteSet(1..m) /\ Cardinality(1..m) = m
  <2>1. m \in Int /\ 1 \in Int  OBVIOUS
  <2>2. IsFiniteSet(1..m) /\ Cardinality(1..m) = IF 1 > m THEN 0 ELSE m - 1 + 1
    BY <2>1, FS_Interval
  <2> QED  BY <2>2
<1>2. PICK A : A = 1..m  OBVIOUS
<1> DEFINE g == [x \in P |-> CHOOSE r \in A : f[r] = x]
<1>3. \A x \in P : g[x] \in A /\ f[g[x]] = x  BY <1>2, Zenon DEF HasAll
<1>4. g \in [P -> A]  BY <1>3, Zenon
<1> HIDE DEF g
<1>5. \A x, y \in P : g[x] = g[y] => x = y  BY <1>3, Zenon
<1>6. g \in Injection(P, A)  BY <1>4, <1>5 DEF Injection, IsInjective
<1>7. IsFiniteSet(A) /\ Cardinality(A) = m  BY <1>1, <1>2
<1>8. IsFiniteSet(P) /\ Cardinality(P) <= m  BY <1>6, <1>7, FS_Injection
<1>9. Cardinality(P) \in Nat  BY <1>8, FS_CardinalityType
<1> QED  BY <1>8, <1>9

(* At least as many as are named apart.                                    *)
LEMMA AtLeast ==
  ASSUME NEW m \in Nat, NEW Q, IsFiniteSet(Q), NEW f, \A r \in 1..m : f[r] \in Q,
         \A r, s \in 1..m : f[r] = f[s] => r = s
  PROVE  m <= Cardinality(Q)
<1>1. Cardinality(1..m) = m
  <2>1. m \in Int /\ 1 \in Int  OBVIOUS
  <2>2. Cardinality(1..m) = IF 1 > m THEN 0 ELSE m - 1 + 1  BY <2>1, FS_Interval
  <2> QED  BY <2>2
<1>2. PICK A, g : A = 1..m /\ g = [r \in A |-> f[r]]  OBVIOUS
<1>3. g \in [A -> Q] /\ \A r, s \in A : g[r] = g[s] => r = s  BY <1>2
<1>4. g \in Injection(A, Q)  BY <1>3 DEF Injection, IsInjective
<1>5. Cardinality(A) <= Cardinality(Q)  BY <1>4, FS_Injection
<1> QED  BY <1>1, <1>2, <1>5

(* The largest of some numbers.                                            *)
LEMMA LargestIn ==
  ASSUME NEW m \in Nat, NEW S \in SUBSET (1..m), S # {}
  PROVE  \E x \in S : \A y \in S : y <= x
<1> DEFINE T == {k \in 0..m : \/ \A y \in S : ~ (y <= k)
                              \/ \E x \in S : \A y \in S : y <= k => y <= x}
<1>1. 0 \in T  OBVIOUS
<1>2. ASSUME NEW k \in 1..m, k - 1 \in T PROVE k \in T
  <2>1. \A y \in S : y <= k => y <= k - 1 \/ y = k  OBVIOUS
  <2>2. CASE k \in S
    <3>1. \A y \in S : y <= k => y <= k  OBVIOUS
    <3> QED  BY <2>2, <3>1
  <2>3. CASE k \notin S
    <3>1. \A y \in S : y <= k => y <= k - 1  BY <2>1, <2>3
    <3>2. k \in 0..m  OBVIOUS
    <3> QED  BY <1>2, <3>1, <3>2
  <2> QED  BY <2>2, <2>3
<1>3. m \in T
  <2> HIDE DEF T
  <2>1. m \in 0..m  OBVIOUS
  <2> QED  BY <1>1, <1>2, <2>1, UpwardInduction
<1>4. \A y \in S : y <= m  OBVIOUS
<1> QED  BY <1>3, <1>4

(* Those of some numbers that are no larger than x.                        *)
NotAbove(S, x) == {j \in S : j <= x}

(* How many there are, from the ascending list.                            *)
LEMMA CountsUpTo ==
  ASSUME NEW S \in SUBSET Nat, IsFiniteSet(S), NEW f, Ascends(f, S), NEW x \in Nat
  PROVE  /\ Cardinality(NotAbove(S, x)) \in 0..Cardinality(S)
         /\ \A k \in 1..Cardinality(S) :
              /\ x < f[k] => Cardinality(NotAbove(S, x)) < k
              /\ f[k] <= x => k <= Cardinality(NotAbove(S, x))
<1>1. PICK n \in Nat : n = Cardinality(S)  BY DEF Ascends
<1>2. /\ f \in [1..n -> S] /\ \A y \in S : \E k \in 1..n : f[k] = y
      /\ \A j, k \in 1..n : j < k => f[j] < f[k]
  BY <1>1 DEF Ascends
<1>3. PICK P : P = NotAbove(S, x)  OBVIOUS
<1>4. P \subseteq S /\ \A j \in S : j \in P <=> j <= x  BY <1>3 DEF NotAbove
<1>5. IsFiniteSet(P) /\ Cardinality(P) \in Nat /\ Cardinality(P) <= n
  BY <1>1, <1>4, FS_Subset, FS_CardinalityType
<1>6. ASSUME NEW k \in 1..n, x < f[k] PROVE Cardinality(P) < k
  <2>1. HasAll(f, k - 1, P)
    <3>1. ASSUME NEW y \in P PROVE \E r \in 1..k - 1 : f[r] = y
      <4>1. PICK r \in 1..n : f[r] = y  BY <1>2, <1>4
      <4>2. y <= x /\ y \in Nat  BY <1>4
      <4>3. PICK a \in Nat : a = f[k]  BY <1>2
      <4>4. y < a  BY <1>6, <4>2, <4>3
      <4>5. ~ (k < r) /\ r # k
        <5>1. ~ (a < y) /\ a # y  BY <4>2, <4>3, <4>4
        <5> QED  BY <1>2, <4>1, <4>3, <5>1, Zenon
      <4>6. r \in 1..k - 1  BY <4>5
      <4> QED  BY <4>1, <4>6, Zenon
    <3> QED  BY <3>1, Zenon DEF HasAll
  <2>2. k - 1 \in Nat  OBVIOUS
  <2>3. Cardinality(P) <= k - 1  BY <2>1, <2>2, AtMost
  <2> QED  BY <1>5, <2>3
<1>7. ASSUME NEW k \in 1..n, f[k] <= x PROVE k <= Cardinality(P)
  <2>1. ASSUME NEW r \in 1..k PROVE f[r] \in P
    <3>1. r \in 1..n /\ (r < k \/ r = k)  OBVIOUS
    <3>2. PICK a \in Nat, b \in Nat : a = f[r] /\ b = f[k]  BY <1>2, <3>1
    <3>3. a < b \/ a = b  BY <1>2, <3>1, <3>2, Zenon
    <3>4. a <= x  BY <1>7, <3>2, <3>3
    <3>5. f[r] \in S  BY <1>2, <3>1
    <3> QED  BY <1>4, <3>2, <3>4, <3>5, Zenon
  <2>2. ASSUME NEW r \in 1..k, NEW s \in 1..k, f[r] = f[s] PROVE r = s
    <3>1. r \in 1..n /\ s \in 1..n  OBVIOUS
    <3>2. PICK a \in Nat : a = f[r] /\ a = f[s]  BY <1>2, <2>2, <3>1
    <3>3. ~ (a < a)  OBVIOUS
    <3>4. ~ (r < s) /\ ~ (s < r)  BY <1>2, <3>1, <3>2, <3>3, Zenon
    <3> QED  BY <3>1, <3>4
  <2>3. k \in Nat  OBVIOUS
  <2> QED  BY <1>5, <2>1, <2>2, <2>3, AtLeast
<1> QED  BY <1>1, <1>3, <1>5, <1>6, <1>7

=============================================================================
