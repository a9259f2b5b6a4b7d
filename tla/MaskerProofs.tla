---------------------------- MODULE MaskerProofs ----------------------------
(***************************************************************************)
(* Proofs about module Masker, for every text and all sets of secrets.     *)
(***************************************************************************)
EXTENDS Masker, SequenceTheorems, WellFoundedInduction, TLAPS

(* The literals of the model are strings, but no prover knows that. *)
Atoms == STRING \cup {NL, Space, Star, ":", "latest", "builtin", "special"}
Text == Seq(Atoms)

-----------------------------------------------------------------------------
(* Numbers.                                                                *)

LEMMA LeastOf ==
    ASSUME NEW T, T \subseteq Nat, T # {}
    PROVE  \E x \in T : \A y \in T : x <= y
<1>1. \A a, b \in Nat : a < b => <<a, b>> \in OpToRel(<, Nat)
  BY Zenon DEF OpToRel
<1>2. \E x \in T : \A y \in T : <<y, x>> \notin OpToRel(<, Nat)
  BY NatLessThanWellFounded, WFMin, Zenon
<1>3. PICK x \in T : \A y \in T : <<y, x>> \notin OpToRel(<, Nat)
  BY <1>2, Zenon
<1>4. \A y \in T : ~ (y < x)
  BY <1>1, <1>3, Zenon
<1> QED
  BY <1>4

LEMMA GreatestOf ==
    ASSUME NEW n \in Nat, NEW T, T \subseteq 0 .. n, T # {}
    PROVE  \E x \in T : \A y \in T : x >= y
<1> DEFINE D == {n - x : x \in T}
<1>1. D \subseteq Nat /\ D # {}
  <2>1. D \subseteq Nat
    OBVIOUS
  <2>2. PICK t \in T : TRUE
    OBVIOUS
  <2>3. n - t \in D
    OBVIOUS
  <2> QED
    BY <2>1, <2>3
<1>2. PICK d \in D : \A e \in D : d <= e
  BY <1>1, LeastOf
<1>3. PICK x \in T : d = n - x
  BY <1>2
<1>4. \A y \in T : n - y \in D
  OBVIOUS
<1> HIDE DEF D
<1> QED
  BY <1>2, <1>3, <1>4

LEMMA MinMax ==
    ASSUME NEW n \in Nat, NEW T, T \subseteq 0 .. n, T # {}
    PROVE  /\ Min(T) \in T /\ \A y \in T : Min(T) <= y
           /\ Max(T) \in T /\ \A y \in T : y <= Max(T)
<1>1. \E x \in T : \A y \in T : x <= y
  <2>1. T \subseteq Nat
    OBVIOUS
  <2> QED
    BY <2>1, LeastOf
<1>2. \E x \in T : \A y \in T : x >= y
  BY GreatestOf
<1> QED
  BY <1>1, <1>2 DEF Min, Max
-----------------------------------------------------------------------------
(* The function of Mask is what its definition says: each position is      *)
(* defined from later ones only.                                           *)

(* The secret that is replaced at a position is one of those that begin    *)
(* there, and none of them is longer.                                      *)
LEMMA FirstIsLongest ==
    ASSUME NEW secrets, secrets \subseteq Text \ {<<>>}, NEW text \in Text,
           NEW i \in 1 .. Len(text), At(secrets, text, i) # {}
    PROVE  /\ First(secrets, text, i) \in At(secrets, text, i)
           /\ Len(First(secrets, text, i)) \in 1 .. Len(text) + 1 - i
           /\ \A t \in At(secrets, text, i) :
                  Len(t) <= Len(First(secrets, text, i))
<1> DEFINE found == At(secrets, text, i)
           lengths == {Len(s) : s \in found}
<1>1. \A s \in found : /\ s \in Text \ {<<>>}
                        /\ Len(s) \in 1 .. Len(text) + 1 - i
  <2> SUFFICES ASSUME NEW s \in found
               PROVE s \in Text \ {<<>>} /\ Len(s) \in 1 .. Len(text) + 1 - i
    OBVIOUS
  <2>1. s \in Text \ {<<>>} /\ i + Len(s) - 1 <= Len(text)
    BY DEF At
  <2>2. Len(s) \in Nat \ {0} /\ Len(text) \in Nat
    BY <2>1, EmptySeq, LenProperties DEF Text
  <2> QED
    BY <2>1, <2>2
<1>2. Len(text) \in Nat
  BY LenProperties DEF Text
<1>3. /\ lengths \subseteq 0 .. Len(text) + 1 - i /\ lengths # {}
      /\ Len(text) + 1 - i \in Nat
  <2>1. PICK s \in found : TRUE
    OBVIOUS
  <2>2. Len(s) \in lengths
    BY <2>1
  <2>3. Len(text) + 1 - i \in Nat
    BY <1>2
  <2>4. lengths \subseteq 0 .. Len(text) + 1 - i
    BY <1>1, <2>3
  <2> QED
    BY <2>2, <2>3, <2>4
<1>4. PICK n \in lengths : \A m \in lengths : n >= m
  BY <1>3, GreatestOf
<1>5. PICK s \in found : Len(s) = n
  BY <1>4
<1>6. \A t \in found : Before(s, t)
  BY <1>4, <1>5 DEF Before
<1>7. /\ First(secrets, text, i) \in found
      /\ \A t \in found : Before(First(secrets, text, i), t)
  BY <1>5, <1>6 DEF First
<1> QED
  BY <1>1, <1>7 DEF Before

(* What Mask has made of a text from a position on, given what it has made *)
(* of the rest.                                                            *)
Masked(secrets, text, from, i) ==
    IF i > Len(text) THEN <<>>
    ELSE IF At(secrets, text, i) = {} THEN <<text[i]>> \o from[i + 1]
    ELSE Stars(First(secrets, text, i))
         \o from[i + Len(First(secrets, text, i))]

IsMasked(secrets, text, from, low) ==
    \A i \in low .. Len(text) + 1 : from[i] = Masked(secrets, text, from, i)

LEMMA MaskedExists ==
    ASSUME NEW secrets, secrets \subseteq Text \ {<<>>}, NEW text \in Text
    PROVE  \E f : f = [i \in 1 .. Len(text) + 1 |-> Masked(secrets, text, f, i)]
<1> DEFINE N == Len(text)
           Rule(f, i) == Masked(secrets, text, f, i)
           Good(k) == \E f : f = [i \in N + 1 - k .. N + 1 |-> Rule(f, i)]
           Bad == {k \in 0 .. N : ~Good(k)}
<1>1. N \in Nat
  BY LenProperties DEF Text
<1>2. \A f, g : \A i \in 1 .. N + 1 :
          (\A j \in i + 1 .. N + 1 : f[j] = g[j]) => Rule(f, i) = Rule(g, i)
  <2> SUFFICES ASSUME NEW f, NEW g, NEW i \in 1 .. N + 1,
                      \A j \in i + 1 .. N + 1 : f[j] = g[j]
               PROVE  Rule(f, i) = Rule(g, i)
    OBVIOUS
  <2>1. CASE i > N
    BY <2>1 DEF Masked
  <2>2. CASE i <= N /\ At(secrets, text, i) = {}
    BY <1>1, <2>2 DEF Masked
  <2>3. CASE i <= N /\ At(secrets, text, i) # {}
    <3>1. i \in 1 .. Len(text)
      BY <1>1, <2>3
    <3>2. i + Len(First(secrets, text, i)) \in i + 1 .. N + 1
      BY <1>1, <2>3, <3>1, FirstIsLongest
    <3> QED
      BY <2>3, <3>2 DEF Masked
  <2> QED
    BY <1>1, <2>1, <2>2, <2>3
<1> HIDE DEF Rule, N
<1>3. Good(0)
  <2> DEFINE f == [i \in N + 1 .. N + 1 |-> <<>>]
             g == [i \in N + 1 .. N + 1 |-> Rule(f, i)]
  <2>1. \A i \in N + 1 .. N + 1 : Rule(g, i) = Rule(f, i)
    BY <1>1, <1>2
  <2>2. g = [i \in N + 1 - 0 .. N + 1 |-> Rule(g, i)]
    BY <1>1, <2>1
  <2> QED
    BY <2>2
<1>4. ASSUME NEW k \in 1 .. N, Good(k - 1)
      PROVE  Good(k)
  <2>1. PICK f : f = [i \in N + 2 - k .. N + 1 |-> Rule(f, i)]
    BY <1>1, <1>4
  <2> DEFINE g == [i \in N + 1 - k .. N + 1 |-> Rule(f, i)]
  <2>2. \A i \in N + 2 - k .. N + 1 : g[i] = f[i]
    BY <1>1, <2>1
  <2>3. \A i \in N + 1 - k .. N + 1 : Rule(g, i) = Rule(f, i)
    BY <1>1, <1>2, <2>2
  <2>4. g = [i \in N + 1 - k .. N + 1 |-> Rule(g, i)]
    BY <2>3
  <2> QED
    BY <2>4
<1> HIDE DEF Good
<1>5. Bad = {}
  <2> SUFFICES ASSUME Bad # {} PROVE FALSE
    OBVIOUS
  <2>0. Bad \subseteq Nat
    BY <1>1
  <2>1. PICK k \in Bad : \A j \in Bad : k <= j
    BY <2>0, LeastOf
  <2>2. k # 0 /\ k \in 1 .. N
    BY <1>1, <1>3, <2>1
  <2>3. k - 1 \notin Bad /\ k - 1 \in 0 .. N
    BY <1>1, <2>1, <2>2
  <2> QED
    BY <1>4, <2>1, <2>2, <2>3
<1>6. Good(N)
  BY <1>1, <1>5
<1> QED
  BY <1>1, <1>6 DEF Good, Rule, N

(* the equation of Mask *)
LEMMA MaskIsMasked ==
    ASSUME NEW secrets, secrets \subseteq Text \ {<<>>}, NEW text \in Text
    PROVE  \E from : /\ IsMasked(secrets, text, from, 1)
                     /\ Mask(secrets, text) = from[1]
<1> DEFINE Rule(f) == [i \in 1 .. Len(text) + 1 |-> Masked(secrets, text, f, i)]
           from == CHOOSE f : f = Rule(f)
<1>1. \E f : f = Rule(f)
  BY MaskedExists
<1>2. from = Rule(from)
  BY <1>1
<1>3. Mask(secrets, text) = from[1]
  BY DEF Mask, Masked
<1>4. \A i \in 1 .. Len(text) + 1 : from[i] = Masked(secrets, text, from, i)
  <2> HIDE DEF from
  <2> QED
    BY <1>2
<1> QED
  BY <1>3, <1>4 DEF IsMasked

-----------------------------------------------------------------------------
(* What Mask has done to a text.                                           *)

(* Downward induction, the good numbers being a set. *)
LEMMA DownTo ==
    ASSUME NEW n \in Nat, NEW T, n + 1 \in T,
           \A i \in 1 .. n : (\A j \in i + 1 .. n + 1 : j \in T) => i \in T
    PROVE  1 .. n + 1 \subseteq T
<1> DEFINE Bad == (1 .. n) \ T
<1>1. Bad = {}
  <2> SUFFICES ASSUME Bad # {} PROVE FALSE
    OBVIOUS
  <2>1. PICK i \in Bad : \A j \in Bad : i >= j
    <3>1. Bad \subseteq 0 .. n
      OBVIOUS
    <3> QED
      BY <3>1, GreatestOf
  <2>2. \A j \in i + 1 .. n + 1 : j \in T
    BY <2>1
  <2> QED
    BY <2>1, <2>2
<1> QED
  BY <1>1

(* The spans that begin at a position are the secrets there. *)
LEMMA SpansAt ==
    ASSUME NEW secrets, secrets \subseteq Text \ {<<>>}, NEW text \in Text
    PROVE  /\ \A p \in Spans(secrets, text) :
                  /\ p[1] \in 1 .. Len(text) /\ p[2] \in p[1] .. Len(text)
                  /\ SubSeq(text, p[1], p[2]) \in At(secrets, text, p[1])
                  /\ Len(SubSeq(text, p[1], p[2])) = p[2] - p[1] + 1
           /\ \A i \in 1 .. Len(text) : \A s \in At(secrets, text, i) :
                  <<i, i + Len(s) - 1>> \in Spans(secrets, text)
<1>1. Len(text) \in Nat /\ DOMAIN text = 1 .. Len(text)
  BY LenProperties DEF Text
<1>2. ASSUME NEW p \in Spans(secrets, text)
      PROVE  /\ p[1] \in 1 .. Len(text) /\ p[2] \in p[1] .. Len(text)
             /\ SubSeq(text, p[1], p[2]) \in At(secrets, text, p[1])
             /\ Len(SubSeq(text, p[1], p[2])) = p[2] - p[1] + 1
  <2> DEFINE s == SubSeq(text, p[1], p[2])
  <2>1. p[1] \in 1 .. Len(text) /\ p[2] \in 1 .. Len(text) /\ s \in secrets
    BY <1>1 DEF Spans
  <2>2. s # <<>>
    BY <2>1
  <2>3. p[1] <= p[2]
    <3> SUFFICES ASSUME p[1] > p[2] PROVE FALSE
      BY <1>1, <2>1
    <3>1. s = <<>>
      BY <1>1, <2>1, SubSeqEmpty DEF Text
    <3> QED
      BY <2>2, <3>1
  <2>4. Len(s) = p[2] - p[1] + 1
    BY <1>1, <2>1, <2>3, SubSeqProperties DEF Text
  <2>5. p[1] + Len(s) - 1 = p[2]
    BY <1>1, <2>1, <2>4
  <2>6. s \in At(secrets, text, p[1])
    <3>1. SubSeq(text, p[1], p[1] + Len(s) - 1) = s
      BY <2>5
    <3>2. s \in secrets /\ p[1] + Len(s) - 1 <= Len(text)
      BY <1>1, <2>1, <2>5
    <3> HIDE DEF s
    <3> QED
      BY <3>1, <3>2 DEF At
  <2> QED
    BY <1>1, <2>1, <2>3, <2>4, <2>6
<1>3. ASSUME NEW i \in 1 .. Len(text), NEW s \in At(secrets, text, i)
      PROVE  <<i, i + Len(s) - 1>> \in Spans(secrets, text)
  <2>1. /\ s \in Text \ {<<>>} /\ s \in secrets
        /\ i + Len(s) - 1 <= Len(text)
        /\ SubSeq(text, i, i + Len(s) - 1) = s
    BY DEF At
  <2>2. Len(s) \in Nat \ {0}
    BY <2>1, EmptySeq, LenProperties DEF Text
  <2>3. i + Len(s) - 1 \in 1 .. Len(text)
    BY <1>1, <2>1, <2>2
  <2> QED
    BY <1>1, <2>1, <2>3 DEF Spans
<1> QED
  BY <1>2, <1>3

(* The rest of a masked text from position i on, which stands for the      *)
(* places i .. Len(text), is as Hides demands.                             *)
HiddenFrom(secrets, text, rest, i) ==
    /\ rest \in Text /\ Len(rest) = Len(text) + 1 - i
    /\ \A j \in i .. Len(text) :
           \/ rest[j - i + 1] = text[j]
           \/ rest[j - i + 1] = Star
              /\ \E p \in Spans(secrets, text) : j \in p[1] .. p[2]
    /\ \A p \in Spans(secrets, text) : p[1] >= i =>
           /\ rest[p[1] - i + 1] = Star
           /\ \/ \A j \in p[1] .. p[2] : rest[j - i + 1] = Star
              \/ \E q \in Spans(secrets, text) : q[1] < p[1] /\ p[1] <= q[2]

LEMMA HeadAndRest ==
    ASSUME NEW head \in Text, NEW rest \in Text, NEW i \in Nat
    PROVE  /\ head \o rest \in Text
           /\ Len(head \o rest) = Len(head) + Len(rest)
           /\ \A j \in i .. i + Len(head) - 1 :
                  (head \o rest)[j - i + 1] = head[j - i + 1]
           /\ \A j \in i + Len(head) .. i + Len(head) + Len(rest) - 1 :
                  (head \o rest)[j - i + 1] = rest[j - (i + Len(head)) + 1]
<1>1. Len(head) \in Nat /\ Len(rest) \in Nat
  BY LenProperties DEF Text
<1>2. /\ head \o rest \in Text
      /\ Len(head \o rest) = Len(head) + Len(rest)
      /\ \A k \in 1 .. Len(head) + Len(rest) :
             (head \o rest)[k] = IF k <= Len(head) THEN head[k]
                                 ELSE rest[k - Len(head)]
  BY ConcatProperties DEF Text
<1>3. ASSUME NEW j \in i .. i + Len(head) - 1
      PROVE  (head \o rest)[j - i + 1] = head[j - i + 1]
  <2>1. j - i + 1 \in 1 .. Len(head) + Len(rest) /\ j - i + 1 <= Len(head)
    BY <1>1
  <2> QED
    BY <1>2, <2>1
<1>4. ASSUME NEW j \in i + Len(head) .. i + Len(head) + Len(rest) - 1
      PROVE  (head \o rest)[j - i + 1] = rest[j - (i + Len(head)) + 1]
  <2>1. /\ j - i + 1 \in 1 .. Len(head) + Len(rest)
        /\ ~(j - i + 1 <= Len(head))
        /\ j - i + 1 - Len(head) = j - (i + Len(head)) + 1
    BY <1>1
  <2> QED
    BY <1>2, <2>1
<1> QED
  BY <1>2, <1>3, <1>4

(* Mask hides the secrets of a text, and nothing else. *)
THEOREM MaskHides ==
    ASSUME NEW secrets, secrets \subseteq Text \ {<<>>}, NEW text \in Text
    PROVE  /\ Mask(secrets, text) \in Text
           /\ Hides(secrets, text, Mask(secrets, text))
<1> DEFINE N == Len(text)
           S == Spans(secrets, text)
<1>1. N \in Nat /\ DOMAIN text = 1 .. N /\ \A i \in 1 .. N : text[i] \in Atoms
  BY LenProperties, ElementOfSeq DEF Text
<1>2. PICK from : /\ IsMasked(secrets, text, from, 1)
                  /\ Mask(secrets, text) = from[1]
  BY MaskIsMasked
<1>2a. \A i \in 1 .. N + 1 : from[i] = Masked(secrets, text, from, i)
  BY <1>2 DEF IsMasked
<1> DEFINE Good(i) == HiddenFrom(secrets, text, from[i], i)
           T == {i \in 1 .. N + 1 : Good(i)}
<1>3. \A p \in S : /\ p[1] \in 1 .. N /\ p[2] \in p[1] .. N
                   /\ SubSeq(text, p[1], p[2]) \in At(secrets, text, p[1])
                   /\ Len(SubSeq(text, p[1], p[2])) = p[2] - p[1] + 1
  BY SpansAt
<1>4. Good(N + 1)
  <2>1. from[N + 1] = <<>>
    <3>1. from[N + 1] = Masked(secrets, text, from, N + 1) /\ N + 1 > N
      BY <1>1, <1>2a
    <3> QED
      BY <3>1 DEF Masked
  <2>2. <<>> \in Text /\ Len(<<>>) = 0
    BY EmptySeq DEF Text
  <2>3. \A p \in S : ~(p[1] >= N + 1)
    BY <1>1, <1>3
  <2> QED
    BY <1>1, <2>1, <2>2, <2>3 DEF HiddenFrom
<1>5. ASSUME NEW i \in 1 .. N, At(secrets, text, i) = {}, Good(i + 1)
      PROVE  Good(i)
  <2> DEFINE head == <<text[i]>>
             rest == from[i + 1]
  <2>1. from[i] = head \o rest
    <3>1. from[i] = Masked(secrets, text, from, i) /\ ~(i > N)
      BY <1>1, <1>2a
    <3> QED
      BY <1>5, <3>1 DEF Masked
  <2>2. /\ head \in Text /\ Len(head) = 1 /\ head[1] = text[i]
        /\ rest \in Text /\ Len(rest) = N - i
    <3>1. text[i] \in Atoms
      BY <1>1
    <3>2. head \in Seq(Atoms) /\ Len(head) = 1 /\ head[1] = text[i]
      BY <3>1
    <3>3. HiddenFrom(secrets, text, rest, i + 1)
      BY <1>5
    <3>4. N + 1 - (i + 1) = N - i
      <4>1. N \in Nat /\ i \in 1 .. N
        BY <1>1
      <4> HIDE DEF N
      <4> QED
        BY <4>1
    <3> HIDE DEF rest
    <3> QED
      BY <3>2, <3>3, <3>4 DEF HiddenFrom, Text
  <2> HIDE DEF head
  <2>3. /\ from[i] \in Text /\ Len(from[i]) = N + 1 - i
        /\ from[i][1] = text[i]
        /\ \A j \in i + 1 .. N : from[i][j - i + 1] = rest[j - (i + 1) + 1]
    <3>1. /\ head \o rest \in Text
          /\ Len(head \o rest) = Len(head) + Len(rest)
          /\ \A j \in i .. i + Len(head) - 1 :
                 (head \o rest)[j - i + 1] = head[j - i + 1]
          /\ \A j \in i + Len(head) .. i + Len(head) + Len(rest) - 1 :
                 (head \o rest)[j - i + 1] = rest[j - (i + Len(head)) + 1]
      <4>1. i \in Nat /\ head \in Text /\ rest \in Text
        BY <2>2
      <4> HIDE DEF rest
      <4> QED
        BY <4>1, HeadAndRest
    <3>2. i + Len(head) - 1 = i /\ i - i + 1 = 1 /\ i + Len(head) = i + 1
          /\ i + Len(head) + Len(rest) - 1 = N
          /\ Len(head) + Len(rest) = N + 1 - i
      <4>1. Len(head) = 1 /\ Len(rest) = N - i /\ N \in Nat /\ i \in 1 .. N
        BY <1>1, <2>2
      <4> HIDE DEF rest, N
      <4> QED
        BY <4>1
    <3>3. i \in i .. i + Len(head) - 1
      BY <3>2
    <3> HIDE DEF rest
    <3>4. from[i][1] = text[i]
      <4>1. (head \o rest)[i - i + 1] = head[i - i + 1]
        BY <3>1, <3>3, Zenon
      <4> QED
        BY <2>1, <2>2, <3>2, <4>1, Zenon
    <3>5. ASSUME NEW j \in i + 1 .. N
          PROVE  from[i][j - i + 1] = rest[j - (i + 1) + 1]
      <4>1. j \in i + Len(head) .. i + Len(head) + Len(rest) - 1
        BY <3>2, <3>5, Zenon
      <4>2. (head \o rest)[j - i + 1] = rest[j - (i + Len(head)) + 1]
        BY <3>1, <4>1, Zenon
      <4> QED
        BY <2>1, <3>2, <4>2, Zenon
    <3>6. from[i] \in Text /\ Len(from[i]) = N + 1 - i
      BY <2>1, <3>1, <3>2, Zenon
    <3> QED
      BY <3>4, <3>5, <3>6, Zenon
  <2>4. ASSUME NEW j \in i .. N
        PROVE  \/ from[i][j - i + 1] = text[j]
               \/ from[i][j - i + 1] = Star
                  /\ \E p \in S : j \in p[1] .. p[2]
    <3>1. CASE j = i
      BY <1>1, <2>3, <3>1
    <3>2. CASE j # i
      <4>1. j \in i + 1 .. N /\ from[i][j - i + 1] = rest[j - (i + 1) + 1]
        <5>1. j \in i + 1 .. N
          BY <1>1, <3>2
        <5>2. \A m \in i + 1 .. N : from[i][m - i + 1] = rest[m - (i + 1) + 1]
          BY <2>3
        <5> HIDE DEF rest
        <5> QED
          BY <5>1, <5>2
      <4> QED
        BY <1>5, <4>1 DEF HiddenFrom
    <3> QED
      BY <3>1, <3>2
  <2>5. ASSUME NEW p \in S, p[1] >= i
        PROVE  /\ from[i][p[1] - i + 1] = Star
               /\ \/ \A j \in p[1] .. p[2] : from[i][j - i + 1] = Star
                  \/ \E q \in S : q[1] < p[1] /\ p[1] <= q[2]
    <3>1. p[1] # i
      BY <1>3, <1>5
    <3>2. p[1] \in i + 1 .. N /\ p[2] \in p[1] .. N
      BY <1>1, <1>3, <2>5, <3>1
    <3>3. \A j \in p[1] .. p[2] :
              from[i][j - i + 1] = rest[j - (i + 1) + 1]
      BY <1>1, <2>3, <3>2
    <3>4. /\ rest[p[1] - (i + 1) + 1] = Star
          /\ \/ \A j \in p[1] .. p[2] : rest[j - (i + 1) + 1] = Star
             \/ \E q \in S : q[1] < p[1] /\ p[1] <= q[2]
      <4>1. HiddenFrom(secrets, text, rest, i + 1)
        BY <1>5, Zenon
      <4>2. p \in Spans(secrets, text) /\ p[1] >= i + 1
        BY <1>1, <3>2
      <4> HIDE DEF rest, N
      <4> QED
        BY <4>1, <4>2, Zenon DEF HiddenFrom
    <3>5. p[1] \in p[1] .. p[2]
      BY <1>1, <3>2
    <3> HIDE DEF rest, S
    <3>6. from[i][p[1] - i + 1] = Star
      BY <3>3, <3>4, <3>5, Zenon
    <3>7. ASSUME \A j \in p[1] .. p[2] : rest[j - (i + 1) + 1] = Star
          PROVE  \A j \in p[1] .. p[2] : from[i][j - i + 1] = Star
      BY <3>3, <3>7, Zenon
    <3> QED
      BY <3>4, <3>6, <3>7, Zenon
  <2> QED
    BY <2>3, <2>4, <2>5 DEF HiddenFrom
<1>6. ASSUME NEW i \in 1 .. N, At(secrets, text, i) # {},
             \A k \in i + 1 .. N + 1 : Good(k)
      PROVE  Good(i)
  <2> DEFINE first == First(secrets, text, i)
             L == Len(first)
             k == i + L
             head == Stars(first)
             rest == from[k]
  <2>0. /\ first \in At(secrets, text, i) /\ L \in 1 .. N + 1 - i
        /\ \A t \in At(secrets, text, i) : Len(t) <= L
    BY <1>6, FirstIsLongest
  <2>1. from[i] = head \o rest
    <3>1. from[i] = Masked(secrets, text, from, i) /\ ~(i > N)
      BY <1>1, <1>2a
    <3> QED
      BY <1>6, <3>1 DEF Masked
  <2> HIDE DEF first
  <2>2. /\ head \in Text /\ Len(head) = L /\ \A j \in 1 .. L : head[j] = Star
    <3>1. head = [j \in 1 .. L |-> Star] /\ L \in Nat
      BY <1>1, <2>0 DEF Stars
    <3>2. head \in Seq(Atoms)
      <4> HIDE DEF head
      <4>1. \A j \in 1 .. L : Star \in Atoms
        BY DEF Atoms
      <4>3. L \in Nat
        BY <3>1
      <4> HIDE DEF L
      <4>2. [j \in 1 .. L |-> Star] \in Seq(Atoms)
        BY <4>1, <4>3, IsASeq
      <4> QED
        BY <3>1, <4>2
    <3> QED
      BY <3>1, <3>2, LenProperties DEF Text
  <2> HIDE DEF head, L
  <2>3. k \in i + 1 .. N + 1 /\ Good(k)
    BY <1>1, <1>6, <2>0
  <2>4. /\ rest \in Text /\ Len(rest) = N + 1 - k
    BY <2>3 DEF HiddenFrom
  <2>5. /\ from[i] \in Text /\ Len(from[i]) = N + 1 - i
        /\ \A j \in i .. k - 1 : from[i][j - i + 1] = Star
        /\ \A j \in k .. N : from[i][j - i + 1] = rest[j - k + 1]
    <3>1. /\ head \o rest \in Text
          /\ Len(head \o rest) = Len(head) + Len(rest)
          /\ \A j \in i .. i + Len(head) - 1 :
                 (head \o rest)[j - i + 1] = head[j - i + 1]
          /\ \A j \in i + Len(head) .. i + Len(head) + Len(rest) - 1 :
                 (head \o rest)[j - i + 1] = rest[j - (i + Len(head)) + 1]
      <4>1. i \in Nat /\ head \in Text /\ rest \in Text
        BY <2>2, <2>4
      <4> HIDE DEF rest, k
      <4> QED
        BY <4>1, HeadAndRest
    <3>2. /\ Len(head) + Len(rest) = N + 1 - i
          /\ i + Len(head) + Len(rest) - 1 = N
          /\ i + Len(head) = k
      BY <1>1, <2>0, <2>2, <2>4
    <3>3. \A j \in i .. k - 1 : j - i + 1 \in 1 .. L
      BY <1>1, <2>0
    <3> HIDE DEF rest, k
    <3>4. \A j \in i .. k - 1 : from[i][j - i + 1] = Star
      BY <2>1, <2>2, <3>1, <3>2, <3>3
    <3> QED
      BY <2>1, <3>1, <3>2, <3>4
  <2>6. <<i, k - 1>> \in S
    BY <2>0, SpansAt DEF L
  <2> HIDE DEF k, rest
  <2>7. ASSUME NEW j \in i .. N
        PROVE  \/ from[i][j - i + 1] = text[j]
               \/ from[i][j - i + 1] = Star
                  /\ \E p \in S : j \in p[1] .. p[2]
    <3>1. CASE j \in i .. k - 1
      <4> HIDE DEF S
      <4>1. j \in <<i, k - 1>>[1] .. <<i, k - 1>>[2]
        BY <3>1
      <4> QED
        BY <2>5, <2>6, <3>1, <4>1
    <3>2. CASE j \notin i .. k - 1
      <4>1. j \in k .. N
        BY <1>1, <2>3, <3>2
      <4> QED
        BY <2>3, <2>5, <4>1 DEF HiddenFrom, rest
    <3> QED
      BY <3>1, <3>2
  <2>8. ASSUME NEW p \in S, p[1] >= i
        PROVE  /\ from[i][p[1] - i + 1] = Star
               /\ \/ \A j \in p[1] .. p[2] : from[i][j - i + 1] = Star
                  \/ \E q \in S : q[1] < p[1] /\ p[1] <= q[2]
    <3>0. p[1] \in i .. N /\ p[2] \in p[1] .. N
      BY <1>1, <1>3, <2>8
    <3>1. CASE p[1] = i
      <4>1. p[2] - p[1] + 1 <= L
        BY <1>3, <2>0, <3>1
      <4>2. \A j \in p[1] .. p[2] : j \in i .. k - 1
        BY <1>1, <2>0, <3>0, <3>1, <4>1 DEF k
      <4> QED
        BY <2>5, <3>0, <3>1, <4>2
    <3>2. CASE p[1] \in i + 1 .. k - 1
      <4>1. from[i][p[1] - i + 1] = Star
        BY <2>5, <3>2
      <4>2. <<i, k - 1>>[1] < p[1] /\ p[1] <= <<i, k - 1>>[2]
        BY <3>2
      <4> HIDE DEF S
      <4> QED
        BY <2>6, <4>1, <4>2
    <3>3. CASE p[1] \in k .. N
      <4>1. \A j \in p[1] .. p[2] : from[i][j - i + 1] = rest[j - k + 1]
        BY <1>1, <2>3, <2>5, <3>0, <3>3
      <4>2. /\ rest[p[1] - k + 1] = Star
            /\ \/ \A j \in p[1] .. p[2] : rest[j - k + 1] = Star
               \/ \E q \in S : q[1] < p[1] /\ p[1] <= q[2]
        <5>1. p[1] >= k /\ HiddenFrom(secrets, text, rest, k)
          BY <1>1, <2>3, <3>3 DEF rest
        <5> HIDE DEF Good
        <5> QED
          BY <5>1 DEF HiddenFrom
      <4>3. p[1] \in p[1] .. p[2]
        BY <1>1, <3>0
      <4> HIDE DEF S
      <4> QED
        BY <4>1, <4>2, <4>3
    <3> QED
      BY <1>1, <2>3, <3>0, <3>1, <3>2, <3>3
  <2> QED
    BY <2>5, <2>7, <2>8 DEF HiddenFrom
<1>7. \A i \in 1 .. N : (\A j \in i + 1 .. N + 1 : j \in T) => i \in T
  <2> HIDE DEF Good
  <2> SUFFICES ASSUME NEW i \in 1 .. N, \A j \in i + 1 .. N + 1 : j \in T
               PROVE  Good(i)
    BY <1>1
  <2>1. \A k \in i + 1 .. N + 1 : Good(k)
    OBVIOUS
  <2>2. i + 1 \in i + 1 .. N + 1
    BY <1>1
  <2> QED
    BY <1>5, <1>6, <2>1, <2>2
<1>8. Good(1)
  <2> HIDE DEF Good
  <2>1. N + 1 \in T
    BY <1>1, <1>4
  <2> HIDE DEF T
  <2>2. 1 .. N + 1 \subseteq T
    BY <1>1, <1>7, <2>1, DownTo
  <2> QED
    BY <1>1, <2>2 DEF T
<1>9. /\ \A j \in 1 .. N : j - 1 + 1 = j
      /\ \A p \in S : p[1] >= 1 /\ p[1] - 1 + 1 = p[1]
      /\ \A p \in S : \A j \in p[1] .. p[2] : j - 1 + 1 = j
  BY <1>1, <1>3
<1> QED
  BY <1>1, <1>2, <1>8, <1>9 DEF HiddenFrom, Hides
-----------------------------------------------------------------------------
(* A text is masked in parts that end with a line.                         *)

(* A secret in a text of two parts, the first of which ends with a line    *)
(* break, is in one of them.                                               *)
LEMMA SpansOfConcat ==
    ASSUME NEW secrets, secrets \subseteq Text \ {<<>>},
           \A s \in secrets : \A k \in 1 .. Len(s) : s[k] # NL,
           NEW one \in Text, NEW two \in Text,
           one = <<>> \/ one[Len(one)] = NL
    PROVE  LET n == Len(one)
               T == Spans(secrets, one \o two)
           IN /\ \A p \in Spans(secrets, one) : p \in T /\ p[2] <= n
              /\ \A p \in Spans(secrets, two) : <<p[1] + n, p[2] + n>> \in T
              /\ \A p \in T :
                     \/ p \in Spans(secrets, one)
                     \/ p[1] > n /\ <<p[1] - n, p[2] - n>> \in Spans(secrets, two)
<1> DEFINE n == Len(one)
           m == Len(two)
           text == one \o two
<1>1. /\ n \in Nat /\ m \in Nat /\ DOMAIN one = 1 .. n /\ DOMAIN two = 1 .. m
      /\ text \in Text /\ DOMAIN text = 1 .. n + m /\ Len(text) = n + m
      /\ \A i \in 1 .. n : text[i] = one[i]
      /\ \A i \in 1 .. n + m : text[i] \in Atoms
  <2>1. n \in Nat /\ m \in Nat /\ DOMAIN one = 1 .. n /\ DOMAIN two = 1 .. m
    BY LenProperties DEF Text
  <2>2. /\ text \in Text /\ Len(text) = n + m
        /\ \A i \in 1 .. n + m :
               text[i] = IF i <= n THEN one[i] ELSE two[i - n]
    BY ConcatProperties DEF Text
  <2>3. DOMAIN text = 1 .. n + m /\ \A i \in 1 .. n + m : text[i] \in Atoms
    BY <2>2, LenProperties, ElementOfSeq DEF Text
  <2> HIDE DEF text, n, m
  <2>4. \A i \in 1 .. n : i \in 1 .. n + m /\ i <= n
    BY <2>1
  <2> QED
    BY <2>1, <2>2, <2>3, <2>4
<1>2. ASSUME NEW p \in Spans(secrets, one)
      PROVE  p \in Spans(secrets, text) /\ p[2] <= n
  <2>1. /\ p[1] \in 1 .. n /\ p[2] \in 1 .. n
        /\ p \in (1 .. n) \X (1 .. n)
        /\ SubSeq(one, p[1], p[2]) \in secrets
    BY <1>1 DEF Spans
  <2>2. SubSeq(text, p[1], p[2]) = SubSeq(one, p[1], p[2])
    BY <2>1, SubSeqOfConcat1 DEF Text
  <2> HIDE DEF text
  <2>3. p \in (DOMAIN text) \X (DOMAIN text)
    BY <1>1, <2>1
  <2>4. SubSeq(text, p[1], p[2]) \in secrets
    BY <2>1, <2>2
  <2>5. p[2] <= n
    BY <1>1, <2>1
  <2> QED
    BY <2>3, <2>4, <2>5 DEF Spans
<1>3. ASSUME NEW p \in Spans(secrets, two)
      PROVE  <<p[1] + n, p[2] + n>> \in Spans(secrets, text)
  <2>1. /\ p[1] \in 1 .. m /\ p[2] \in 1 .. m
        /\ SubSeq(two, p[1], p[2]) \in secrets
    BY <1>1 DEF Spans
  <2> DEFINE a == p[1] + n
             b == p[2] + n
  <2>2. /\ a \in n + 1 .. n + m /\ b \in n + 1 .. n + m
        /\ a - n = p[1] /\ b - n = p[2]
    BY <1>1, <2>1
  <2> HIDE DEF a, b
  <2>3. SubSeq(text, a, b) = SubSeq(two, a - n, b - n)
    BY <2>2, SubSeqOfConcat2 DEF Text
  <2>4. a \in 1 .. n + m /\ b \in 1 .. n + m
    BY <1>1, <2>2
  <2> HIDE DEF text
  <2>5. <<a, b>> \in Spans(secrets, text)
    BY <1>1, <2>1, <2>2, <2>3, <2>4 DEF Spans
  <2> QED
    BY <2>5 DEF a, b
<1>4. ASSUME NEW p \in Spans(secrets, text)
      PROVE  \/ p \in Spans(secrets, one)
             \/ p[1] > n /\ <<p[1] - n, p[2] - n>> \in Spans(secrets, two)
  <2> DEFINE a == p[1]
             b == p[2]
             s == SubSeq(text, a, b)
  <2>1. /\ a \in 1 .. n + m /\ b \in a .. n + m /\ p = <<a, b>>
        /\ s \in secrets /\ Len(s) = b - a + 1
    <3> HIDE DEF text
    <3>1. /\ a \in 1 .. n + m /\ b \in a .. n + m /\ Len(s) = b - a + 1
      BY <1>1, SpansAt
    <3>2. s \in secrets /\ p = <<a, b>>
      BY <1>1 DEF Spans
    <3> QED
      BY <3>1, <3>2
  <2> HIDE DEF a, b
  <2>2. CASE b <= n
    <3>1. a \in 1 .. n /\ b \in 1 .. n
      BY <1>1, <2>1, <2>2
    <3>2. s = SubSeq(one, a, b)
      BY <3>1, SubSeqOfConcat1 DEF Text
    <3>3. <<a, b>> \in Spans(secrets, one)
      BY <1>1, <2>1, <3>1, <3>2 DEF Spans
    <3> QED
      BY <2>1, <3>3
  <2>3. CASE a > n
    <3>1. a \in n + 1 .. n + m /\ b \in n + 1 .. n + m
      BY <1>1, <2>1, <2>3
    <3>2. s = SubSeq(two, a - n, b - n)
      BY <3>1, SubSeqOfConcat2 DEF Text
    <3>3. a - n \in 1 .. m /\ b - n \in 1 .. m
      BY <1>1, <3>1
    <3>4. <<a - n, b - n>> \in Spans(secrets, two)
      BY <1>1, <2>1, <3>2, <3>3 DEF Spans
    <3> QED
      BY <2>3, <3>4 DEF a, b
  <2>4. CASE b > n /\ a <= n
    <3>1. /\ n \in 1 .. n /\ n \in a .. b /\ a \in Int /\ b \in Int
          /\ n - a + 1 \in 1 .. b - a + 1
          /\ a + (n - a + 1) - 1 = n
          /\ \A i \in a .. b : i \in 1 .. n + m
      BY <1>1, <2>1, <2>4
    <3>2. \A i \in a .. b : text[i] \in Atoms
      BY <1>1, <3>1
    <3> HIDE DEF text
    <3>3. \A i \in 1 .. b - a + 1 : s[i] = text[a + i - 1]
      BY <3>1, <3>2, SubSeqProperties
    <3>4. s[n - a + 1] = text[n]
      BY <3>1, <3>3
    <3>5. one # <<>>
      BY <3>1, EmptySeq
    <3>6. text[n] = NL
      BY <1>1, <3>1, <3>5
    <3> QED
      BY <2>1, <3>1, <3>4, <3>6
  <2> QED
    BY <1>1, <2>1, <2>2, <2>3, <2>4
<1> QED
  BY <1>2, <1>3, <1>4

LEMMA HidesConcat ==
    ASSUME NEW secrets, secrets \subseteq Text \ {<<>>},
           \A s \in secrets : \A k \in 1 .. Len(s) : s[k] # NL,
           NEW one \in Text, NEW two \in Text,
           NEW shown1 \in Text, NEW shown2 \in Text,
           one = <<>> \/ one[Len(one)] = NL,
           Hides(secrets, one, shown1), Hides(secrets, two, shown2)
    PROVE  Hides(secrets, one \o two, shown1 \o shown2)
<1> DEFINE n == Len(one)
           m == Len(two)
           text == one \o two
           shown == shown1 \o shown2
           T == Spans(secrets, text)
<1>1. /\ n \in Nat /\ m \in Nat
      /\ DOMAIN one = 1 .. n /\ DOMAIN two = 1 .. m /\ DOMAIN text = 1 .. n + m
      /\ Len(text) = n + m /\ Len(shown) = n + m
  <2>1. n \in Nat /\ m \in Nat /\ DOMAIN one = 1 .. n /\ DOMAIN two = 1 .. m
    BY LenProperties DEF Text
  <2>2. Len(shown1) = n /\ Len(shown2) = m
    BY DEF Hides
  <2>3. text \in Text /\ Len(text) = n + m
    BY ConcatProperties DEF Text
  <2>5. Len(shown) = Len(shown1) + Len(shown2)
    BY ConcatProperties DEF Text
  <2>4. DOMAIN text = 1 .. n + m
    BY <2>3, LenProperties DEF Text
  <2> HIDE DEF n, m, text, shown
  <2> QED
    BY <2>1, <2>2, <2>3, <2>4, <2>5
<1>2. \A i \in 1 .. n : text[i] = one[i] /\ shown[i] = shown1[i]
  <2> SUFFICES ASSUME NEW i \in 1 .. n
               PROVE  text[i] = one[i] /\ shown[i] = shown1[i]
    OBVIOUS
  <2>1. Len(shown1) = n /\ Len(shown2) = m
    BY DEF Hides
  <2>2. i \in 1 .. n + m /\ i <= n
    BY <1>1
  <2> QED
    BY <2>1, <2>2, ConcatProperties DEF Text
<1>3. \A i \in 1 .. m : text[i + n] = two[i] /\ shown[i + n] = shown2[i]
  <2> SUFFICES ASSUME NEW i \in 1 .. m
               PROVE  text[i + n] = two[i] /\ shown[i + n] = shown2[i]
    OBVIOUS
  <2>1. Len(shown1) = n /\ Len(shown2) = m
    BY DEF Hides
  <2> DEFINE k == i + n
  <2>2. k \in 1 .. n + m /\ ~(k <= n) /\ k - n = i
    BY <1>1
  <2> HIDE DEF k
  <2>3. /\ text[k] = IF k <= n THEN one[k] ELSE two[k - n]
        /\ shown[k] = IF k <= n THEN shown1[k] ELSE shown2[k - n]
    BY <2>1, <2>2, ConcatProperties DEF Text
  <2>4. text[k] = two[i] /\ shown[k] = shown2[i]
    BY <2>2, <2>3
  <2> QED
    BY <2>4 DEF k
<1>4. /\ \A p \in Spans(secrets, one) : p \in T /\ p[2] <= n
      /\ \A p \in Spans(secrets, two) : <<p[1] + n, p[2] + n>> \in T
      /\ \A p \in T :
             \/ p \in Spans(secrets, one)
             \/ p[1] > n /\ <<p[1] - n, p[2] - n>> \in Spans(secrets, two)
  BY SpansOfConcat
<1>5. /\ \A p \in Spans(secrets, one) : p[1] \in 1 .. n /\ p[2] \in p[1] .. n
      /\ \A p \in Spans(secrets, two) : p[1] \in 1 .. m /\ p[2] \in p[1] .. m
  BY SpansAt
<1> HIDE DEF n, m, text, shown, T
<1>6. ASSUME NEW i \in 1 .. n + m
      PROVE  \/ shown[i] = text[i]
             \/ shown[i] = Star /\ \E p \in T : i \in p[1] .. p[2]
  <2>1. CASE i \in 1 .. n
    <3>1. \/ shown1[i] = one[i]
          \/ shown1[i] = Star
             /\ \E p \in Spans(secrets, one) : i \in p[1] .. p[2]
      BY <1>1, <2>1 DEF Hides
    <3> QED
      BY <1>2, <1>4, <2>1, <3>1
  <2>2. CASE i \notin 1 .. n
    <3> DEFINE j == i - n
    <3>0. j \in 1 .. m /\ j + n = i
      BY <1>1, <2>2
    <3> HIDE DEF j
    <3>1. \/ shown2[j] = two[j]
          \/ shown2[j] = Star
             /\ \E p \in Spans(secrets, two) : j \in p[1] .. p[2]
      BY <1>1, <3>0 DEF Hides
    <3>2. shown[i] = shown2[j] /\ text[i] = two[j]
      BY <1>3, <3>0
    <3>3. ASSUME NEW p \in Spans(secrets, two), j \in p[1] .. p[2]
          PROVE  \E q \in T : i \in q[1] .. q[2]
      <4> DEFINE q == <<p[1] + n, p[2] + n>>
      <4>1. q \in T
        BY <1>4
      <4>2. i \in q[1] .. q[2]
        BY <1>1, <1>5, <3>0, <3>3
      <4> QED
        BY <4>1, <4>2
    <3> QED
      BY <3>1, <3>2, <3>3
  <2> QED
    BY <2>1, <2>2
<1>7. ASSUME NEW p \in T
      PROVE  /\ shown[p[1]] = Star
             /\ \/ \A i \in p[1] .. p[2] : shown[i] = Star
                \/ \E q \in T : q[1] < p[1] /\ p[1] <= q[2]
  <2>1. CASE p \in Spans(secrets, one)
    <3>1. /\ shown1[p[1]] = Star
          /\ \/ \A i \in p[1] .. p[2] : shown1[i] = Star
             \/ \E q \in Spans(secrets, one) : q[1] < p[1] /\ p[1] <= q[2]
      BY <2>1 DEF Hides
    <3>2. p[1] \in 1 .. n /\ \A i \in p[1] .. p[2] : i \in 1 .. n
      BY <1>1, <1>5, <2>1
    <3> QED
      BY <1>2, <1>4, <3>1, <3>2
  <2>2. CASE p[1] > n /\ <<p[1] - n, p[2] - n>> \in Spans(secrets, two)
    <3> DEFINE a == p[1] - n
               b == p[2] - n
    <3>0. a \in 1 .. m /\ b \in a .. m /\ <<a, b>> \in Spans(secrets, two)
      BY <1>5, <2>2
    <3>1. /\ shown2[a] = Star
          /\ \/ \A i \in a .. b : shown2[i] = Star
             \/ \E q \in Spans(secrets, two) : q[1] < a /\ a <= q[2]
      <4> HIDE DEF a, b
      <4> QED
        BY <3>0 DEF Hides
    <3>2. p[1] \in Int /\ p[2] \in Int
      <4>1. p \in (1 .. n + m) \X (1 .. n + m)
        BY <1>1 DEF Spans, T
      <4> QED
        BY <1>1, <4>1
    <3>3. a + n = p[1]
      BY <1>1, <3>2
    <3>4. ASSUME NEW i \in p[1] .. p[2]
          PROVE  i - n \in a .. b /\ i - n \in 1 .. m /\ (i - n) + n = i
      BY <1>1, <2>2, <3>0, <3>2
    <3>5. \A i \in p[1] .. p[2] : shown[i] = shown2[i - n]
      BY <1>3, <3>4
    <3>6. shown[p[1]] = shown2[a]
      BY <1>3, <3>0, <3>3
    <3>7. ASSUME NEW q \in Spans(secrets, two), q[1] < a, a <= q[2]
          PROVE  \E r \in T : r[1] < p[1] /\ p[1] <= r[2]
      <4> DEFINE r == <<q[1] + n, q[2] + n>>
      <4>1. r \in T
        BY <1>4
      <4>2. r[1] < p[1] /\ p[1] <= r[2]
        BY <1>1, <1>5, <3>2, <3>7
      <4> QED
        BY <4>1, <4>2
    <3> HIDE DEF a, b
    <3> QED
      BY <3>1, <3>4, <3>5, <3>6, <3>7
  <2> QED
    BY <1>4, <2>1, <2>2
<1>8. Hides(secrets, text, shown)
  BY <1>1, <1>6, <1>7 DEF Hides, T
<1> QED
  BY <1>8 DEF text, shown

(* what lineflushwriter passes on and what it holds back *)
LEMMA CompleteAndRest ==
    ASSUME NEW text \in Text
    PROVE  /\ Complete(text) \in Text /\ Rest(text) \in Text
           /\ Complete(text) \o Rest(text) = text
           /\ \/ Complete(text) = <<>>
              \/ Complete(text)[Len(Complete(text))] = NL
<1> DEFINE n == Len(text)
           breaks == {i \in 1 .. n : text[i] = NL}
           last == IF breaks # {} THEN Max(breaks) ELSE 0
<1>1. n \in Nat /\ \A i \in 1 .. n : text[i] \in Atoms
  BY LenProperties, ElementOfSeq DEF Text
<1>2. last \in 0 .. n /\ (last # 0 => text[last] = NL)
  <2>1. breaks \subseteq 0 .. n
    BY <1>1
  <2>2. breaks # {} => Max(breaks) \in breaks
    BY <1>1, <2>1, MinMax
  <2> QED
    BY <1>1, <2>2
<1>3. Complete(text) = SubSeq(text, 1, last)
  BY DEF Complete, SelectLastInSeq
<1> HIDE DEF last
<1>4. /\ Complete(text) \in Text /\ Len(Complete(text)) = last
      /\ \A i \in 1 .. last : Complete(text)[i] = text[i]
  <2>1. \A i \in 1 .. last : text[i] \in Atoms
    BY <1>1, <1>2
  <2>2. /\ SubSeq(text, 1, last) \in Seq(Atoms)
        /\ Len(SubSeq(text, 1, last)) = IF 1 <= last THEN last - 1 + 1 ELSE 0
        /\ \A i \in 1 .. last - 1 + 1 : SubSeq(text, 1, last)[i] = text[1 + i - 1]
    BY <1>1, <1>2, <2>1, SubSeqProperties
  <2>3. last \in Nat /\ last - 1 + 1 = last /\ \A i \in 1 .. last : 1 + i - 1 = i
    BY <1>1, <1>2
  <2> QED
    BY <1>3, <2>2, <2>3 DEF Text
<1>5. Rest(text) = SubSeq(text, last + 1, n)
  BY <1>4 DEF Rest
<1>6. Rest(text) \in Text
  <2>1. /\ last + 1 \in Int /\ n \in Int
        /\ \A i \in last + 1 .. n : text[i] \in Atoms
    BY <1>1, <1>2
  <2> HIDE DEF n
  <2> QED
    BY <1>5, <2>1, SubSeqProperties DEF Text
<1>7. Complete(text) \o Rest(text) = text
  <2>1. SubSeq(text, 1, last) \o SubSeq(text, last + 1, n) = SubSeq(text, 1, n)
    <3>1. /\ 1 \in 1 .. n + 1 /\ last \in 1 - 1 .. n /\ n \in last .. n
      BY <1>1, <1>2
    <3> QED
      BY <3>1, ConcatAdjacentSubSeq DEF Text
  <2>2. SubSeq(text, 1, n) = text
    BY SubSeqFull DEF Text
  <2> QED
    BY <1>3, <1>5, <2>1, <2>2
<1>8. last = 0 => Complete(text) = <<>>
  BY <1>3, SubSeqEmpty
<1>9. last # 0 => Complete(text)[last] = NL
  <2>1. last # 0 => last \in 1 .. last
    BY <1>1, <1>2
  <2> QED
    BY <1>2, <1>4, <2>1
<1> QED
  BY <1>4, <1>6, <1>7, <1>8, <1>9

(* No secret is empty, and none has a line break. *)
LEMMA SecretsFit ==
    ASSUME NEW vars, NEW masked, \A name \in DOMAIN vars : vars[name] \in Text
    PROVE  /\ Secrets(vars, masked) \subseteq Text \ {<<>>}
           /\ \A s \in Secrets(vars, masked) : \A k \in 1 .. Len(s) : s[k] # NL
<1> SUFFICES ASSUME NEW s \in Secrets(vars, masked)
             PROVE  /\ s \in Text \ {<<>>}
                    /\ \A k \in 1 .. Len(s) : s[k] # NL
  OBVIOUS
<1>1. PICK name \in DOMAIN vars :
          \E line \in Lines(vars[name]) : s = TrimSpace(line)
  BY DEF Secrets
<1>2. PICK line \in Lines(vars[name]) : s = TrimSpace(line)
  BY <1>1
<1> DEFINE text == vars[name]
<1>3. text \in Text /\ Len(text) \in Nat
      /\ \A i \in 1 .. Len(text) : text[i] \in Atoms
  BY LenProperties, ElementOfSeq DEF Text
<1>4. PICK p \in (1 .. Len(text)) \X (1 .. Len(text)) :
          /\ p[1] <= p[2]
          /\ \A k \in p[1] .. p[2] : text[k] # NL
          /\ line = SubSeq(text, p[1], p[2])
  BY <1>2 DEF Lines
<1> HIDE DEF text
<1>5. /\ line \in Text
      /\ \A i \in 1 .. Len(line) : line[i] # NL /\ line[i] \in Atoms
  <2> DEFINE a == p[1]
             b == p[2]
  <2>1. /\ a \in Int /\ b \in Int /\ a <= b
        /\ \A i \in a .. b : text[i] \in Atoms /\ text[i] # NL
        /\ \A i \in 1 .. b - a + 1 : a + i - 1 \in a .. b
    BY <1>3, <1>4
  <2> HIDE DEF a, b
  <2>2. /\ SubSeq(text, a, b) \in Seq(Atoms)
        /\ Len(SubSeq(text, a, b)) = b - a + 1
        /\ \A i \in 1 .. b - a + 1 : SubSeq(text, a, b)[i] = text[a + i - 1]
    BY <2>1, SubSeqProperties
  <2> QED
    BY <1>4, <2>1, <2>2 DEF a, b, Text
<1> DEFINE solid == {i \in DOMAIN line : line[i] # Space}
           low == Min(solid)
           high == Max(solid)
<1>6. s # <<>> /\ s = TrimSpace(line)
  BY <1>2 DEF Secrets
<1>7. solid # {} /\ s = SubSeq(line, low, high)
  BY <1>6 DEF TrimSpace
<1>8. low \in 1 .. Len(line) /\ high \in low .. Len(line)
  <2>1. Len(line) \in Nat /\ DOMAIN line = 1 .. Len(line)
    BY <1>5, LenProperties DEF Text
  <2>2. solid \subseteq 0 .. Len(line) /\ solid \subseteq 1 .. Len(line)
    BY <2>1
  <2> HIDE DEF solid
  <2>3. low \in solid /\ high \in solid /\ low <= high
    BY <1>7, <2>1, <2>2, MinMax
  <2>4. low \in 1 .. Len(line) /\ high \in 1 .. Len(line)
    BY <2>2, <2>3
  <2> HIDE DEF low, high
  <2> QED
    BY <2>1, <2>3, <2>4
<1> HIDE DEF low, high
<1>9. /\ low \in Int /\ high \in Int /\ low <= high
      /\ \A i \in low .. high : line[i] \in Atoms /\ line[i] # NL
      /\ \A i \in 1 .. high - low + 1 : low + i - 1 \in low .. high
  <2>1. Len(line) \in Nat
    BY <1>5, LenProperties DEF Text
  <2> QED
    BY <1>5, <1>8, <2>1
<1>10. /\ SubSeq(line, low, high) \in Seq(Atoms)
       /\ Len(SubSeq(line, low, high)) = high - low + 1
       /\ \A i \in 1 .. high - low + 1 :
              SubSeq(line, low, high)[i] = line[low + i - 1]
  BY <1>9, SubSeqProperties
<1> QED
  BY <1>6, <1>7, <1>9, <1>10 DEF Text
=============================================================================
