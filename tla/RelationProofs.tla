--------------------------- MODULE RelationProofs ---------------------------
(***************************************************************************)
(* Theorems about the relation kernel, for every document, every patch and *)
(* every bound: about RelationPatch, one patch operation by operation, and *)
(* about WorkspaceSession, the store that publishes and takes back.        *)
(*                                                                         *)
(* A node's list in pre-order is cut open where an operation works: the    *)
(* relations of one subtree are consecutive (SubtreeExists), so replacing, *)
(* pushing and removing one are all splices of a list, and a splice is     *)
(* undone by the splice that puts the old piece back.  StepBack says so of *)
(* every operation and its inverse, OneMoreLeadsBack of a whole patch.     *)
(***************************************************************************)
EXTENDS WorkspaceSession, RelationPatch, TLAPS, SequenceTheorems, WellFoundedInduction

-----------------------------------------------------------------------------
\* Every non-empty set of natural numbers has a least element.
LEMMA LeastElement ==
  ASSUME NEW T, T \subseteq Nat, T # {}
  PROVE  \E x \in T : \A y \in T : x <= y
<1> DEFINE Less == OpToRel(<, Nat)
<1>1. \E x \in T : \A y \in T : ~(<<y, x>> \in Less)
  BY NatLessThanWellFounded, WFMin
<1>2. \A x, y \in Nat : <<y, x>> \in Less <=> y < x
  BY DEF OpToRel
<1>3. PICK x \in T : \A y \in T : ~(<<y, x>> \in Less)
  BY <1>1
<1>4. ASSUME NEW y \in T PROVE x <= y
  <2>1. x \in Nat /\ y \in Nat
    OBVIOUS
  <2>2. ~(y < x)
    BY <1>2, <1>3, <2>1
  <2>3. QED
    BY <2>1, <2>2
<1>5. QED
  BY <1>4

\* What holds at the first index and goes from each index to the next holds
\* along a list.
LEMMA Along ==
  ASSUME NEW m \in Nat, NEW n \in Nat, NEW T, m <= n => m \in T,
         \A k \in m + 1 .. n : k - 1 \in T => k \in T
  PROVE  \A k \in m .. n : k \in T
<1> DEFINE bad == {k \in m .. n : k \notin T}
<1> SUFFICES ASSUME bad # {} PROVE FALSE
  OBVIOUS
<1>1. PICK k \in bad : \A j \in bad : k <= j
  <2>1. bad \subseteq Nat
    OBVIOUS
  <2> QED
    BY <2>1, LeastElement
<1>2. k \in m + 1 .. n /\ k - 1 \in m .. n /\ ~(k <= k - 1)
  BY <1>1
<1>3. k - 1 \in T
  BY <1>1, <1>2
<1> QED
  BY <1>1, <1>2, <1>3
-----------------------------------------------------------------------------
(***************************************************************************)
(* Prefixes.                                                               *)
(***************************************************************************)

\* A prefix, position by position.
LEMMA PrefixPointwise ==
  ASSUME NEW A, NEW s \in Seq(A), NEW t \in Seq(A)
  PROVE  IsPrefix(s, t) <=> Len(s) <= Len(t) /\ \A k \in 1 .. Len(s) : s[k] = t[k]
<1> DEFINE n == Len(s)
           u == SubSeq(t, 1, n)
<1>0. n \in Nat /\ Len(t) \in Nat
  OBVIOUS
<1>1. SubSeq(s, 1, n) = s
  BY SubSeqFull
<1>2. ASSUME n <= Len(t)
      PROVE  u \in Seq(A) /\ Len(u) = n /\ \A k \in 1 .. n : u[k] = t[k]
  <2>1. \A i \in 1 .. n : t[i] \in A
    BY <1>0, <1>2
  <2>2. /\ u \in Seq(A)
        /\ Len(u) = IF 1 <= n THEN n - 1 + 1 ELSE 0
        /\ \A i \in 1 .. n - 1 + 1 : u[i] = t[1 + i - 1]
    BY <1>0, <2>1, SubSeqProperties
  <2> QED
    BY <1>0, <2>2
<1>3. ASSUME n <= Len(t), \A k \in 1 .. n : s[k] = t[k] PROVE s = u
  <2> HIDE DEF u
  <2>1. Len(s) = Len(u) /\ \A i \in 1 .. Len(s) : s[i] = u[i]
    BY <1>2, <1>3
  <2> QED
    BY <1>2, <1>3, <2>1, SeqEqual
<1>4. ASSUME n <= Len(t), s = u PROVE \A k \in 1 .. n : s[k] = t[k]
  <2> HIDE DEF u
  <2> QED
    BY <1>2, <1>4
<1> QED
  BY <1>1, <1>3, <1>4 DEF IsPrefix

\* A list with one more element.
LEMMA Appended ==
  ASSUME NEW A, NEW s \in Seq(A), NEW e \in A
  PROVE  /\ Append(s, e) \in Seq(A)
         /\ Len(s) \in Nat
         /\ Len(Append(s, e)) = Len(s) + 1
         /\ \A k \in 1 .. Len(s) : Append(s, e)[k] = s[k]
         /\ Append(s, e)[Len(s) + 1] = e
OBVIOUS

\* A prefix of a prefix is a prefix.
LEMMA PrefixTransitive ==
  ASSUME NEW A, NEW s \in Seq(A), NEW t \in Seq(A), NEW u \in Seq(A),
         IsPrefix(s, t), IsPrefix(t, u)
  PROVE  IsPrefix(s, u)
<1>1. Len(s) <= Len(t) /\ \A k \in 1 .. Len(s) : s[k] = t[k]
  BY PrefixPointwise
<1>2. Len(t) <= Len(u) /\ \A k \in 1 .. Len(t) : t[k] = u[k]
  BY PrefixPointwise
<1>3. Len(s) <= Len(u) /\ \A k \in 1 .. Len(s) : s[k] = u[k]
  BY <1>1, <1>2
<1> QED
  BY <1>3, PrefixPointwise

\* Of two prefixes of one list, the shorter is a prefix of the longer.
LEMMA PrefixesOfOne ==
  ASSUME NEW A, NEW s \in Seq(A), NEW t \in Seq(A), NEW u \in Seq(A),
         IsPrefix(s, u), IsPrefix(t, u), Len(s) <= Len(t)
  PROVE  IsPrefix(s, t)
<1>1. Len(s) <= Len(u) /\ \A k \in 1 .. Len(s) : s[k] = u[k]
  BY PrefixPointwise
<1>2. Len(t) <= Len(u) /\ \A k \in 1 .. Len(t) : t[k] = u[k]
  BY PrefixPointwise
<1>3. \A k \in 1 .. Len(s) : s[k] = t[k]
  BY <1>1, <1>2
<1> QED
  BY <1>3, PrefixPointwise

\* What is a prefix of a longer path is one of the path, or all of it.
LEMMA PrefixOfAppend ==
  ASSUME NEW A, NEW s \in Seq(A), NEW e \in A
  PROVE  IsPrefix(s, Append(s, e)) /\ IsPrefix(<<>>, s) /\ IsPrefix(s, s)
<1>1. Append(s, e) \in Seq(A) /\ <<>> \in Seq(A)
  OBVIOUS
<1> DEFINE u == Append(s, e)
<1>2. IsPrefix(s, u)
  <2>1. u \in Seq(A) /\ Len(s) <= Len(u) /\ \A k \in 1 .. Len(s) : s[k] = u[k]
    BY Appended
  <2> HIDE DEF u
  <2> QED
    BY <2>1, PrefixPointwise
<1>3. IsPrefix(<<>>, s)
  <2> DEFINE empty == <<>>
  <2>1. empty \in Seq(A) /\ Len(empty) <= Len(s) /\ \A k \in 1 .. Len(empty) : empty[k] = s[k]
    OBVIOUS
  <2> HIDE DEF empty
  <2>2. IsPrefix(empty, s)
    BY <2>1, PrefixPointwise
  <2> QED
    BY <2>2 DEF empty
<1>4. IsPrefix(s, s)
  BY PrefixPointwise
<1> QED
  BY <1>2, <1>3, <1>4
-----------------------------------------------------------------------------
(***************************************************************************)
(* Splices: a piece of a list is taken out and another one put in.         *)
(***************************************************************************)

Splice(list, a, b, piece) ==
  SubSeq(list, 1, a - 1) \o piece \o SubSeq(list, b + 1, Len(list))

Spliced(new, A, list, a, b, piece) ==
  /\ new \in Seq(A)
  /\ Len(new) = Len(list) + Len(piece) - (b - a + 1)
  /\ \A i \in 1 .. a - 1 : new[i] = list[i]
  /\ \A i \in 1 .. Len(piece) : new[a - 1 + i] = piece[i]
  /\ \A i \in b + 1 .. Len(list) : new[i + Len(piece) - (b - a + 1)] = list[i]

\* What a splice holds, before, in and behind its piece.
LEMMA SpliceElements ==
  ASSUME NEW A, NEW list \in Seq(A), NEW piece \in Seq(A),
         NEW a \in 1 .. Len(list) + 1, NEW b \in a - 1 .. Len(list)
  PROVE  Spliced(Splice(list, a, b, piece), A, list, a, b, piece)
<1> DEFINE n == Len(list)
           m == Len(piece)
           head == SubSeq(list, 1, a - 1)
           tail == SubSeq(list, b + 1, n)
<1>0. n \in Nat /\ m \in Nat /\ a \in Int /\ b \in Int
  OBVIOUS
<1>1. head \in Seq(A) /\ Len(head) = a - 1 /\ \A i \in 1 .. a - 1 : head[i] = list[i]
  <2>1. a - 1 \in Int /\ \A i \in 1 .. a - 1 : list[i] \in A
    BY <1>0
  <2>2. /\ head \in Seq(A)
        /\ Len(head) = IF 1 <= a - 1 THEN a - 1 - 1 + 1 ELSE 0
        /\ \A i \in 1 .. a - 1 - 1 + 1 : head[i] = list[1 + i - 1]
    BY <1>0, <2>1, SubSeqProperties
  <2> QED
    BY <1>0, <2>2
<1>2. tail \in Seq(A) /\ Len(tail) = n - b /\ \A i \in 1 .. n - b : tail[i] = list[b + i]
  <2>1. b + 1 \in Int /\ \A i \in b + 1 .. n : list[i] \in A
    BY <1>0
  <2>2. /\ tail \in Seq(A)
        /\ Len(tail) = IF b + 1 <= n THEN n - (b + 1) + 1 ELSE 0
        /\ \A i \in 1 .. n - (b + 1) + 1 : tail[i] = list[b + 1 + i - 1]
    BY <1>0, <2>1, SubSeqProperties
  <2> QED
    BY <1>0, <2>2
<1> HIDE DEF head, tail
<1> DEFINE front == head \o piece
<1>3. /\ front \in Seq(A)
      /\ Len(front) = a - 1 + m
      /\ \A i \in 1 .. a - 1 + m :
           front[i] = IF i <= a - 1 THEN head[i] ELSE piece[i - (a - 1)]
  <2>1. /\ front \in Seq(A)
        /\ Len(front) = Len(head) + Len(piece)
        /\ \A i \in 1 .. Len(head) + Len(piece) :
             front[i] = IF i <= Len(head) THEN head[i] ELSE piece[i - Len(head)]
    BY <1>1, ConcatProperties
  <2> HIDE DEF front
  <2> QED
    BY <1>1, <2>1
<1> DEFINE new == front \o tail
<1> HIDE DEF front, m
<1>4. /\ new \in Seq(A)
      /\ Len(new) = a - 1 + m + (n - b)
      /\ \A i \in 1 .. a - 1 + m + (n - b) :
           new[i] = IF i <= a - 1 + m THEN front[i] ELSE tail[i - (a - 1 + m)]
  <2>1. /\ new \in Seq(A)
        /\ Len(new) = Len(front) + Len(tail)
        /\ \A i \in 1 .. Len(front) + Len(tail) :
             new[i] = IF i <= Len(front) THEN front[i] ELSE tail[i - Len(front)]
    BY <1>2, <1>3, ConcatProperties
  <2> HIDE DEF new
  <2> QED
    BY <1>2, <1>3, <2>1
<1> HIDE DEF new
<1>5. \A i \in 1 .. a - 1 : new[i] = list[i]
  <2> TAKE i \in 1 .. a - 1
  <2>1. i \in 1 .. a - 1 + m + (n - b) /\ i <= a - 1 + m /\ i \in 1 .. a - 1 + m /\ i <= a - 1
    BY <1>0
  <2>2. new[i] = front[i] /\ front[i] = head[i]
    BY <1>3, <1>4, <2>1
  <2> QED
    BY <1>1, <2>2
<1>6. \A i \in 1 .. m : new[a - 1 + i] = piece[i]
  <2> TAKE i \in 1 .. m
  <2>1. a - 1 + i \in 1 .. a - 1 + m + (n - b) /\ a - 1 + i <= a - 1 + m
    BY <1>0
  <2>2. ~(a - 1 + i <= a - 1) /\ a - 1 + i - (a - 1) = i /\ a - 1 + i \in 1 .. a - 1 + m
    BY <1>0
  <2> DEFINE k == a - 1 + i
  <2>3. k \in 1 .. a - 1 + m + (n - b) /\ k <= a - 1 + m /\ ~(k <= a - 1) /\ k - (a - 1) = i /\ k \in 1 .. a - 1 + m
    BY <2>1, <2>2
  <2> HIDE DEF k
  <2>4. new[k] = front[k] /\ front[k] = piece[i]
    BY <1>3, <1>4, <2>3
  <2> QED
    BY <2>4 DEF k
<1>7. \A i \in b + 1 .. n : new[i + m - (b - a + 1)] = list[i]
  <2> TAKE i \in b + 1 .. n
  <2> DEFINE k == i + m - (b - a + 1)
  <2>1. k \in 1 .. a - 1 + m + (n - b) /\ ~(k <= a - 1 + m) /\ k - (a - 1 + m) = i - b
    BY <1>0
  <2>2. i - b \in 1 .. n - b /\ b + (i - b) = i
    BY <1>0
  <2> HIDE DEF k
  <2>3. new[k] = tail[i - b]
    BY <1>4, <2>1
  <2> QED
    BY <1>2, <2>2, <2>3 DEF k
<1>8. Spliced(new, A, list, a, b, piece)
  BY <1>0, <1>4, <1>5, <1>6, <1>7 DEF Spliced, m
<1> QED
  BY <1>8 DEF Splice, new, front, head, tail

\* Each element of a splice is in the list on one of the two sides of the
\* piece, or in the piece.
LEMMA SpliceSides ==
  ASSUME NEW A, NEW list \in Seq(A), NEW piece \in Seq(A),
         NEW a \in 1 .. Len(list) + 1, NEW b \in a - 1 .. Len(list),
         NEW i \in 1 .. Len(Splice(list, a, b, piece))
  PROVE  LET new == Splice(list, a, b, piece)
             m == Len(piece)
         IN  \/ i \in 1 .. a - 1 /\ new[i] = list[i]
             \/ i - (a - 1) \in 1 .. m /\ new[i] = piece[i - (a - 1)]
             \/ /\ i - m + (b - a + 1) \in b + 1 .. Len(list)
                /\ new[i] = list[i - m + (b - a + 1)]
<1> DEFINE new == Splice(list, a, b, piece)
           m == Len(piece)
           n == Len(list)
<1>0. Spliced(new, A, list, a, b, piece)
  BY SpliceElements
<1> HIDE DEF new
<1>1. /\ Len(new) = n + m - (b - a + 1)
      /\ \A k \in 1 .. a - 1 : new[k] = list[k]
      /\ \A k \in 1 .. m : new[a - 1 + k] = piece[k]
      /\ \A k \in b + 1 .. n : new[k + m - (b - a + 1)] = list[k]
  BY <1>0 DEF Spliced
<1>2. n \in Nat /\ m \in Nat /\ i \in 1 .. Len(new)
  BY DEF new
<1>3. CASE i <= a - 1
  BY <1>1, <1>2, <1>3 DEF new
<1>4. CASE a - 1 < i /\ i <= a - 1 + m
  <2>1. i - (a - 1) \in 1 .. m /\ a - 1 + (i - (a - 1)) = i
    BY <1>2, <1>4
  <2> QED
    BY <1>1, <2>1 DEF new
<1>5. CASE a - 1 + m < i
  <2> DEFINE k == i - m + (b - a + 1)
  <2>1. k \in b + 1 .. n /\ k + m - (b - a + 1) = i
    BY <1>1, <1>2, <1>5
  <2> HIDE DEF k
  <2>2. new[i] = list[k]
    BY <1>1, <2>1
  <2> QED
    BY <2>1, <2>2 DEF k, new
<1> QED
  BY <1>2, <1>3, <1>4, <1>5

\* What is put where a piece was, and then the piece in its place again.
LEMMA SpliceBack ==
  ASSUME NEW A, NEW list \in Seq(A), NEW piece \in Seq(A),
         NEW a \in 1 .. Len(list) + 1, NEW b \in a - 1 .. Len(list),
         NEW old \in Seq(A), Len(old) = b - a + 1,
         \A i \in 1 .. Len(old) : old[i] = list[a - 1 + i]
  PROVE  Splice(Splice(list, a, b, piece), a, a - 1 + Len(piece), old) = list
<1> DEFINE new == Splice(list, a, b, piece)
           m == Len(piece)
           n == Len(list)
           back == Splice(new, a, a - 1 + m, old)
<1>0. n \in Nat /\ m \in Nat /\ Len(old) \in Nat
  OBVIOUS
<1>10. Spliced(new, A, list, a, b, piece)
  BY SpliceElements
<1> HIDE DEF new
<1>1. /\ new \in Seq(A)
      /\ Len(new) = n + m - (b - a + 1)
      /\ \A k \in 1 .. a - 1 : new[k] = list[k]
      /\ \A k \in b + 1 .. n : new[k + m - (b - a + 1)] = list[k]
  BY <1>10 DEF Spliced
<1>2. a \in 1 .. Len(new) + 1 /\ a - 1 + m \in a - 1 .. Len(new)
  BY <1>0, <1>1
<1>3. /\ back \in Seq(A)
      /\ Len(back) = Len(new) + Len(old) - (a - 1 + m - a + 1)
      /\ \A i \in 1 .. a - 1 : back[i] = new[i]
      /\ \A i \in 1 .. Len(old) : back[a - 1 + i] = old[i]
      /\ \A i \in a - 1 + m + 1 .. Len(new) :
           back[i + Len(old) - (a - 1 + m - a + 1)] = new[i]
  <2> DEFINE c == a - 1 + m
  <2>1. c \in a - 1 .. Len(new)
    BY <1>2
  <2> HIDE DEF c
  <2>2. Spliced(Splice(new, a, c, old), A, new, a, c, old)
    BY <1>1, <1>2, <2>1, SpliceElements
  <2> QED
    BY <2>2 DEF c, Spliced
<1>4. Len(back) = n
  BY <1>0, <1>1, <1>3
<1> HIDE DEF back
<1>5. ASSUME NEW i \in 1 .. n PROVE back[i] = list[i]
  <2>1. CASE i <= a - 1
    BY <1>1, <1>3, <2>1
  <2>2. CASE a - 1 < i /\ i <= b
    <3> DEFINE k == i - (a - 1)
    <3>1. k \in 1 .. Len(old) /\ a - 1 + k = i
      BY <1>0, <2>2
    <3> HIDE DEF k
    <3>2. back[a - 1 + k] = old[k] /\ old[k] = list[a - 1 + k]
      BY <1>3, <3>1
    <3> QED
      BY <3>1, <3>2
  <2>3. CASE b < i
    <3> DEFINE k == i + m - (b - a + 1)
    <3>1. k \in a - 1 + m + 1 .. Len(new) /\ k + Len(old) - (a - 1 + m - a + 1) = i
      BY <1>0, <1>1, <2>3
    <3> HIDE DEF k
    <3>2. back[i] = new[k]
      BY <1>3, <3>1
    <3>3. i \in b + 1 .. n
      BY <1>0, <2>3
    <3> QED
      BY <1>1, <3>2, <3>3 DEF k
  <2> QED
    BY <1>0, <2>1, <2>2, <2>3
<1> QED
  BY <1>3, <1>4, <1>5, SeqEqual DEF back, new
-----------------------------------------------------------------------------
(***************************************************************************)
(* Lists of relations in pre-order.                                        *)
(***************************************************************************)

\* One relation may come directly behind another in pre-order.
Follows(x, y) == IsPrefix(y.path, Append(x.path, x.id))

Distinct(list) ==
  \A i, j \in 1 .. Len(list) : list[i].id = list[j].id => i = j

\* The parts of a relation.
LEMMA RelationType ==
  ASSUME NEW x \in Relation
  PROVE  /\ x.id \in RelationIds
         /\ x.path \in Seq(RelationIds)
         /\ Len(x.path) \in Nat
         /\ Append(x.path, x.id) \in Seq(RelationIds)
         /\ Len(Append(x.path, x.id)) = Len(x.path) + 1
         /\ \A k \in 1 .. Len(x.path) : Append(x.path, x.id)[k] = x.path[k]
         /\ Append(x.path, x.id)[Len(x.path) + 1] = x.id
<1>1. x.id \in RelationIds /\ x.path \in Seq(RelationIds)
  BY DEF Relation
<1> QED
  BY <1>1, Appended

\* Pre-order is a matter of neighbours.
LEMMA PreorderSteps ==
  ASSUME NEW list \in Seq(Relation)
  PROVE  Preorder(list) <=>
           /\ Len(list) > 0 => list[1].path = <<>>
           /\ \A i \in 2 .. Len(list) : Follows(list[i - 1], list[i])
<1>1. Len(list) \in Nat /\ DOMAIN list = 1 .. Len(list)
  OBVIOUS
<1>2. ASSUME Preorder(list)
      PROVE  /\ Len(list) > 0 => list[1].path = <<>>
             /\ \A i \in 2 .. Len(list) : Follows(list[i - 1], list[i])
  <2>1. \A i \in 1 .. Len(list) :
          IF i = 1 THEN list[i].path = <<>>
          ELSE IsPrefix(list[i].path, Append(list[i - 1].path, list[i - 1].id))
    BY <1>1, <1>2 DEF Preorder
  <2>2. Len(list) > 0 => list[1].path = <<>>
    BY <1>1, <2>1
  <2>3. \A i \in 2 .. Len(list) : i \in 1 .. Len(list) /\ i # 1
    BY <1>1
  <2> QED
    BY <2>1, <2>2, <2>3 DEF Follows
<1>3. ASSUME Len(list) > 0 => list[1].path = <<>>,
             \A i \in 2 .. Len(list) : Follows(list[i - 1], list[i])
      PROVE  Preorder(list)
  <2>1. ASSUME NEW i \in 1 .. Len(list)
        PROVE  IF i = 1 THEN list[i].path = <<>>
               ELSE IsPrefix(list[i].path, Append(list[i - 1].path, list[i - 1].id))
    <3>1. CASE i = 1
      <4>1. Len(list) > 0
        BY <1>1, <3>1
      <4> QED
        BY <1>3, <3>1, <4>1
    <3>2. CASE i # 1
      <4>1. i \in 2 .. Len(list)
        BY <1>1, <3>2
      <4> QED
        BY <1>3, <3>2, <4>1 DEF Follows
    <3> QED
      BY <3>1, <3>2
  <2> QED
    BY <1>1, <2>1 DEF Preorder
<1> QED
  BY <1>2, <1>3

\* x is the k-th of the relations that y is nested in.
Encloses(x, y, k) ==
  /\ y.path[k] = x.id
  /\ Len(x.path) = k - 1
  /\ \A l \in 1 .. k - 1 : x.path[l] = y.path[l]

\* What encloses a relation at some depth.
LEMMA EnclosesOne ==
  ASSUME NEW x \in Relation, NEW y \in Relation, Follows(x, y),
         NEW k \in 1 .. Len(y.path)
  PROVE  \/ Encloses(x, y, k)
         \/ k \in 1 .. Len(x.path) /\ \A l \in 1 .. k : y.path[l] = x.path[l]
<1> DEFINE u == Append(x.path, x.id)
<1>1. /\ x.path \in Seq(RelationIds) /\ y.path \in Seq(RelationIds)
      /\ Len(x.path) \in Nat /\ Len(y.path) \in Nat
      /\ u \in Seq(RelationIds)
      /\ Len(u) = Len(x.path) + 1
      /\ \A l \in 1 .. Len(x.path) : u[l] = x.path[l]
      /\ u[Len(x.path) + 1] = x.id
  BY RelationType
<1> HIDE DEF u
<1>2. Len(y.path) <= Len(u) /\ \A l \in 1 .. Len(y.path) : y.path[l] = u[l]
  <2>1. IsPrefix(y.path, u)
    BY DEF Follows, u
  <2> QED
    BY <1>1, <2>1, PrefixPointwise
<1>3. k \in 1 .. Len(x.path) + 1
  BY <1>1, <1>2
<1>4. CASE k = Len(x.path) + 1
  BY <1>1, <1>2, <1>4 DEF Encloses
<1>5. CASE k # Len(x.path) + 1
  <2>1. k \in Nat /\ k \in 1 .. Len(x.path) /\ k <= Len(y.path)
    BY <1>1, <1>3, <1>5
  <2>2. \A l \in 1 .. k : y.path[l] = x.path[l]
    <3> TAKE l \in 1 .. k
    <3>1. l \in 1 .. Len(x.path) /\ l \in 1 .. Len(y.path)
      BY <1>1, <2>1
    <3> QED
      BY <1>1, <1>2, <3>1
  <2> QED
    BY <2>1, <2>2
<1> QED
  BY <1>4, <1>5

\* Every relation comes behind the ones it is nested in.
LEMMA Ancestors ==
  ASSUME NEW list \in Seq(Relation), Preorder(list),
         NEW i \in 1 .. Len(list), NEW k \in 1 .. Len(list[i].path)
  PROVE  \E j \in 1 .. i - 1 : Encloses(list[j], list[i], k)
<1> DEFINE n == Len(list)
           Known(m) == \A q \in 1 .. Len(list[m].path) :
                         \E j \in 1 .. m - 1 : Encloses(list[j], list[m], q)
           T == {m \in 1 .. n : Known(m)}
<1>1. n \in Nat /\ DOMAIN list = 1 .. n /\ \A m \in 1 .. n : list[m] \in Relation
  OBVIOUS
<1>2. /\ n > 0 => list[1].path = <<>>
      /\ \A m \in 2 .. n : Follows(list[m - 1], list[m])
  BY PreorderSteps
<1>3. 1 <= n => 1 \in T
  BY <1>1, <1>2
<1>4. ASSUME NEW m \in 1 + 1 .. n, m - 1 \in T PROVE m \in T
  <2>1. m \in 1 .. n /\ m - 1 \in 1 .. n /\ list[m] \in Relation /\ list[m-1] \in Relation
    BY <1>1
  <2>2. Follows(list[m-1], list[m])
    BY <1>1, <1>2
  <2>3. ASSUME NEW q \in 1 .. Len(list[m].path)
        PROVE  \E j \in 1 .. m - 1 : Encloses(list[j], list[m], q)
    <3>1. CASE Encloses(list[m-1], list[m], q)
      BY <2>1, <3>1
    <3>2. CASE q \in 1 .. Len(list[m-1].path) /\ \A l \in 1 .. q : list[m].path[l] = list[m-1].path[l]
      <4>1. PICK j \in 1 .. m - 1 - 1 : Encloses(list[j], list[m-1], q)
        BY <1>4, <3>2
      <4>2. j \in 1 .. m - 1
        BY <2>1
      <4>3. q \in Nat /\ q \in 1 .. q /\ \A l \in 1 .. q - 1 : l \in 1 .. q
        BY <3>2
      <4>4. Encloses(list[j], list[m], q)
        BY <3>2, <4>1, <4>3 DEF Encloses
      <4> QED
        BY <4>2, <4>4
    <3> QED
      BY <2>1, <2>2, <3>1, <3>2, EnclosesOne
  <2> QED
    BY <2>1, <2>3
<1> HIDE DEF T
<1>5. \A m \in 1 .. n : m \in T
  BY <1>1, <1>3, <1>4, Along
<1> QED
  BY <1>5 DEF T

\* A list of relations as a graph that can be indexed has it.
IsForest(list) == list \in Seq(Relation) /\ Preorder(list) /\ Distinct(list)

Nested(x, y) == Len(x.path) + 1 <= Len(y.path) /\ Encloses(x, y, Len(x.path) + 1)

\* In a forest, a relation is in the subtree of another when it is that one or nested in it.
LEMMA InSubtreeNested ==
  ASSUME NEW list, IsForest(list), NEW a \in 1 .. Len(list), NEW i \in 1 .. Len(list)
  PROVE  /\ InSubtree(list[i], list[a].id) <=> i = a \/ Nested(list[a], list[i])
         /\ Nested(list[a], list[i]) => a < i
<1>1. /\ list \in Seq(Relation) /\ Preorder(list)
      /\ \A j, k \in 1 .. Len(list) : list[j].id = list[k].id => j = k
      /\ Len(list) \in Nat
      /\ list[a] \in Relation /\ list[i] \in Relation
  BY DEF IsForest, Distinct
<1>2. /\ Len(list[a].path) \in Nat /\ Len(list[i].path) \in Nat
      /\ list[a].path \in Seq(RelationIds) /\ list[i].path \in Seq(RelationIds)
      /\ DOMAIN list[i].path = 1 .. Len(list[i].path)
  BY <1>1, RelationType
<1>3. ASSUME NEW k \in 1 .. Len(list[i].path), list[i].path[k] = list[a].id
      PROVE  a < i /\ Nested(list[a], list[i])
  <2>1. PICK j \in 1 .. i - 1 : Encloses(list[j], list[i], k)
    BY <1>1, Ancestors
  <2>2. j = a
    <3>1. list[j].id = list[a].id /\ j \in 1 .. Len(list)
      BY <1>1, <1>3, <2>1 DEF Encloses
    <3> QED
      BY <1>1, <3>1
  <2>3. Len(list[a].path) + 1 = k /\ Encloses(list[a], list[i], k)
    BY <1>2, <2>1, <2>2 DEF Encloses
  <2> QED
    BY <2>1, <2>2, <2>3 DEF Nested
<1>4. ASSUME Nested(list[a], list[i])
      PROVE  \E k \in 1 .. Len(list[i].path) : list[i].path[k] = list[a].id
  <2>1. Len(list[a].path) + 1 \in 1 .. Len(list[i].path)
    BY <1>2, <1>4 DEF Nested
  <2> QED
    BY <1>4, <2>1 DEF Nested, Encloses
<1>5. Nested(list[a], list[i]) => a < i
  BY <1>3, <1>4
<1>6. InSubtree(list[i], list[a].id) <=>
        i = a \/ \E k \in 1 .. Len(list[i].path) : list[i].path[k] = list[a].id
  <2>1. list[i].id = list[a].id <=> i = a
    BY <1>1
  <2>2. list[a].id \in Range(list[i].path) <=>
          \E k \in 1 .. Len(list[i].path) : list[i].path[k] = list[a].id
    BY <1>2 DEF Range
  <2> QED
    BY <2>1, <2>2 DEF InSubtree
<1> QED
  BY <1>3, <1>4, <1>5, <1>6

\* The relation at a with everything nested in it lies from a to b.
IsSubtree(list, a, b) ==
  /\ a \in 1 .. Len(list)
  /\ b \in a .. Len(list)
  /\ \A i \in 1 .. Len(list) : InSubtree(list[i], list[a].id) <=> i \in a .. b

\* In a forest, a subtree is a stretch of consecutive relations.
LEMMA SubtreeExists ==
  ASSUME NEW list, IsForest(list), NEW a \in 1 .. Len(list)
  PROVE  \E b \in a .. Len(list) : IsSubtree(list, a, b)
<1> DEFINE n == Len(list)
           In(i) == InSubtree(list[i], list[a].id)
           out == {i \in a + 1 .. n : ~In(i)}
<1>1. /\ list \in Seq(Relation) /\ Preorder(list) /\ n \in Nat
      /\ \A j \in 1 .. n : list[j] \in Relation
      /\ \A j, k \in 1 .. n : list[j].id = list[k].id => j = k
  BY DEF IsForest, Distinct
<1>2. In(a) /\ \A i \in 1 .. a - 1 : ~In(i)
  <2>1. In(a)
    BY InSubtreeNested
  <2>2. ASSUME NEW i \in 1 .. a - 1 PROVE ~In(i)
    <3>1. i \in 1 .. n /\ ~(i = a) /\ ~(a < i)
      BY <1>1
    <3> QED
      BY <3>1, InSubtreeNested
  <2> QED
    BY <2>1, <2>2
<1>3. CASE out = {}
  <2>1. \A i \in 1 .. n : In(i) <=> i \in a .. n
    <3> TAKE i \in 1 .. n
    <3>1. i \in 1 .. a - 1 \/ i = a \/ i \in a + 1 .. n
      BY <1>1
    <3>2. i \in a + 1 .. n => In(i)
      BY <1>3
    <3> HIDE DEF In
    <3> QED
      BY <1>1, <1>2, <3>1, <3>2
  <2>2. n \in a .. n
    BY <1>1
  <2> QED
    BY <2>1, <2>2 DEF IsSubtree
<1>4. CASE out # {}
  <2>1. PICK m \in out : \A i \in out : m <= i
    <3>1. out \subseteq Nat
      BY <1>1
    <3> HIDE DEF out
    <3> QED
      BY <1>4, <3>1, LeastElement
  <2>2. m \in a + 1 .. n /\ ~In(m) /\ \A i \in a + 1 .. m - 1 : In(i)
    BY <1>1, <2>1
  <2> DEFINE T == {i \in m .. n : ~In(i)}
  <2>3. ASSUME NEW i \in m + 1 .. n, i - 1 \in T PROVE i \in T
    <3>1. i \in 1 .. n /\ i - 1 \in 1 .. n /\ i \in 2 .. n /\ i - 1 # a /\ i \in m .. n /\ i # a
      BY <1>1, <2>2
    <3>2. ~In(i - 1)
      BY <2>3
    <3>3. Follows(list[i-1], list[i])
      BY <1>1, <3>1, PreorderSteps
    <3>4. ASSUME Nested(list[a], list[i]) PROVE FALSE
      <4> DEFINE k == Len(list[a].path) + 1
      <4>0. Len(list[a].path) \in Nat /\ Len(list[i].path) \in Nat /\ Len(list[i-1].path) \in Nat
        BY <1>1, <3>1, RelationType
      <4>1. k \in 1 .. Len(list[i].path) /\ Encloses(list[a], list[i], k)
        BY <3>4, <4>0 DEF Nested
      <4> HIDE DEF k
      <4>2. list[i-1] \in Relation /\ list[i] \in Relation /\ list[a] \in Relation
        BY <1>1, <3>1
      <4>3. CASE Encloses(list[i-1], list[i], k)
        <5>1. list[i-1].id = list[a].id
          BY <4>1, <4>3 DEF Encloses
        <5> QED
          BY <1>1, <3>1, <5>1
      <4>4. CASE k \in 1 .. Len(list[i-1].path) /\ \A l \in 1 .. k : list[i].path[l] = list[i-1].path[l]
        <5>1. k \in 1 .. k /\ \A l \in 1 .. k - 1 : l \in 1 .. k
          BY <4>4
        <5>2. Encloses(list[a], list[i-1], k)
          BY <4>1, <4>4, <5>1 DEF Encloses
        <5>3. Nested(list[a], list[i-1])
          BY <4>0, <4>4, <5>2 DEF Nested, k
        <5> QED
          BY <3>1, <3>2, <5>3, InSubtreeNested
      <4> QED
        BY <3>3, <4>1, <4>2, <4>3, <4>4, EnclosesOne
    <3>5. ~In(i)
      BY <3>1, <3>4, InSubtreeNested
    <3> HIDE DEF In
    <3> QED
      BY <3>1, <3>5
  <2>4. m \in T
    BY <1>1, <2>2
  <2>5. \A i \in m .. n : i \in T
    <3> HIDE DEF T
    <3>1. m \in Nat
      BY <2>2
    <3> QED
      BY <1>1, <2>3, <2>4, <3>1, Along
  <2> HIDE DEF In
  <2>6. \A i \in 1 .. n : In(i) <=> i \in a .. m - 1
    <3> TAKE i \in 1 .. n
    <3>1. i \in 1 .. a - 1 \/ i = a \/ i \in a + 1 .. m - 1 \/ i \in m .. n
      BY <1>1, <2>2
    <3> QED
      BY <1>1, <1>2, <2>2, <2>5, <3>1
  <2>7. m - 1 \in a .. n
    BY <1>1, <2>2
  <2> QED
    BY <2>6, <2>7 DEF IsSubtree, In
<1> QED
  BY <1>3, <1>4

\* Behind a subtree comes nothing deeper than its root.
LEMMA BehindSubtree ==
  ASSUME NEW list, IsForest(list), NEW a, NEW b, IsSubtree(list, a, b), b < Len(list)
  PROVE  IsPrefix(list[b + 1].path, list[a].path)
<1> DEFINE n == Len(list)
           p == list[a].path
           q == list[b + 1].path
<1>1. /\ list \in Seq(Relation) /\ Preorder(list) /\ n \in Nat
      /\ \A j \in 1 .. n : list[j] \in Relation
      /\ a \in 1 .. n /\ b \in a .. n /\ b + 1 \in 2 .. n /\ b + 1 \in 1 .. n /\ b \in 1 .. n
      /\ b + 1 # a /\ b + 1 \notin a .. b
  BY DEF IsForest, IsSubtree
<1>2. /\ p \in Seq(RelationIds) /\ q \in Seq(RelationIds) /\ list[b].path \in Seq(RelationIds)
      /\ Len(p) \in Nat /\ Len(q) \in Nat /\ Len(list[b].path) \in Nat
  BY <1>1, RelationType
<1>3. Follows(list[b], list[b + 1])
  <2>1. Follows(list[b + 1 - 1], list[b + 1])
    BY <1>1, PreorderSteps
  <2> QED
    BY <1>1, <2>1
<1>4. ~Nested(list[a], list[b + 1])
  <2>1. ~InSubtree(list[b + 1], list[a].id)
    BY <1>1 DEF IsSubtree
  <2> QED
    BY <1>1, <2>1, InSubtreeNested
<1>5. b = a \/ Nested(list[a], list[b])
  <2>1. InSubtree(list[b], list[a].id)
    BY <1>1 DEF IsSubtree
  <2> QED
    BY <1>1, <2>1, InSubtreeNested
\* Up to the length of the root's path, the path below b is the root's.
<1>6. \A k \in 1 .. Len(q) : k <= Len(p) => q[k] = p[k]
  <2> SUFFICES ASSUME NEW k \in 1 .. Len(q), k <= Len(p) PROVE q[k] = p[k]
    OBVIOUS
  <2>1. k \in 1 .. Len(p) /\ k <= Len(list[b].path) /\ list[b].path[k] = p[k]
    <3>1. CASE b = a
      BY <1>2, <3>1
    <3>2. CASE Nested(list[a], list[b])
      BY <1>2, <3>2 DEF Nested, Encloses
    <3> QED
      BY <1>5, <3>1, <3>2
  <2>2. CASE Encloses(list[b], list[b + 1], k)
    <3>1. Len(list[b].path) = k - 1
      BY <2>2 DEF Encloses
    <3> QED
      BY <1>2, <2>1, <3>1
  <2>3. CASE k \in 1 .. Len(list[b].path) /\ \A l \in 1 .. k : q[l] = list[b].path[l]
    <3>1. k \in 1 .. k
      BY <2>3
    <3> QED
      BY <2>1, <2>3, <3>1
  <2> QED
    BY <1>1, <1>3, <2>2, <2>3, EnclosesOne
<1>7. Len(q) <= Len(p)
  <2> SUFFICES ASSUME Len(q) > Len(p) PROVE FALSE
    BY <1>2
  <2> DEFINE k == Len(p) + 1
  <2>1. k \in 1 .. Len(q)
    BY <1>2, SMTT(30)
  <2>2. CASE Encloses(list[b], list[b + 1], k)
    <3>1. Len(list[b].path) = Len(p)
      BY <1>2, <2>2 DEF Encloses
    <3>2. b = a
      BY <1>2, <1>5, <3>1 DEF Nested
    <3> QED
      BY <1>4, <1>2, <2>1, <2>2, <3>2 DEF Nested
  <2>3. CASE k \in 1 .. Len(list[b].path) /\ \A l \in 1 .. k : q[l] = list[b].path[l]
    <3>1. Nested(list[a], list[b])
      BY <1>2, <1>5, <2>3
    <3>2. /\ list[b].path[k] = list[a].id
          /\ \A l \in 1 .. k - 1 : p[l] = list[b].path[l]
      BY <3>1 DEF Nested, Encloses
    <3>3. q[k] = list[a].id /\ \A l \in 1 .. k - 1 : p[l] = q[l]
      <4>1. k \in 1 .. k /\ \A l \in 1 .. k - 1 : l \in 1 .. k
        BY <1>2
      <4> HIDE DEF k, p, q
      <4> QED
        BY <2>3, <3>2, <4>1
    <3>4. Encloses(list[a], list[b + 1], k)
      BY <1>2, <3>3 DEF Encloses
    <3> QED
      BY <1>4, <2>1, <3>4 DEF Nested
  <2> HIDE DEF k
  <2> QED
    BY <1>1, <1>3, <2>1, <2>2, <2>3, EnclosesOne
<1>8. \A k \in 1 .. Len(q) : q[k] = p[k]
  BY <1>2, <1>6, <1>7
<1> QED
  BY <1>2, <1>7, <1>8, PrefixPointwise

\* An id of a list is found where it is.
LEMMA IndexOfFound ==
  ASSUME NEW list, IsForest(list), NEW id, id \in Ids(list)
  PROVE  /\ IndexOf(list, id) \in 1 .. Len(list)
         /\ list[IndexOf(list, id)].id = id
         /\ \A i \in 1 .. Len(list) : list[i].id = id => i = IndexOf(list, id)
<1>1. DOMAIN list = 1 .. Len(list) /\ Distinct(list)
  BY DEF IsForest
<1>2. \E i \in DOMAIN list : list[i].id = id
  BY DEF Ids
<1>3. IndexOf(list, id) \in DOMAIN list /\ list[IndexOf(list, id)].id = id
  BY <1>2 DEF IndexOf
<1> QED
  BY <1>1, <1>3 DEF Distinct

\* The lists that Only() goes through.
Filtering(kept, list, S, m) ==
  /\ DOMAIN kept = 0 .. m
  /\ kept[0] = <<>>
  /\ \A k \in 1 .. m :
       kept[k] = IF list[k] \in S THEN Append(kept[k - 1], list[k]) ELSE kept[k - 1]

\* Filtering a list, one element at a time.
LEMMA OnlySteps ==
  ASSUME NEW A, NEW list \in Seq(A), NEW S
  PROVE  \E kept : Filtering(kept, list, S, Len(list)) /\ Only(list, S) = kept[Len(list)]
<1> DEFINE n == Len(list)
           Def(f) == f = [k \in 0 .. n |->
                            IF k = 0 THEN <<>>
                            ELSE IF list[k] \in S THEN Append(f[k - 1], list[k])
                            ELSE f[k - 1]]
           T == {m \in 0 .. n : \E f : Filtering(f, list, S, m)}
           kept == CHOOSE f : Def(f)
<1>0. n \in Nat
  OBVIOUS
<1>1. 0 \in T
  <2> DEFINE f == [k \in 0 .. 0 |-> <<>>]
  <2>1. Filtering(f, list, S, 0)
    BY DEF Filtering
  <2> HIDE DEF f
  <2> QED
    BY <1>0, <2>1
<1>2. ASSUME NEW m \in 0 + 1 .. n, m - 1 \in T PROVE m \in T
  <2>1. PICK f : Filtering(f, list, S, m - 1)
    BY <1>2
  <2> DEFINE g == [k \in 0 .. m |->
                     IF k = m
                     THEN IF list[m] \in S THEN Append(f[m - 1], list[m]) ELSE f[m - 1]
                     ELSE f[k]]
  <2>2. DOMAIN g = 0 .. m /\ g[0] = <<>>
    BY <2>1 DEF Filtering
  <2>3. ASSUME NEW k \in 1 .. m
        PROVE  g[k] = IF list[k] \in S THEN Append(g[k - 1], list[k]) ELSE g[k - 1]
    <3>1. k - 1 \in 0 .. m /\ k - 1 # m /\ k \in 0 .. m
      OBVIOUS
    <3>2. g[k - 1] = f[k - 1]
      BY <3>1
    <3>3. CASE k = m
      BY <3>1, <3>2, <3>3
    <3>4. CASE k # m
      <4>1. k \in 1 .. m - 1 /\ g[k] = f[k]
        BY <3>4
      <4> HIDE DEF g
      <4> QED
        BY <2>1, <3>2, <4>1 DEF Filtering
    <3> QED
      BY <3>3, <3>4
  <2> HIDE DEF g
  <2>4. Filtering(g, list, S, m)
    BY <2>2, <2>3 DEF Filtering
  <2> QED
    BY <1>2, <2>4
<1>3. PICK f : Filtering(f, list, S, n)
  <2> HIDE DEF T
  <2>1. \A m \in 0 .. n : m \in T
    BY <1>0, <1>1, <1>2, Along
  <2>2. n \in T
    BY <1>0, <2>1
  <2> QED
    BY <2>2 DEF T
<1>4. \E g : Def(g)
  <2> DEFINE g == [k \in 0 .. n |-> f[k]]
  <2>1. \A k \in 0 .. n : g[k] = IF k = 0 THEN <<>>
                                 ELSE IF list[k] \in S THEN Append(g[k - 1], list[k])
                                 ELSE g[k - 1]
    <3> TAKE k \in 0 .. n
    <3>1. k = 0 \/ (k \in 1 .. n /\ k - 1 \in 0 .. n /\ k # 0)
      BY <1>0
    <3> QED
      BY <1>3, <3>1 DEF Filtering
  <2>2. DOMAIN g = 0 .. n /\ g = [k \in 0 .. n |-> g[k]]
    OBVIOUS
  <2> HIDE DEF g
  <2>3. g = [k \in 0 .. n |-> IF k = 0 THEN <<>>
                             ELSE IF list[k] \in S THEN Append(g[k - 1], list[k])
                             ELSE g[k - 1]]
    BY <2>1, <2>2
  <2> QED
    BY <2>3
<1>5. Def(kept)
  <2> HIDE DEF Def
  <2> QED
    BY <1>4
<1>6. Only(list, S) = kept[n]
  BY DEF Only
<1> HIDE DEF kept
<1>7. Filtering(kept, list, S, n)
  <2>1. DOMAIN kept = 0 .. n
    BY <1>5
  <2>2. \A k \in 0 .. n : kept[k] = IF k = 0 THEN <<>>
                                    ELSE IF list[k] \in S THEN Append(kept[k - 1], list[k])
                                    ELSE kept[k - 1]
    BY <1>5
  <2>3. 0 \in 0 .. n /\ \A k \in 1 .. n : k \in 0 .. n /\ k # 0
    BY <1>0
  <2> HIDE DEF Def
  <2> QED
    BY <2>1, <2>2, <2>3 DEF Filtering
<1> QED
  BY <1>6, <1>7

\* The elements that are kept are a piece of the list.
LEMMA OnlyPiece ==
  ASSUME NEW A, NEW list \in Seq(A), NEW S,
         NEW a \in 1 .. Len(list) + 1, NEW b \in a - 1 .. Len(list),
         \A i \in 1 .. Len(list) : list[i] \in S <=> i \in a .. b
  PROVE  Only(list, S) = SubSeq(list, a, b)
<1> DEFINE n == Len(list)
           Kept(k) == IF k < a THEN <<>> ELSE IF k <= b THEN SubSeq(list, a, k) ELSE SubSeq(list, a, b)
<1>0. n \in Nat /\ a \in Int /\ b \in Int
  OBVIOUS
<1>1. PICK kept : Filtering(kept, list, S, n) /\ Only(list, S) = kept[n]
  BY OnlySteps
<1> DEFINE T == {k \in 0 .. n : kept[k] = Kept(k)}
<1>2. 0 \in T
  BY <1>0, <1>1 DEF Filtering
<1>3. ASSUME NEW k \in 0 + 1 .. n, k - 1 \in T PROVE k \in T
  <2>1. /\ kept[k] = IF k \in a .. b THEN Append(kept[k - 1], list[k]) ELSE kept[k - 1]
        /\ kept[k - 1] = Kept(k - 1)
    BY <1>0, <1>1, <1>3 DEF Filtering
  <2>2. CASE k < a
    <3>1. k \notin a .. b /\ k - 1 < a
      BY <1>0, <2>2
    <3> QED
      BY <2>1, <2>2, <3>1
  <2>3. CASE b < k /\ ~(k < a)
    <3>1. k \notin a .. b /\ ~(k <= b)
      BY <1>0, <2>3
    <3>2. Kept(k - 1) = SubSeq(list, a, b)
      <4>1. CASE k - 1 < a
        <5>1. b < a
          BY <1>0, <2>3, <4>1
        <5>2. SubSeq(list, a, b) = <<>>
          BY <1>0, <5>1, SubSeqEmpty
        <5> QED
          BY <4>1, <5>2
      <4>2. CASE ~(k - 1 < a) /\ k - 1 <= b
        <5>1. k - 1 = b
          BY <1>0, <2>3, <4>2
        <5> QED
          BY <4>2, <5>1
      <4>3. CASE ~(k - 1 < a) /\ ~(k - 1 <= b)
        BY <4>3
      <4> QED
        BY <4>1, <4>2, <4>3
    <3> HIDE DEF Kept
    <3>3. kept[k] = SubSeq(list, a, b)
      BY <2>1, <3>1, <3>2
    <3> QED
      BY <2>3, <3>1, <3>3 DEF Kept
  <2>4. CASE a <= k /\ k <= b
    <3>1. k \in a .. b /\ ~(k < a) /\ k \in 1 .. n /\ a \in 1 .. n
      BY <1>0, <2>4
    <3>2. Kept(k - 1) = SubSeq(list, a, k - 1)
      <4>1. CASE k - 1 < a
        <5>1. SubSeq(list, a, k - 1) = <<>>
          BY <1>0, <4>1, SubSeqEmpty
        <5> QED
          BY <4>1, <5>1
      <4>2. CASE ~(k - 1 < a)
        BY <1>0, <2>4, <4>2
      <4> QED
        BY <4>1, <4>2
    <3>3. SubSeq(list, a, k) = SubSeq(list, a, k - 1) \o <<list[k]>>
      BY <3>1, <2>4, SubSeqRecursiveSecond
    <3>4. Append(SubSeq(list, a, k - 1), list[k]) = SubSeq(list, a, k - 1) \o <<list[k]>>
      <4> DEFINE s == SubSeq(list, a, k - 1)
      <4>1. s \in Seq(A) /\ list[k] \in A
        BY <1>0, <3>1, SubSeqProperties
      <4> HIDE DEF s
      <4> QED
        BY <4>1
    <3> HIDE DEF Kept
    <3>5. kept[k] = SubSeq(list, a, k)
      BY <2>1, <3>1, <3>2, <3>3, <3>4
    <3> QED
      BY <2>4, <3>1, <3>5 DEF Kept
  <2> QED
    BY <1>0, <2>2, <2>3, <2>4
<1>4. kept[n] = Kept(n)
  <2> HIDE DEF T
  <2>1. \A k \in 0 .. n : k \in T
    BY <1>0, <1>2, <1>3, Along
  <2>2. n \in T
    BY <1>0, <2>1
  <2> QED
    BY <2>2 DEF T
<1>5. Kept(n) = SubSeq(list, a, b)
  <2>1. CASE n < a
    BY <1>0, <2>1, SubSeqEmpty
  <2>2. CASE ~(n < a) /\ n <= b
    <3>1. n = b
      BY <1>0, <2>2
    <3> QED
      BY <2>2, <3>1
  <2>3. CASE ~(n < a) /\ ~(n <= b)
    BY <2>3
  <2> QED
    BY <2>1, <2>2, <2>3
<1> QED
  BY <1>1, <1>4, <1>5

LEMMA AppendBehind ==
  ASSUME NEW A, NEW s \in Seq(A), NEW t \in Seq(A), NEW e \in A
  PROVE  Append(s \o t, e) = s \o (t \o <<e>>)
BY SMTT(30)

LEMMA SubSeqType ==
  ASSUME NEW A, NEW list \in Seq(A), NEW a \in 1 .. Len(list) + 1, NEW b \in 0 .. Len(list)
  PROVE  SubSeq(list, a, b) \in Seq(A)
<1>1. a \in Int /\ b \in Int /\ \A i \in a .. b : list[i] \in A
  OBVIOUS
<1> QED
  BY <1>1, SubSeqProperties

\* All elements but those of a piece are kept.
LEMMA OnlyRest ==
  ASSUME NEW A, NEW list \in Seq(A), NEW S,
         NEW a \in 1 .. Len(list) + 1, NEW b \in a - 1 .. Len(list),
         \A i \in 1 .. Len(list) : list[i] \in S <=> i \notin a .. b
  PROVE  Only(list, S) = Splice(list, a, b, <<>>)
<1> DEFINE n == Len(list)
           head == SubSeq(list, 1, a - 1)
           Kept(k) == IF k < a THEN SubSeq(list, 1, k)
                      ELSE IF k <= b THEN head
                      ELSE head \o SubSeq(list, b + 1, k)
<1>0. n \in Nat /\ a \in Int /\ b \in Int
  OBVIOUS
<1>1. PICK kept : Filtering(kept, list, S, n) /\ Only(list, S) = kept[n]
  BY OnlySteps
<1>10. head \in Seq(A)
  <2>1. a - 1 \in 0 .. n
    BY <1>0
  <2> QED
    BY <1>0, <2>1, SubSeqType
\* The kept list is the head as soon as the piece is reached.
<1>11. \A k \in 0 .. n : a - 1 <= k /\ k <= b => Kept(k) = head
  <2> TAKE k \in 0 .. n
  <2>1. CASE k < a /\ a - 1 <= k
    <3>1. k = a - 1
      BY <1>0, <2>1
    <3> QED
      BY <2>1, <3>1
  <2>2. CASE ~(k < a) /\ k <= b
    BY <2>2
  <2> HIDE DEF Kept
  <2> QED
    BY <1>0, <2>1, <2>2
<1>12. \A k \in 0 .. n : k < a => Kept(k) = SubSeq(list, 1, k)
  OBVIOUS
<1>13. \A k \in 0 .. n : b <= k => Kept(k) = head \o SubSeq(list, b + 1, k)
  <2> SUFFICES ASSUME NEW k \in 0 .. n, b <= k PROVE Kept(k) = head \o SubSeq(list, b + 1, k)
    OBVIOUS
  <2>1. CASE k = b
    <3>1. SubSeq(list, b + 1, k) = <<>>
      BY <1>0, <2>1, SubSeqEmpty
    <3>2. Kept(k) = head
      BY <1>0, <1>11, <2>1
    <3> HIDE DEF head, Kept
    <3> QED
      BY <1>10, <3>1, <3>2, ConcatEmptySeq
  <2>2. CASE k # b
    <3>1. ~(k < a) /\ ~(k <= b)
      BY <1>0, <2>2
    <3> QED
      BY <3>1
  <2> QED
    BY <2>1, <2>2
<1> HIDE DEF Kept
<1> DEFINE T == {k \in 0 .. n : kept[k] = Kept(k)}
<1>2. 0 \in T
  <2>1. kept[0] = <<>> /\ 0 \in 0 .. n /\ 0 < a
    BY <1>0, <1>1 DEF Filtering
  <2>2. SubSeq(list, 1, 0) = <<>>
    BY SubSeqEmpty
  <2> QED
    BY <1>12, <2>1, <2>2
<1>3. ASSUME NEW k \in 0 + 1 .. n, k - 1 \in T PROVE k \in T
  <2>1. /\ kept[k] = IF k \notin a .. b THEN Append(kept[k - 1], list[k]) ELSE kept[k - 1]
        /\ kept[k - 1] = Kept(k - 1)
    BY <1>0, <1>1, <1>3 DEF Filtering
  <2>0. k \in 0 .. n /\ k - 1 \in 0 .. n /\ k \in 1 .. n /\ list[k] \in A
    BY <1>0
  <2>2. CASE k < a
    <3>1. k \notin a .. b /\ k - 1 < a
      BY <1>0, <2>2
    <3>2. SubSeq(list, 1, k) = SubSeq(list, 1, k - 1) \o <<list[k]>>
      <4>1. 1 \in 1 .. n /\ k \in 1 .. n
        BY <1>0, <2>0
      <4> QED
        BY <4>1, SubSeqRecursiveSecond
    <3>3. SubSeq(list, 1, k - 1) \in Seq(A)
      BY <1>0, <2>0, SubSeqType
    <3>4. Append(SubSeq(list, 1, k - 1), list[k]) = SubSeq(list, 1, k)
      BY <2>0, <3>2, <3>3, AppendIsConcat
    <3>5. kept[k] = SubSeq(list, 1, k)
      BY <1>12, <2>0, <2>1, <3>1, <3>4
    <3> QED
      BY <1>12, <2>0, <2>2, <3>5
  <2>3. CASE a <= k /\ k <= b
    <3>1. k \in a .. b /\ a - 1 <= k - 1 /\ k - 1 <= b /\ a - 1 <= k
      BY <1>0, <2>3
    <3>2. Kept(k - 1) = head /\ Kept(k) = head
      BY <1>11, <2>0, <2>3, <3>1
    <3> QED
      BY <2>0, <2>1, <3>1, <3>2
  <2>4. CASE a <= k /\ b < k
    <3>1. k \notin a .. b /\ b <= k - 1 /\ b <= k /\ b + 1 \in 1 .. n /\ k \in b + 1 .. n
      BY <1>0, <2>0, <2>4
    <3> DEFINE mid == SubSeq(list, b + 1, k - 1)
    <3>2. mid \in Seq(A)
      BY <1>0, <2>0, <3>1, SubSeqType
    <3>3. SubSeq(list, b + 1, k) = mid \o <<list[k]>>
      BY <3>1, SubSeqRecursiveSecond
    <3>4. Kept(k - 1) = head \o mid /\ Kept(k) = head \o (mid \o <<list[k]>>)
      BY <1>13, <2>0, <3>1, <3>3
    <3> HIDE DEF mid, head
    <3>5. Append(head \o mid, list[k]) = head \o (mid \o <<list[k]>>)
      BY <1>10, <2>0, <3>2, AppendBehind
    <3>8. kept[k] = Append(head \o mid, list[k])
      BY <2>1, <3>1, <3>4
    <3> QED
      BY <2>0, <3>4, <3>5, <3>8
  <2> QED
    BY <1>0, <2>0, <2>2, <2>3, <2>4
<1>4. kept[n] = Kept(n)
  <2> HIDE DEF T
  <2>1. \A k \in 0 .. n : k \in T
    BY <1>0, <1>2, <1>3, Along
  <2>2. n \in T
    BY <1>0, <2>1
  <2> QED
    BY <2>2 DEF T
<1>5. Kept(n) = head \o SubSeq(list, b + 1, n)
  <2>1. n \in 0 .. n /\ b <= n
    BY <1>0
  <2> QED
    BY <1>13, <2>1
<1>6. head \o <<>> = head
  <2> HIDE DEF head
  <2> QED
    BY <1>10, ConcatEmptySeq
<1> QED
  BY <1>1, <1>4, <1>5, <1>6 DEF Splice
-----------------------------------------------------------------------------
(***************************************************************************)
(* The operators on lists, as splices.                                     *)
(***************************************************************************)

\* Taking a subtree out is a splice with nothing in its place.
LEMMA WithoutSubtreeIs ==
  ASSUME NEW list, IsForest(list), NEW a, NEW b, IsSubtree(list, a, b)
  PROVE  WithoutSubtree(list, list[a].id) = Splice(list, a, b, <<>>)
<1> DEFINE S == {relation \in Range(list) : ~InSubtree(relation, list[a].id)}
<1>1. /\ list \in Seq(Relation) /\ Len(list) \in Nat
      /\ DOMAIN list = 1 .. Len(list)
      /\ a \in 1 .. Len(list) + 1 /\ b \in a - 1 .. Len(list)
  BY DEF IsForest, IsSubtree
<1>2. \A i \in 1 .. Len(list) : list[i] \in S <=> i \notin a .. b
  BY <1>1 DEF IsSubtree, Range
<1> HIDE DEF S
<1>3. Only(list, S) = Splice(list, a, b, <<>>)
  BY <1>1, <1>2, OnlyRest
<1> QED
  BY <1>3 DEF WithoutSubtree, S

\* The part of a list from a subtree on.
LEMMA ReplaceSubtreeIs ==
  ASSUME NEW list, IsForest(list), NEW a, NEW b, IsSubtree(list, a, b),
         NEW tree \in Seq(Relation)
  PROVE  ReplaceSubtree(list, list[a].id, tree) = Splice(list, a, b, tree)
<1> DEFINE id == list[a].id
           n == Len(list)
           rest == SubSeq(list, a, n)
           S == {relation \in Range(rest) : ~InSubtree(relation, id)}
<1>1. /\ list \in Seq(Relation) /\ n \in Nat
      /\ DOMAIN list = 1 .. n
      /\ a \in 1 .. n /\ b \in a .. n
      /\ \A i \in 1 .. n : InSubtree(list[i], id) <=> i \in a .. b
  BY DEF IsForest, IsSubtree
<1>2. IndexOf(list, id) = a
  <2>1. id \in Ids(list)
    BY <1>1 DEF Ids
  <2> QED
    BY <1>1, <2>1, IndexOfFound
<1>3. /\ rest \in Seq(Relation) /\ Len(rest) = n - a + 1
      /\ \A i \in 1 .. n - a + 1 : rest[i] = list[a + i - 1]
  <2>1. a \in Int /\ n \in Int /\ \A i \in a .. n : list[i] \in Relation
    BY <1>1
  <2>2. /\ rest \in Seq(Relation)
        /\ Len(rest) = IF a <= n THEN n - a + 1 ELSE 0
        /\ \A i \in 1 .. n - a + 1 : rest[i] = list[a + i - 1]
    BY <2>1, SubSeqProperties
  <2> QED
    BY <1>1, <2>2
<1> DEFINE c == b - a + 1
<1>4. \A i \in 1 .. Len(rest) : rest[i] \in S <=> i \notin 1 .. c
  <2> TAKE i \in 1 .. Len(rest)
  <2>1. rest[i] \in Range(rest)
    <3> HIDE DEF rest
    <3>1. DOMAIN rest = 1 .. Len(rest)
      BY <1>3
    <3> QED
      BY <3>1 DEF Range
  <2>2. a + i - 1 \in 1 .. n /\ rest[i] = list[a + i - 1]
    BY <1>1, <1>3
  <2>3. a + i - 1 \in a .. b <=> i \in 1 .. c
    BY <1>1, <1>3
  <2> HIDE DEF rest, c
  <2> QED
    BY <1>1, <2>1, <2>2, <2>3
<1>5. 1 \in 1 .. Len(rest) + 1 /\ c \in 1 - 1 .. Len(rest)
  BY <1>1, <1>3
<1> HIDE DEF S, rest, c
<1>6. Only(rest, S) = Splice(rest, 1, c, <<>>)
  BY <1>3, <1>4, <1>5, OnlyRest
<1>7. Splice(rest, 1, c, <<>>) = SubSeq(rest, c + 1, Len(rest))
  <2> DEFINE t == SubSeq(rest, c + 1, Len(rest))
  <2>1. t \in Seq(Relation)
    <3>1. c + 1 \in 1 .. Len(rest) + 1 /\ Len(rest) \in 0 .. Len(rest)
      BY <1>3, <1>5
    <3> QED
      BY <1>3, <3>1, SubSeqType
  <2>2. SubSeq(rest, 1, 1 - 1) = <<>>
    BY SubSeqEmpty
  <2> HIDE DEF t
  <2>3. <<>> \o <<>> \o t = t
    BY <2>1, ConcatEmptySeq
  <2> QED
    BY <2>2, <2>3 DEF Splice, t
<1>8. SubSeq(rest, c + 1, Len(rest)) = SubSeq(list, b + 1, n)
  <2> DEFINE u == SubSeq(rest, c + 1, Len(rest))
             v == SubSeq(list, b + 1, n)
  <2>1. /\ u \in Seq(Relation)
        /\ Len(u) = IF c + 1 <= Len(rest) THEN Len(rest) - (c + 1) + 1 ELSE 0
        /\ \A i \in 1 .. Len(rest) - (c + 1) + 1 : u[i] = rest[c + 1 + i - 1]
    <3>1. c + 1 \in Int /\ Len(rest) \in Int /\ \A i \in c + 1 .. Len(rest) : rest[i] \in Relation
      BY <1>3, <1>5
    <3> QED
      BY <3>1, SubSeqProperties
  <2>2. /\ v \in Seq(Relation)
        /\ Len(v) = IF b + 1 <= n THEN n - (b + 1) + 1 ELSE 0
        /\ \A i \in 1 .. n - (b + 1) + 1 : v[i] = list[b + 1 + i - 1]
    <3>1. b + 1 \in Int /\ n \in Int /\ \A i \in b + 1 .. n : list[i] \in Relation
      BY <1>1
    <3> QED
      BY <3>1, SubSeqProperties
  <2> HIDE DEF u, v
  <2>3. Len(u) = n - b /\ Len(v) = n - b
    <3> HIDE DEF n
    <3>1. /\ n \in Nat /\ a \in 1 .. n /\ b \in a .. n
          /\ Len(rest) = n - a + 1 /\ c = b - a + 1
      BY <1>1, <1>3 DEF c
    <3>2. Len(rest) - (c + 1) + 1 = n - b /\ (c + 1 <= Len(rest) <=> b < n)
      BY <3>1
    <3>3. Len(u) = n - b
      BY <2>1, <3>1, <3>2
    <3>4. Len(v) = n - b
      BY <2>2, <3>1
    <3> QED
      BY <3>3, <3>4
  <2>4. ASSUME NEW i \in 1 .. n - b PROVE u[i] = v[i]
    <3>1. i \in 1 .. n - (b + 1) + 1 /\ b + 1 + i - 1 = b + i
      BY <1>1
    <3>2. i \in 1 .. Len(rest) - (c + 1) + 1 /\ c + 1 + i - 1 = c + i /\ c + i \in 1 .. n - a + 1
          /\ a + (c + i) - 1 = b + i
      BY <1>1, <1>3 DEF c
    <3>3. u[i] = rest[c + i] /\ v[i] = list[b + i]
      BY <2>1, <2>2, <3>1, <3>2
    <3>4. rest[c + i] = list[a + (c + i) - 1]
      BY <1>3, <3>2
    <3> QED
      BY <3>2, <3>3, <3>4
  <2>5. u = v
    BY <2>1, <2>2, <2>3, <2>4, SeqEqual
  <2> QED
    BY <2>5 DEF u, v
<1>9. WithoutSubtree(rest, id) = SubSeq(list, b + 1, n)
  BY <1>6, <1>7, <1>8 DEF WithoutSubtree, S
<1> QED
  BY <1>2, <1>9 DEF ReplaceSubtree, Splice, rest

\* list.push() at the end of the node, or behind what a parent holds.
LEMMA PushSubtreeIs ==
  ASSUME NEW list, IsForest(list), NEW tree
  PROVE  /\ PushSubtree(list, NoParent, tree) = Splice(list, Len(list) + 1, Len(list), tree)
         /\ \A a, b : IsSubtree(list, a, b) =>
              PushSubtree(list, list[a].id, tree) = Splice(list, b + 1, b, tree)
<1>1. /\ list \in Seq(Relation) /\ Len(list) \in Nat /\ DOMAIN list = 1 .. Len(list)
      /\ \A i \in 1 .. Len(list) : list[i] \in Relation
  BY DEF IsForest
<1>2. PushSubtree(list, NoParent, tree) = Splice(list, Len(list) + 1, Len(list), tree)
  <2>1. (Len(list) + 1) - 1 = Len(list)
    BY <1>1
  <2> QED
    BY <2>1 DEF PushSubtree, Splice
<1>3. ASSUME NEW a, NEW b, IsSubtree(list, a, b)
      PROVE  PushSubtree(list, list[a].id, tree) = Splice(list, b + 1, b, tree)
  <2> DEFINE parent == list[a].id
             Is(i) == i \in DOMAIN list /\ InSubtree(list[i], parent)
                      /\ \A j \in DOMAIN list : InSubtree(list[j], parent) => j <= i
             last == CHOOSE i \in DOMAIN list :
                       /\ InSubtree(list[i], parent)
                       /\ \A j \in DOMAIN list : InSubtree(list[j], parent) => j <= i
  <2>1. /\ a \in 1 .. Len(list) /\ b \in a .. Len(list)
        /\ \A i \in 1 .. Len(list) : InSubtree(list[i], parent) <=> i \in a .. b
    BY <1>3 DEF IsSubtree
  <2>2. parent # NoParent
    <3>1. parent \in RelationIds
      BY <1>1, <2>1, RelationType
    <3> QED
      BY <3>1, RelationGraphAssumption
  <2> HIDE DEF parent
  <2>3. Is(b)
    BY <1>1, <2>1
  <2>4. Is(last)
    BY <2>3
  <2> HIDE DEF last
  <2>5. last = b
    <3>1. last \in 1 .. Len(list) /\ b \in 1 .. Len(list) /\ last <= b /\ b <= last
      BY <1>1, <2>1, <2>3, <2>4
    <3> QED
      BY <3>1
  <2>6. (b + 1) - 1 = b
    BY <1>1, <2>1
  <2>7. PushSubtree(list, parent, tree)
          = SubSeq(list, 1, last) \o tree \o SubSeq(list, last + 1, Len(list))
    BY <2>2 DEF PushSubtree, last
  <2>8. PushSubtree(list, parent, tree)
          = SubSeq(list, 1, b) \o tree \o SubSeq(list, b + 1, Len(list))
    BY <2>5, <2>7
  <2>9. Splice(list, b + 1, b, tree)
          = SubSeq(list, 1, b) \o tree \o SubSeq(list, b + 1, Len(list))
    BY <2>6 DEF Splice
  <2> QED
    BY <2>8, <2>9 DEF parent
<1> QED
  BY <1>2, <1>3
-----------------------------------------------------------------------------
(***************************************************************************)
(* Trees as operations carry them, and where they are put.                 *)
(***************************************************************************)

\* Relations with equal parts are equal.
LEMMA SameRelation ==
  ASSUME NEW x \in Relation, NEW y \in Relation,
         x.id = y.id, x.path = y.path, x.refs = y.refs
  PROVE  x = y
BY DEF Relation

LEMMA PathReplaced ==
  ASSUME NEW x \in Relation, NEW path \in Seq(RelationIds)
  PROVE  LET y == [x EXCEPT !.path = path] IN
         y \in Relation /\ y.id = x.id /\ y.path = path /\ y.refs = x.refs
BY DEF Relation

\* y is x under a parent whose children have the path q.
Below(q, x, y) ==
  /\ y.id = x.id
  /\ y.refs = x.refs
  /\ Len(y.path) = Len(q) + Len(x.path)
  /\ \A k \in 1 .. Len(q) : y.path[k] = q[k]
  /\ \A k \in 1 .. Len(x.path) : y.path[Len(q) + k] = x.path[k]

\* What may follow a relation, position by position.
LEMMA FollowsPointwise ==
  ASSUME NEW x \in Relation, NEW y \in Relation
  PROVE  Follows(x, y) <=>
           /\ Len(y.path) <= Len(x.path) + 1
           /\ \A k \in 1 .. Len(y.path) :
                y.path[k] = IF k <= Len(x.path) THEN x.path[k] ELSE x.id
<1> DEFINE u == Append(x.path, x.id)
<1>1. /\ y.path \in Seq(RelationIds) /\ Len(x.path) \in Nat /\ Len(y.path) \in Nat
      /\ u \in Seq(RelationIds)
      /\ Len(u) = Len(x.path) + 1
      /\ \A l \in 1 .. Len(x.path) : u[l] = x.path[l]
      /\ u[Len(x.path) + 1] = x.id
  BY RelationType
<1> HIDE DEF u
<1>2. Follows(x, y) <=>
        Len(y.path) <= Len(u) /\ \A k \in 1 .. Len(y.path) : y.path[k] = u[k]
  <2>1. IsPrefix(y.path, u) <=>
          Len(y.path) <= Len(u) /\ \A k \in 1 .. Len(y.path) : y.path[k] = u[k]
    BY <1>1, PrefixPointwise
  <2> QED
    BY <2>1 DEF Follows, u
<1>3. \A k \in 1 .. Len(x.path) + 1 : u[k] = IF k <= Len(x.path) THEN x.path[k] ELSE x.id
  BY <1>1
<1>4. Len(y.path) <= Len(x.path) + 1 => \A k \in 1 .. Len(y.path) : k \in 1 .. Len(x.path) + 1
  BY <1>1
<1> QED
  BY <1>1, <1>2, <1>3, <1>4

\* Moving two relations together keeps their order.
LEMMA FollowsBelow ==
  ASSUME NEW q \in Seq(RelationIds),
         NEW x \in Relation, NEW y \in Relation, NEW v \in Relation, NEW w \in Relation,
         Below(q, x, v), Below(q, y, w)
  PROVE  Follows(x, y) <=> Follows(v, w)
<1>1. /\ Len(q) \in Nat /\ Len(x.path) \in Nat /\ Len(y.path) \in Nat
      /\ Len(v.path) = Len(q) + Len(x.path) /\ Len(w.path) = Len(q) + Len(y.path)
      /\ v.id = x.id
  BY RelationType DEF Below
<1>2. ASSUME Follows(x, y) PROVE Follows(v, w)
  <2>1. /\ Len(y.path) <= Len(x.path) + 1
        /\ \A k \in 1 .. Len(y.path) : y.path[k] = IF k <= Len(x.path) THEN x.path[k] ELSE x.id
    BY <1>2, FollowsPointwise
  <2>2. Len(w.path) <= Len(v.path) + 1
    BY <1>1, <2>1
  <2>3. ASSUME NEW k \in 1 .. Len(w.path)
        PROVE  w.path[k] = IF k <= Len(v.path) THEN v.path[k] ELSE v.id
    <3>1. CASE k <= Len(q)
      <4>1. k \in 1 .. Len(q) /\ k <= Len(v.path)
        BY <1>1, <3>1
      <4> QED
        BY <4>1 DEF Below
    <3>2. CASE ~(k <= Len(q))
      <4> DEFINE l == k - Len(q)
      <4>1. l \in 1 .. Len(y.path) /\ k = Len(q) + l /\ (l <= Len(x.path) <=> k <= Len(v.path))
            /\ (l <= Len(x.path) => l \in 1 .. Len(x.path))
        BY <1>1, <3>2
      <4> HIDE DEF l
      <4>2. w.path[k] = y.path[l]
        BY <4>1 DEF Below
      <4>3. l <= Len(x.path) => v.path[k] = x.path[l]
        BY <4>1 DEF Below
      <4> QED
        BY <1>1, <2>1, <4>1, <4>2, <4>3
    <3> QED
      BY <3>1, <3>2
  <2> QED
    BY <2>2, <2>3, FollowsPointwise
<1>3. ASSUME Follows(v, w) PROVE Follows(x, y)
  <2>1. /\ Len(w.path) <= Len(v.path) + 1
        /\ \A k \in 1 .. Len(w.path) : w.path[k] = IF k <= Len(v.path) THEN v.path[k] ELSE v.id
    BY <1>3, FollowsPointwise
  <2>2. Len(y.path) <= Len(x.path) + 1
    BY <1>1, <2>1
  <2>3. ASSUME NEW l \in 1 .. Len(y.path)
        PROVE  y.path[l] = IF l <= Len(x.path) THEN x.path[l] ELSE x.id
    <3> DEFINE k == Len(q) + l
    <3>1. k \in 1 .. Len(w.path) /\ (l <= Len(x.path) <=> k <= Len(v.path))
          /\ (l <= Len(x.path) => l \in 1 .. Len(x.path))
      BY <1>1
    <3>2. w.path[k] = y.path[l] /\ (l <= Len(x.path) => v.path[k] = x.path[l])
      BY <3>1 DEF Below
    <3> HIDE DEF k
    <3> QED
      BY <1>1, <2>1, <3>1, <3>2
  <2> QED
    BY <2>2, <2>3, FollowsPointwise
<1> QED
  BY <1>2, <1>3

\* A tree moved under another parent.
LEMMA RootedIs ==
  ASSUME NEW tree \in Seq(Relation), NEW q \in Seq(RelationIds)
  PROVE  /\ Rooted(tree, q) \in Seq(Relation)
         /\ Len(Rooted(tree, q)) = Len(tree)
         /\ \A i \in 1 .. Len(tree) : Below(q, tree[i], Rooted(tree, q)[i])
         /\ \A i \in 1 .. Len(tree) : Rooted(tree, q)[i].path = q \o tree[i].path
<1> DEFINE r == Rooted(tree, q)
           n == Len(tree)
<1>1. n \in Nat /\ DOMAIN tree = 1 .. n /\ \A i \in 1 .. n : tree[i] \in Relation
  OBVIOUS
<1>2. r = [i \in 1 .. n |-> [tree[i] EXCEPT !.path = q \o @]]
  BY <1>1 DEF Rooted
<1>3. ASSUME NEW i \in 1 .. n
      PROVE  r[i] \in Relation /\ Below(q, tree[i], r[i]) /\ r[i].path = q \o tree[i].path
  <2> DEFINE p == q \o tree[i].path
  <2>1. tree[i] \in Relation /\ tree[i].path \in Seq(RelationIds) /\ Len(q) \in Nat /\ Len(tree[i].path) \in Nat
    BY <1>1, RelationType
  <2>2. /\ p \in Seq(RelationIds)
        /\ Len(p) = Len(q) + Len(tree[i].path)
        /\ \A k \in 1 .. Len(q) + Len(tree[i].path) :
             p[k] = IF k <= Len(q) THEN q[k] ELSE tree[i].path[k - Len(q)]
    BY <2>1, ConcatProperties
  <2>3. r[i] = [tree[i] EXCEPT !.path = p]
    BY <1>2
  <2> HIDE DEF p, r
  <2>4. r[i] \in Relation /\ r[i].id = tree[i].id /\ r[i].path = p /\ r[i].refs = tree[i].refs
    BY <2>1, <2>2, <2>3, PathReplaced
  <2>5. \A k \in 1 .. Len(q) : p[k] = q[k]
    <3> TAKE k \in 1 .. Len(q)
    <3>1. k \in 1 .. Len(q) + Len(tree[i].path) /\ k <= Len(q)
      BY <2>1
    <3> QED
      BY <2>2, <3>1
  <2>6. \A k \in 1 .. Len(tree[i].path) : p[Len(q) + k] = tree[i].path[k]
    <3> TAKE k \in 1 .. Len(tree[i].path)
    <3> DEFINE l == Len(q) + k
    <3>1. l \in 1 .. Len(q) + Len(tree[i].path) /\ ~(l <= Len(q)) /\ l - Len(q) = k
      BY <2>1
    <3> HIDE DEF l
    <3>2. p[l] = tree[i].path[k]
      BY <2>2, <3>1
    <3> QED
      BY <3>2 DEF l
  <2> QED
    BY <2>2, <2>4, <2>5, <2>6 DEF Below, p
<1> HIDE DEF r
<1>4. r \in Seq(Relation) /\ Len(r) = n
  <2>1. r \in [1 .. n -> Relation]
    BY <1>2, <1>3
  <2> QED
    BY <1>1, <2>1
<1> QED
  BY <1>3, <1>4 DEF r

\* What is nested in the root of a tree has the root's id at the head of its path.
LEMMA TreeRoot ==
  ASSUME NEW tree, IsTree(tree)
  PROVE  /\ tree \in Seq(Relation)
         /\ Len(tree) \in Nat \ {0}
         /\ 1 \in 1 .. Len(tree)
         /\ tree[1] \in Relation
         /\ tree[1].path = <<>>
         /\ Head(tree) = tree[1]
         /\ \A i \in 2 .. Len(tree) : Follows(tree[i - 1], tree[i])
         /\ \A i \in 2 .. Len(tree) : Len(tree[i].path) > 0 /\ tree[i].path[1] = tree[1].id
<1>1. tree \in Seq(Relation) /\ tree # <<>> /\ Preorder(tree)
  BY DEF IsTree
<1>2. Len(tree) \in Nat \ {0} /\ DOMAIN tree = 1 .. Len(tree) /\ Head(tree) = tree[1]
      /\ \A i \in 1 .. Len(tree) : tree[i] \in Relation
  BY <1>1
<1>3. tree[1].path = <<>> /\ \A i \in 2 .. Len(tree) : Follows(tree[i - 1], tree[i])
  BY <1>1, <1>2, PreorderSteps
<1>4. ASSUME NEW i \in 2 .. Len(tree)
      PROVE  Len(tree[i].path) > 0 /\ tree[i].path[1] = tree[1].id
  <2>1. i \in 1 .. Len(tree) /\ i # 1
    BY <1>2
  <2>2. tree[i].path # <<>>
    BY <1>2, <2>1 DEF IsTree
  <2>3. Len(tree[i].path) \in Nat \ {0}
    <3>1. tree[i].path \in Seq(RelationIds)
      BY <1>2, <2>1, RelationType
    <3> QED
      BY <2>2, <3>1
  <2>4. PICK j \in 1 .. i - 1 : Encloses(tree[j], tree[i], 1)
    <3>1. 1 \in 1 .. Len(tree[i].path)
      BY <2>3
    <3> QED
      BY <1>1, <2>1, <3>1, Ancestors
  <2>5. j \in 1 .. Len(tree) /\ tree[j].path \in Seq(RelationIds) /\ Len(tree[j].path) = 0
    <3>1. j \in 1 .. Len(tree)
      BY <1>2
    <3> QED
      BY <1>2, <2>4, <3>1, RelationType DEF Encloses
  <2>6. j = 1
    <3>1. tree[j].path = <<>>
      BY <2>5
    <3> QED
      BY <1>2, <2>5, <3>1 DEF IsTree
  <2> QED
    BY <2>3, <2>4, <2>6 DEF Encloses
<1>5. 1 \in 1 .. Len(tree)
  BY <1>2
<1> QED
  BY <1>1, <1>2, <1>3, <1>4, <1>5

\* The relations of a subtree, with the path of its root taken off.
LEMMA SubtreeOfIs ==
  ASSUME NEW list, IsForest(list), NEW a, NEW b, IsSubtree(list, a, b)
  PROVE  LET tree == SubtreeOf(list, list[a].id) IN
         /\ IsTree(tree)
         /\ Len(tree) = b - a + 1
         /\ Head(tree).id = list[a].id
         /\ \A i \in 1 .. Len(tree) : Below(list[a].path, tree[i], list[a - 1 + i])
         /\ Rooted(tree, list[a].path) = SubSeq(list, a, b)
<1> DEFINE id == list[a].id
           n == Len(list)
           p == list[a].path
           d == Len(p)
           inside == SubSeq(list, a, b)
           S == {relation \in Range(list) : InSubtree(relation, id)}
           tree == SubtreeOf(list, id)
           m == b - a + 1
<1>1. /\ list \in Seq(Relation) /\ n \in Nat /\ Preorder(list)
      /\ DOMAIN list = 1 .. n
      /\ \A i \in 1 .. n : list[i] \in Relation
      /\ a \in 1 .. n /\ b \in a .. n
      /\ \A i \in 1 .. n : InSubtree(list[i], id) <=> i \in a .. b
  BY DEF IsForest, IsSubtree
<1>2. IndexOf(list, id) = a
  <2>1. id \in Ids(list)
    BY <1>1 DEF Ids
  <2> QED
    BY <1>1, <2>1, IndexOfFound
<1>3. Only(list, S) = inside
  <2>1. \A i \in 1 .. n : list[i] \in S <=> i \in a .. b
    BY <1>1 DEF Range
  <2>2. a \in 1 .. n + 1 /\ b \in a - 1 .. n
    BY <1>1
  <2> HIDE DEF S
  <2> QED
    BY <1>1, <2>1, <2>2, OnlyPiece
<1>4. /\ inside \in Seq(Relation) /\ Len(inside) = m /\ DOMAIN inside = 1 .. m
      /\ \A i \in 1 .. m : inside[i] = list[a - 1 + i]
      /\ m \in Nat \ {0}
  <2>1. a \in Int /\ b \in Int /\ \A i \in a .. b : list[i] \in Relation
    BY <1>1
  <2>2. /\ inside \in Seq(Relation)
        /\ Len(inside) = IF a <= b THEN b - a + 1 ELSE 0
        /\ \A i \in 1 .. b - a + 1 : inside[i] = list[a + i - 1]
    BY <2>1, SubSeqProperties
  <2> HIDE DEF inside
  <2>3. Len(inside) = m /\ m \in Nat \ {0}
    BY <1>1, <2>2
  <2>4. ASSUME NEW i \in 1 .. m PROVE inside[i] = list[a - 1 + i]
    <3>1. a + i - 1 = a - 1 + i
      BY <1>1
    <3> QED
      BY <2>2, <3>1
  <2> QED
    BY <2>2, <2>3, <2>4
<1> DEFINE At(i) == list[a - 1 + i]
           Cut(i) == SubSeq(At(i).path, d + 1, Len(At(i).path))
<1>5. tree = [i \in 1 .. m |-> [At(i) EXCEPT !.path = Cut(i)]]
  <2>1. tree = [i \in DOMAIN inside |->
                  [inside[i] EXCEPT !.path = SubSeq(@, d + 1, Len(@))]]
    BY <1>2, <1>3 DEF SubtreeOf
  <2> HIDE DEF inside, tree, d
  <2> QED
    BY <1>4, <2>1
<1>6. ASSUME NEW i \in 1 .. m
      PROVE  /\ At(i) \in Relation /\ a - 1 + i \in a .. b /\ a - 1 + i \in 1 .. n
             /\ p \in Seq(RelationIds) /\ d \in Nat
             /\ At(i).path \in Seq(RelationIds) /\ Len(At(i).path) \in Nat
             /\ Len(At(i).path) >= d
             /\ \A k \in 1 .. d : At(i).path[k] = p[k]
             /\ i # 1 => Len(At(i).path) >= d + 1
  <2>1. a - 1 + i \in a .. b /\ a - 1 + i \in 1 .. n /\ (a - 1 + i = a <=> i = 1)
    BY <1>1, <1>4
  <2>2. At(i) \in Relation /\ list[a] \in Relation
    BY <1>1, <2>1
  <2>3. /\ p \in Seq(RelationIds) /\ d \in Nat
        /\ At(i).path \in Seq(RelationIds) /\ Len(At(i).path) \in Nat
    BY <2>2, RelationType
  <2>4. a - 1 + i = a \/ Nested(list[a], At(i))
    <3>1. InSubtree(At(i), id)
      BY <1>1, <2>1
    <3> QED
      BY <1>1, <2>1, <3>1, InSubtreeNested
  <2>5. CASE a - 1 + i = a
    BY <2>1, <2>2, <2>3, <2>5
  <2>6. CASE Nested(list[a], At(i))
    <3>1. Len(At(i).path) >= d + 1
      BY <2>3, <2>6 DEF Nested
    <3>2. \A k \in 1 .. (d + 1) - 1 : p[k] = At(i).path[k]
      BY <2>6 DEF Nested, Encloses
    <3>3. \A k \in 1 .. d : At(i).path[k] = p[k]
      BY <2>3, <3>2
    <3> QED
      BY <2>1, <2>2, <2>3, <3>1, <3>3
  <2> QED
    BY <2>4, <2>5, <2>6
<1>7. ASSUME NEW i \in 1 .. m
      PROVE  tree[i] \in Relation /\ Below(p, tree[i], At(i)) /\ tree[i].path = Cut(i)
  <2>1. /\ Cut(i) \in Seq(RelationIds)
        /\ Len(Cut(i)) = Len(At(i).path) - d
        /\ \A k \in 1 .. Len(At(i).path) - d : Cut(i)[k] = At(i).path[d + k]
    <3> DEFINE s == At(i).path
               c == SubSeq(s, d + 1, Len(s))
    <3>1. s \in Seq(RelationIds) /\ Len(s) \in Nat /\ d \in Nat /\ Len(s) >= d
      BY <1>6
    <3> HIDE DEF s, d
    <3>2. d + 1 \in Int /\ Len(s) \in Int /\ \A k \in d + 1 .. Len(s) : s[k] \in RelationIds
      BY <3>1
    <3>3. /\ c \in Seq(RelationIds)
          /\ Len(c) = IF d + 1 <= Len(s) THEN Len(s) - (d + 1) + 1 ELSE 0
          /\ \A k \in 1 .. Len(s) - (d + 1) + 1 : c[k] = s[d + 1 + k - 1]
      BY <3>2, SubSeqProperties
    <3> HIDE DEF c
    <3>4. Len(c) = Len(s) - d
      BY <3>1, <3>3
    <3>5. ASSUME NEW k \in 1 .. Len(s) - d PROVE c[k] = s[d + k]
      <4>1. k \in 1 .. Len(s) - (d + 1) + 1 /\ d + 1 + k - 1 = d + k
        BY <3>1
      <4> QED
        BY <3>3, <4>1
    <3> QED
      BY <3>3, <3>4, <3>5 DEF c, s
  <2>2. tree[i] = [At(i) EXCEPT !.path = Cut(i)]
    BY <1>5
  <2> HIDE DEF tree
  <2>3. tree[i] \in Relation /\ tree[i].id = At(i).id /\ tree[i].path = Cut(i) /\ tree[i].refs = At(i).refs
    <3> DEFINE x == At(i)
               c == Cut(i)
    <3>1. x \in Relation /\ c \in Seq(RelationIds) /\ tree[i] = [x EXCEPT !.path = c]
      BY <1>6, <2>1, <2>2
    <3> HIDE DEF x, c
    <3>2. tree[i] \in Relation /\ tree[i].id = x.id /\ tree[i].path = c /\ tree[i].refs = x.refs
      BY <3>1, PathReplaced
    <3> QED
      BY <3>2 DEF x, c
  <2>4. Len(At(i).path) = d + Len(tree[i].path)
    <3>1. Len(tree[i].path) = Len(At(i).path) - d
      BY <2>1, <2>3
    <3>2. Len(At(i).path) \in Nat /\ d \in Nat
      BY <1>6
    <3> HIDE DEF At, d
    <3> QED
      BY <3>1, <3>2
  <2>5. \A k \in 1 .. Len(tree[i].path) : At(i).path[d + k] = tree[i].path[k]
    <3>1. Len(tree[i].path) = Len(At(i).path) - d
      BY <2>1, <2>3
    <3> QED
      BY <2>1, <2>3, <3>1
  <2> HIDE DEF At, Cut, p, d
  <2> QED
    BY <1>6, <2>3, <2>4, <2>5 DEF Below, d
<1>8. tree \in Seq(Relation) /\ Len(tree) = m /\ DOMAIN tree = 1 .. m
  <2>1. tree \in [1 .. m -> Relation]
    BY <1>5, <1>7
  <2> HIDE DEF tree
  <2> QED
    BY <1>4, <2>1
<1>9. \A i \in 1 .. m : tree[i].path = <<>> => i = 1
  <2> SUFFICES ASSUME NEW i \in 1 .. m, tree[i].path = <<>>, i # 1 PROVE FALSE
    OBVIOUS
  <2>1. Len(At(i).path) >= d + 1 /\ d \in Nat
    BY <1>6
  <2>2. Len(At(i).path) = d + Len(tree[i].path)
    BY <1>7 DEF Below
  <2>3. Len(tree[i].path) = 0
    OBVIOUS
  <2> HIDE DEF At, d, tree
  <2> QED
    BY <2>1, <2>2, <2>3
<1>10. tree[1].path = <<>> /\ tree[1].id = id
  <2>1. 1 \in 1 .. m /\ At(1) = list[a]
    BY <1>1, <1>4
  <2>2. tree[1] \in Relation /\ Below(p, tree[1], list[a])
    BY <1>7, <2>1
  <2>3. Len(p) = Len(p) + Len(tree[1].path) /\ tree[1].id = id
    BY <2>2 DEF Below
  <2>4. tree[1].path \in Seq(RelationIds) /\ Len(p) \in Nat
    BY <1>6, <2>1, <2>2, RelationType
  <2> HIDE DEF tree, p
  <2>5. Len(tree[1].path) = 0
    BY <2>3, <2>4
  <2> QED
    BY <2>3, <2>4, <2>5
<1>11. ASSUME NEW i \in 2 .. m PROVE Follows(tree[i - 1], tree[i])
  <2>1. i \in 1 .. m /\ i - 1 \in 1 .. m /\ (a - 1 + i) - 1 = a - 1 + (i - 1)
    BY <1>1, <1>4
  <2>2. a - 1 + i \in 2 .. n
    BY <1>1, <1>4
  <2>3. Follows(At(i - 1), At(i))
    <3> DEFINE j == a - 1 + i
    <3>1. Follows(list[j - 1], list[j])
      <4> HIDE DEF j
      <4>1. j \in 2 .. n
        BY <2>2 DEF j
      <4> QED
        BY <1>1, <4>1, PreorderSteps
    <3>2. j - 1 = a - 1 + (i - 1)
      BY <2>1
    <3> QED
      BY <3>1, <3>2
  <2>4. p \in Seq(RelationIds) /\ At(i) \in Relation /\ At(i - 1) \in Relation
    BY <1>6, <2>1
  <2>5. /\ tree[i] \in Relation /\ Below(p, tree[i], At(i))
        /\ tree[i - 1] \in Relation /\ Below(p, tree[i - 1], At(i - 1))
    BY <1>7, <2>1
  <2> HIDE DEF tree, p, At
  <2> QED
    BY <2>3, <2>4, <2>5, FollowsBelow
<1>12. IsTree(tree)
  <2> HIDE DEF tree, m
  <2>1. Preorder(tree)
    BY <1>8, <1>10, <1>11, PreorderSteps
  <2>2. tree # <<>>
    BY <1>4, <1>8
  <2> QED
    BY <1>8, <1>9, <2>1, <2>2 DEF IsTree
<1>13. Rooted(tree, p) = inside
  <2> DEFINE r == Rooted(tree, p)
  <2>0. p \in Seq(RelationIds)
    BY <1>1, RelationType
  <2>1. /\ r \in Seq(Relation) /\ Len(r) = m
        /\ \A i \in 1 .. m : Below(p, tree[i], r[i])
    <3> HIDE DEF tree, p, m
    <3> QED
      BY <1>8, <2>0, RootedIs
  <2> HIDE DEF r
  <2>2. ASSUME NEW i \in 1 .. m PROVE r[i] = inside[i]
    <3>1. r[i] \in Relation /\ At(i) \in Relation /\ tree[i] \in Relation
      <4>1. At(i) \in Relation
        BY <1>6
      <4>2. tree[i] \in Relation
        BY <1>7
      <4> HIDE DEF At, tree, m
      <4>3. r[i] \in Relation
        BY <2>1
      <4> QED
        BY <4>1, <4>2, <4>3
    <3>2. Below(p, tree[i], r[i]) /\ Below(p, tree[i], At(i))
      BY <1>7, <2>1
    <3> HIDE DEF tree, p, At
    <3>3. r[i].id = At(i).id /\ r[i].refs = At(i).refs /\ Len(r[i].path) = Len(At(i).path)
      BY <3>2 DEF Below
    <3>4. /\ r[i].path \in Seq(RelationIds) /\ At(i).path \in Seq(RelationIds)
          /\ Len(tree[i].path) \in Nat /\ Len(p) \in Nat
          /\ Len(r[i].path) = Len(p) + Len(tree[i].path)
      BY <2>0, <3>1, <3>2, RelationType DEF Below
    <3>5. ASSUME NEW k \in 1 .. Len(r[i].path) PROVE r[i].path[k] = At(i).path[k]
      <4>1. CASE k <= Len(p)
        <5>1. k \in 1 .. Len(p)
          BY <3>4, <4>1
        <5> QED
          BY <3>2, <5>1 DEF Below
      <4>2. CASE ~(k <= Len(p))
        <5> DEFINE l == k - Len(p)
        <5>1. l \in 1 .. Len(tree[i].path) /\ Len(p) + l = k
          BY <3>4, <4>2
        <5> HIDE DEF l
        <5>2. /\ r[i].path[Len(p) + l] = tree[i].path[l]
              /\ At(i).path[Len(p) + l] = tree[i].path[l]
          BY <3>2, <5>1 DEF Below
        <5> QED
          BY <5>1, <5>2
      <4> QED
        BY <4>1, <4>2
    <3>6. r[i].path = At(i).path
      BY <3>3, <3>4, <3>5, SeqEqual
    <3>7. r[i] = At(i)
      BY <3>1, <3>3, <3>6, SameRelation
    <3> QED
      BY <1>4, <3>7 DEF At
  <2> HIDE DEF inside
  <2>3. r = inside
    BY <1>4, <2>1, <2>2, SeqEqual
  <2> QED
    BY <2>3 DEF r
<1>14. Head(tree).id = id
  <2>1. Head(tree) = tree[1]
    BY <1>12, TreeRoot
  <2> QED
    BY <1>10, <2>1
<1>15. \A i \in 1 .. Len(tree) : Below(p, tree[i], list[a - 1 + i])
  <2> HIDE DEF tree, p
  <2> QED
    BY <1>7, <1>8
<1> QED
  BY <1>8, <1>12, <1>13, <1>14, <1>15
-----------------------------------------------------------------------------
\* A splice stays in pre-order when its piece is and its two seams are.
Seams(list, a, b, piece) ==
  /\ \A i \in 2 .. Len(piece) : Follows(piece[i - 1], piece[i])
  /\ Len(piece) > 0 =>
       /\ a = 1 => piece[1].path = <<>>
       /\ a > 1 => Follows(list[a - 1], piece[1])
       /\ b < Len(list) => Follows(piece[Len(piece)], list[b + 1])
  /\ Len(piece) = 0 /\ b < Len(list) =>
       /\ a = 1 => list[b + 1].path = <<>>
       /\ a > 1 => Follows(list[a - 1], list[b + 1])

\* A splice whose seams fit is in pre-order.
LEMMA PreorderSplice ==
  ASSUME NEW list \in Seq(Relation), Preorder(list), NEW piece \in Seq(Relation),
         NEW a \in 1 .. Len(list) + 1, NEW b \in a - 1 .. Len(list),
         Seams(list, a, b, piece)
  PROVE  Splice(list, a, b, piece) \in Seq(Relation) /\ Preorder(Splice(list, a, b, piece))
<1> DEFINE new == Splice(list, a, b, piece)
           m == Len(piece)
           n == Len(list)
           d == m - (b - a + 1)
<1>0. Spliced(new, Relation, list, a, b, piece)
  BY SpliceElements
<1> HIDE DEF new
<1>1. /\ new \in Seq(Relation)
      /\ Len(new) = n + m - (b - a + 1)
      /\ \A k \in 1 .. a - 1 : new[k] = list[k]
      /\ \A k \in 1 .. m : new[a - 1 + k] = piece[k]
      /\ \A k \in b + 1 .. n : new[k + m - (b - a + 1)] = list[k]
  BY <1>0 DEF Spliced
<1>2. n \in Nat /\ m \in Nat /\ a \in 1 .. n + 1 /\ b \in a - 1 .. n
  OBVIOUS
<1>3. /\ n > 0 => list[1].path = <<>>
      /\ \A i \in 2 .. n : Follows(list[i - 1], list[i])
  BY PreorderSteps
<1>4. /\ \A i \in 2 .. m : Follows(piece[i - 1], piece[i])
      /\ m > 0 =>
           /\ a = 1 => piece[1].path = <<>>
           /\ a > 1 => Follows(list[a - 1], piece[1])
           /\ b < n => Follows(piece[m], list[b + 1])
      /\ m = 0 /\ b < n =>
           /\ a = 1 => list[b + 1].path = <<>>
           /\ a > 1 => Follows(list[a - 1], list[b + 1])
  BY DEF Seams
<1> HIDE DEF m, n
<1>5. ASSUME Len(new) > 0 PROVE new[1].path = <<>>
  <2>1. CASE a > 1
    <3>1. 1 \in 1 .. a - 1 /\ n > 0
      BY <1>2, <2>1
    <3> QED
      BY <1>1, <1>3, <3>1
  <2>2. CASE a = 1 /\ m > 0
    <3>1. 1 \in 1 .. m /\ a - 1 + 1 = 1
      BY <1>2, <2>2
    <3> QED
      BY <1>1, <1>4, <2>2, <3>1
  <2>3. CASE a = 1 /\ m = 0
    <3>1. b < n /\ b + 1 \in b + 1 .. n /\ b + 1 + m - (b - a + 1) = 1
      BY <1>1, <1>2, <1>5, <2>3
    <3>2. new[1] = list[b + 1]
      BY <1>1, <3>1
    <3> QED
      BY <1>4, <2>3, <3>1, <3>2
  <2> QED
    BY <1>2, <2>1, <2>2, <2>3
<1>6. ASSUME NEW i \in 2 .. Len(new) PROVE Follows(new[i - 1], new[i])
  <2>0. i \in Int /\ i >= 2 /\ i <= n + m - (b - a + 1)
    BY <1>1
  <2>1. CASE i <= a - 1
    <3>1. i \in 1 .. a - 1 /\ i - 1 \in 1 .. a - 1 /\ i \in 2 .. n
      BY <1>2, <2>0, <2>1
    <3> QED
      BY <1>1, <1>3, <3>1
  <2>2. CASE i = a
    <3>1. i - 1 \in 1 .. a - 1 /\ a > 1 /\ new[i - 1] = list[a - 1]
      BY <1>1, <1>2, <2>0, <2>2
    <3>2. CASE m > 0
      <4>1. 1 \in 1 .. m /\ a - 1 + 1 = i
        BY <1>2, <2>2, <3>2
      <4>2. new[i] = piece[1]
        BY <1>1, <4>1
      <4> QED
        BY <1>4, <3>1, <3>2, <4>2
    <3>3. CASE m = 0
      <4>1. b < n /\ b + 1 \in b + 1 .. n /\ b + 1 + m - (b - a + 1) = i
        BY <1>2, <2>0, <2>2, <3>3
      <4>2. new[i] = list[b + 1]
        BY <1>1, <4>1
      <4> QED
        BY <1>4, <3>1, <3>3, <4>1, <4>2
    <3> QED
      BY <1>2, <3>2, <3>3
  <2>3. CASE a < i /\ i <= a - 1 + m
    <3> DEFINE k == i - (a - 1)
    <3>1. k \in 1 .. m /\ k - 1 \in 1 .. m /\ a - 1 + k = i /\ a - 1 + (k - 1) = i - 1
          /\ k \in 2 .. m
      BY <1>2, <2>0, <2>3
    <3> HIDE DEF k
    <3>2. new[i] = piece[k]
      BY <1>1, <3>1
    <3>3. new[i - 1] = piece[k - 1]
      BY <1>1, <3>1
    <3> QED
      BY <1>4, <3>1, <3>2, <3>3
  <2>4. CASE a < i /\ i = a + m
    <3>1. m > 0 /\ m \in 1 .. m /\ a - 1 + m = i - 1
          /\ b < n /\ b + 1 \in b + 1 .. n /\ b + 1 + m - (b - a + 1) = i
      BY <1>2, <2>0, <2>4
    <3>2. new[i - 1] = piece[m]
      BY <1>1, <3>1
    <3>3. new[i] = list[b + 1]
      BY <1>1, <3>1
    <3> QED
      BY <1>4, <3>1, <3>2, <3>3
  <2>5. CASE a < i /\ a + m < i
    <3> DEFINE k == i - m + (b - a + 1)
    <3>1. k \in b + 1 .. n /\ k - 1 \in b + 1 .. n /\ k + m - (b - a + 1) = i
          /\ (k - 1) + m - (b - a + 1) = i - 1 /\ k \in 2 .. n
      BY <1>2, <2>0, <2>5
    <3> HIDE DEF k
    <3>2. new[i] = list[k]
      BY <1>1, <3>1
    <3>3. new[i - 1] = list[k - 1]
      BY <1>1, <3>1
    <3> QED
      BY <1>3, <3>1, <3>2, <3>3
  <2> QED
    BY <1>2, <2>0, <2>1, <2>2, <2>3, <2>4, <2>5
<1> QED
  BY <1>1, <1>5, <1>6, PreorderSteps DEF new

\* Which elements a splice has.
LEMMA RangeSplice ==
  ASSUME NEW A, NEW list \in Seq(A), NEW piece \in Seq(A),
         NEW a \in 1 .. Len(list) + 1, NEW b \in a - 1 .. Len(list)
  PROVE  Range(Splice(list, a, b, piece)) =
           {list[i] : i \in (1 .. Len(list)) \ (a .. b)} \cup Range(piece)
<1> DEFINE new == Splice(list, a, b, piece)
           m == Len(piece)
           n == Len(list)
           Kept == {list[i] : i \in (1 .. n) \ (a .. b)}
<1>0. Spliced(new, A, list, a, b, piece)
  BY SpliceElements
<1>s. \A i \in 1 .. Len(new) :
         \/ i \in 1 .. a - 1 /\ new[i] = list[i]
         \/ i - (a - 1) \in 1 .. m /\ new[i] = piece[i - (a - 1)]
         \/ i - m + (b - a + 1) \in b + 1 .. n /\ new[i] = list[i - m + (b - a + 1)]
  BY SpliceSides
<1> HIDE DEF new
<1>1. /\ new \in Seq(A)
      /\ Len(new) = n + m - (b - a + 1)
      /\ \A k \in 1 .. a - 1 : new[k] = list[k]
      /\ \A k \in 1 .. m : new[a - 1 + k] = piece[k]
      /\ \A k \in b + 1 .. n : new[k + m - (b - a + 1)] = list[k]
  BY <1>0 DEF Spliced
<1>2. n \in Nat /\ m \in Nat /\ a \in 1 .. n + 1 /\ b \in a - 1 .. n
      /\ DOMAIN new = 1 .. Len(new) /\ DOMAIN piece = 1 .. m
  BY <1>1
<1> HIDE DEF m, n
<1>3. ASSUME NEW x \in Range(new) PROVE x \in Kept \cup Range(piece)
  <2>1. PICK i \in 1 .. Len(new) : x = new[i]
    BY <1>2 DEF Range
  <2>2. CASE i \in 1 .. a - 1 /\ new[i] = list[i]
    <3>1. i \in (1 .. n) \ (a .. b)
      BY <1>2, <2>2
    <3> QED
      BY <2>1, <2>2, <3>1
  <2>3. CASE i - (a - 1) \in 1 .. m /\ new[i] = piece[i - (a - 1)]
    BY <1>2, <2>1, <2>3 DEF Range
  <2>4. CASE i - m + (b - a + 1) \in b + 1 .. n /\ new[i] = list[i - m + (b - a + 1)]
    <3> DEFINE k == i - m + (b - a + 1)
    <3>1. k \in b + 1 .. n /\ new[i] = list[k]
      BY <2>4
    <3> HIDE DEF k
    <3>2. k \in (1 .. n) \ (a .. b)
      BY <1>2, <3>1
    <3> QED
      BY <2>1, <3>1, <3>2
  <2> QED
    BY <1>s, <2>2, <2>3, <2>4
<1>4. ASSUME NEW x \in Kept PROVE x \in Range(new)
  <2>1. PICK i \in (1 .. n) \ (a .. b) : x = list[i]
    OBVIOUS
  <2>2. CASE i < a
    <3>1. i \in 1 .. a - 1 /\ i \in 1 .. Len(new)
      BY <1>1, <1>2, <2>2
    <3> QED
      BY <1>1, <1>2, <2>1, <3>1 DEF Range
  <2>3. CASE i > b
    <3> DEFINE k == i + m - (b - a + 1)
    <3>1. i \in b + 1 .. n /\ k \in 1 .. Len(new)
      BY <1>1, <1>2, <2>3
    <3>2. new[k] = list[i]
      BY <1>1, <3>1
    <3> HIDE DEF k
    <3> QED
      BY <1>2, <2>1, <3>1, <3>2 DEF Range
  <2> QED
    BY <1>2, <2>1, <2>2, <2>3
<1>5. ASSUME NEW x \in Range(piece) PROVE x \in Range(new)
  <2>1. PICK i \in 1 .. m : x = piece[i]
    BY <1>2 DEF Range
  <2> DEFINE k == a - 1 + i
  <2>2. k \in 1 .. Len(new)
    BY <1>1, <1>2
  <2>3. new[k] = piece[i]
    BY <1>1
  <2> HIDE DEF k
  <2> QED
    BY <1>2, <2>1, <2>2, <2>3 DEF Range
<1>6. Range(new) = Kept \cup Range(piece)
  <2> HIDE DEF Kept
  <2> QED
    BY <1>3, <1>4, <1>5
<1> QED
  BY <1>6 DEF new, n

\* A splice with ids of its own has distinct ids.
LEMMA DistinctSplice ==
  ASSUME NEW list \in Seq(Relation), NEW piece \in Seq(Relation),
         NEW a \in 1 .. Len(list) + 1, NEW b \in a - 1 .. Len(list),
         Distinct(list), Distinct(piece),
         \A i \in (1 .. Len(list)) \ (a .. b) : \A j \in 1 .. Len(piece) :
           list[i].id # piece[j].id
  PROVE  Distinct(Splice(list, a, b, piece))
<1> DEFINE new == Splice(list, a, b, piece)
           m == Len(piece)
           n == Len(list)
           e == m - (b - a + 1)
           Old(i) == IF i <= a - 1 THEN i ELSE i - m + (b - a + 1)
<1>s. \A i \in 1 .. Len(new) :
         \/ i \in 1 .. a - 1 /\ new[i] = list[i]
         \/ i - (a - 1) \in 1 .. m /\ new[i] = piece[i - (a - 1)]
         \/ i - m + (b - a + 1) \in b + 1 .. n /\ new[i] = list[i - m + (b - a + 1)]
  BY SpliceSides
<1> HIDE DEF new
<1>2. n \in Nat /\ m \in Nat /\ a \in 1 .. n + 1 /\ b \in a - 1 .. n
  OBVIOUS
<1>3. /\ \A i, j \in 1 .. n : list[i].id = list[j].id => i = j
      /\ \A i, j \in 1 .. m : piece[i].id = piece[j].id => i = j
      /\ \A i \in (1 .. n) \ (a .. b) : \A j \in 1 .. m : list[i].id # piece[j].id
  BY DEF Distinct
<1> HIDE DEF m, n
<1>4. ASSUME NEW i \in 1 .. Len(new)
      PROVE  \/ \E k \in (1 .. n) \ (a .. b) :
                  new[i] = list[k] /\ i = IF k < a THEN k ELSE k + m - (b - a + 1)
             \/ \E k \in 1 .. m : new[i] = piece[k] /\ i = a - 1 + k
  <2>2. CASE i \in 1 .. a - 1 /\ new[i] = list[i]
    <3>1. i \in (1 .. n) \ (a .. b) /\ i < a
      BY <1>2, <2>2
    <3> QED
      BY <2>2, <3>1
  <2>3. CASE i - (a - 1) \in 1 .. m /\ new[i] = piece[i - (a - 1)]
    <3>1. a - 1 + (i - (a - 1)) = i
      BY <1>2
    <3> QED
      BY <2>3, <3>1
  <2>4. CASE i - m + (b - a + 1) \in b + 1 .. n /\ new[i] = list[i - m + (b - a + 1)]
    <3> DEFINE k == i - m + (b - a + 1)
    <3>1. k \in (1 .. n) \ (a .. b) /\ ~(k < a) /\ i = k + m - (b - a + 1)
      BY <1>2, <2>4
    <3>2. new[i] = list[k]
      BY <2>4
    <3> HIDE DEF k
    <3> QED
      BY <3>1, <3>2
  <2> QED
    BY <1>s, <2>2, <2>3, <2>4
<1>5. ASSUME NEW i \in 1 .. Len(new), NEW j \in 1 .. Len(new), new[i].id = new[j].id
      PROVE  i = j
  <2> DEFINE Place(k) == IF k < a THEN k ELSE k + m - (b - a + 1)
             Outer(x, k) == k \in (1 .. n) \ (a .. b) /\ new[x] = list[k] /\ x = Place(k)
             Inner(x, k) == k \in 1 .. m /\ new[x] = piece[k] /\ x = a - 1 + k
  <2>1. (\E k : Outer(i, k)) \/ (\E k : Inner(i, k))
    BY <1>4
  <2>2. (\E k : Outer(j, k)) \/ (\E k : Inner(j, k))
    BY <1>4
  <2>3. ASSUME NEW k, NEW l, Outer(i, k), Outer(j, l) PROVE i = j
    <3>1. k \in 1 .. n /\ l \in 1 .. n /\ list[k].id = list[l].id
      BY <1>5, <2>3
    <3>2. k = l
      BY <1>3, <3>1
    <3> QED
      BY <2>3, <3>2
  <2>4. ASSUME NEW k, NEW l, Inner(i, k), Inner(j, l) PROVE i = j
    <3>1. k \in 1 .. m /\ l \in 1 .. m /\ piece[k].id = piece[l].id
      BY <1>5, <2>4
    <3>2. k = l
      BY <1>3, <3>1
    <3> QED
      BY <2>4, <3>2
  <2>5. ~ \E k, l : Outer(i, k) /\ Inner(j, l)
    BY <1>3, <1>5, SMTT(30)
  <2>6. ~ \E k, l : Inner(i, k) /\ Outer(j, l)
    BY <1>3, <1>5, SMTT(30)
  <2> HIDE DEF Outer, Inner
  <2> QED
    BY <2>1, <2>2, <2>3, <2>4, <2>5, <2>6
<1> QED
  BY <1>5 DEF Distinct, new

-----------------------------------------------------------------------------
(***************************************************************************)
(* Placing and removing trees.                                             *)
(***************************************************************************)

Outside(list, id) == {x \in Range(list) : ~InSubtree(x, id)}

\* The subtree of id, which may be empty, gives way to a piece.
Exchanged(new, list, id, piece, a, b) ==
  /\ a \in 1 .. Len(list) + 1
  /\ b \in a - 1 .. Len(list)
  /\ new = Splice(list, a, b, piece)
  /\ Seams(list, a, b, piece)
  /\ \A i \in 1 .. Len(list) : InSubtree(list[i], id) <=> i \in a .. b

\* What exchanging a subtree for a piece makes of a forest.
LEMMA Exchange ==
  ASSUME NEW list, IsForest(list), NEW piece \in Seq(Relation), NEW id,
         NEW new, NEW a, NEW b, Exchanged(new, list, id, piece, a, b)
  PROVE  /\ new \in Seq(Relation)
         /\ Preorder(new)
         /\ Range(new) = Outside(list, id) \cup Range(piece)
         /\ Distinct(piece)
              /\ (\A x \in Outside(list, id) : \A y \in Range(piece) : x.id # y.id)
            => Distinct(new)
<1>1. /\ a \in 1 .. Len(list) + 1 /\ b \in a - 1 .. Len(list)
      /\ new = Splice(list, a, b, piece) /\ Seams(list, a, b, piece)
      /\ \A i \in 1 .. Len(list) : InSubtree(list[i], id) <=> i \in a .. b
  BY DEF Exchanged
<1>2. list \in Seq(Relation) /\ Preorder(list) /\ Distinct(list)
  BY DEF IsForest
<1>3. new \in Seq(Relation) /\ Preorder(new)
  BY <1>1, <1>2, PreorderSplice
<1>4. {list[i] : i \in (1 .. Len(list)) \ (a .. b)} = Outside(list, id)
  <2>1. Range(list) = {list[i] : i \in 1 .. Len(list)}
    BY <1>2 DEF Range
  <2> QED
    BY <1>1, <2>1 DEF Outside
<1>5. Range(new) = Outside(list, id) \cup Range(piece)
  <2>1. Range(Splice(list, a, b, piece)) =
          {list[i] : i \in (1 .. Len(list)) \ (a .. b)} \cup Range(piece)
    BY <1>1, <1>2, RangeSplice
  <2> QED
    BY <1>1, <1>4, <2>1
<1>6. ASSUME Distinct(piece),
             \A x \in Outside(list, id) : \A y \in Range(piece) : x.id # y.id
      PROVE  Distinct(new)
  <2>1. ASSUME NEW i \in (1 .. Len(list)) \ (a .. b), NEW j \in 1 .. Len(piece)
        PROVE  list[i].id # piece[j].id
    <3>1. list[i] \in Outside(list, id)
      BY <1>4
    <3>2. piece[j] \in Range(piece)
      BY DEF Range
    <3> QED
      BY <1>6, <3>1, <3>2
  <2> QED
    BY <1>1, <1>2, <1>6, <2>1, DistinctSplice
<1> QED
  BY <1>3, <1>5, <1>6

\* What a relation of the list, or one that may be put there, is nested in.
Attached(siblings, x) ==
  x.path = <<>> \/ \E y \in siblings : x.path = Append(y.path, y.id)

\* What is next to a subtree is not nested in it.
LEMMA AttachedOutside ==
  ASSUME NEW list, IsForest(list), NEW a, NEW b, IsSubtree(list, a, b)
  PROVE  Attached(Outside(list, list[a].id), list[a])
<1> DEFINE p == list[a].path
<1>1. /\ list \in Seq(Relation) /\ Preorder(list) /\ Len(list) \in Nat
      /\ DOMAIN list = 1 .. Len(list)
      /\ a \in 1 .. Len(list) /\ b \in a .. Len(list) /\ list[a] \in Relation
      /\ \A i \in 1 .. Len(list) : InSubtree(list[i], list[a].id) <=> i \in a .. b
  BY DEF IsForest, IsSubtree
<1>2. p \in Seq(RelationIds) /\ Len(p) \in Nat
  BY <1>1, RelationType
<1>3. CASE Len(p) = 0
  BY <1>2, <1>3 DEF Attached
<1>4. CASE Len(p) # 0
  <2>1. Len(p) \in 1 .. Len(p)
    BY <1>2, <1>4
  <2>2. PICK j \in 1 .. a - 1 : Encloses(list[j], list[a], Len(p))
    BY <1>1, <2>1, Ancestors
  <2>3. j \in 1 .. Len(list) /\ j \notin a .. b /\ list[j] \in Relation
    BY <1>1, <2>2
  <2>4. list[j] \in Outside(list, list[a].id)
    BY <1>1, <2>3 DEF Outside, Range
  <2>5. p = Append(list[j].path, list[j].id)
    <3> DEFINE s == Append(list[j].path, list[j].id)
    <3>1. /\ s \in Seq(RelationIds) /\ Len(s) = Len(list[j].path) + 1
          /\ Len(list[j].path) \in Nat
          /\ \A k \in 1 .. Len(list[j].path) : s[k] = list[j].path[k]
          /\ s[Len(list[j].path) + 1] = list[j].id
      BY <2>3, RelationType
    <3>2. /\ p[Len(p)] = list[j].id /\ Len(list[j].path) = Len(p) - 1
          /\ \A l \in 1 .. Len(p) - 1 : list[j].path[l] = p[l]
      BY <2>2 DEF Encloses
    <3> HIDE DEF s, p
    <3>3. ASSUME NEW k \in 1 .. Len(p) PROVE p[k] = s[k]
      <4>1. k \in 1 .. Len(p) - 1 \/ k = Len(p)
        BY <1>2
      <4> QED
        BY <1>2, <3>1, <3>2, <4>1
    <3>4. Len(s) = Len(p)
      BY <1>2, <3>1, <3>2
    <3>5. p = s
      BY <1>2, <3>1, <3>3, <3>4, SeqEqual
    <3> QED
      BY <3>5 DEF s
  <2> QED
    BY <2>4, <2>5 DEF Attached
<1> QED
  BY <1>3, <1>4

\* The path of the children of a relation that is there.
LEMMA ChildPathIs ==
  ASSUME NEW list, IsForest(list), NEW x \in Relation, Attached(Range(list), x)
  PROVE  /\ ParentOf(x) \in RelationIds \cup {NoParent}
         /\ ParentOf(x) # NoParent => ParentOf(x) \in Ids(list)
         /\ ChildPath(list, ParentOf(x)) = x.path
<1>1. list \in Seq(Relation) /\ DOMAIN list = 1 .. Len(list)
  BY DEF IsForest
<1>2. CASE x.path = <<>>
  BY <1>2 DEF ParentOf, ChildPath
<1>3. CASE x.path # <<>>
  <2>1. PICK j \in 1 .. Len(list) : x.path = Append(list[j].path, list[j].id)
    BY <1>1, <1>3 DEF Attached, Range
  <2>2. list[j] \in Relation
    BY <1>1
  <2>3. ParentOf(x) = list[j].id
    <3>1. /\ Len(list[j].path) \in Nat
          /\ Len(Append(list[j].path, list[j].id)) = Len(list[j].path) + 1
          /\ Append(list[j].path, list[j].id)[Len(list[j].path) + 1] = list[j].id
      BY <2>2, RelationType
    <3> QED
      BY <1>3, <2>1, <3>1 DEF ParentOf, Last
  <2>4. list[j].id \in RelationIds /\ list[j].id # NoParent /\ list[j].id \in Ids(list)
    BY <1>1, <2>2, RelationType, RelationGraphAssumption DEF Ids
  <2>5. IndexOf(list, list[j].id) = j
    BY <2>4, IndexOfFound
  <2> QED
    BY <2>1, <2>3, <2>4, <2>5 DEF ChildPath
<1> QED
  BY <1>2, <1>3

\* Without its subtree.
LEMMA Removed ==
  ASSUME NEW list, IsForest(list), NEW id, id \in Ids(list)
  PROVE  \E a, b : Exchanged(WithoutSubtree(list, id), list, id, <<>>, a, b)
<1> DEFINE a == IndexOf(list, id)
<1>1. a \in 1 .. Len(list) /\ list[a].id = id
  BY IndexOfFound
<1> HIDE DEF a
<1>2. PICK b \in a .. Len(list) : IsSubtree(list, a, b)
  BY <1>1, SubtreeExists
<1>3. /\ list \in Seq(Relation) /\ Preorder(list) /\ Len(list) \in Nat
      /\ a \in 1 .. Len(list) + 1 /\ b \in a - 1 .. Len(list)
      /\ \A i \in 1 .. Len(list) : InSubtree(list[i], id) <=> i \in a .. b
  BY <1>1, <1>2 DEF IsForest, IsSubtree
<1>4. WithoutSubtree(list, id) = Splice(list, a, b, <<>>)
  BY <1>1, <1>2, WithoutSubtreeIs
<1>5. Seams(list, a, b, <<>>)
  <2>1. Len(<<>>) = 0
    OBVIOUS
  <2>2. ASSUME b < Len(list)
        PROVE  /\ a = 1 => list[b + 1].path = <<>>
               /\ a > 1 => Follows(list[a - 1], list[b + 1])
    <3>1. IsPrefix(list[b + 1].path, list[a].path)
      BY <1>2, <2>2, BehindSubtree
    <3>2. b + 1 \in 1 .. Len(list)
      BY <1>1, <1>3, <2>2
    <3>3. /\ list[b + 1] \in Relation /\ list[a] \in Relation
          /\ list[b + 1].path \in Seq(RelationIds) /\ list[a].path \in Seq(RelationIds)
      BY <1>1, <1>3, <3>2, RelationType
    <3>4. CASE a = 1
      <4>1. list[a].path = <<>>
        BY <1>1, <1>3, <3>4, PreorderSteps
      <4>2. Len(list[b + 1].path) <= Len(list[a].path)
        BY <3>1, <3>3, PrefixPointwise
      <4>3. Len(list[a].path) = 0
        BY <4>1
      <4>4. Len(list[b + 1].path) = 0
        BY <3>3, <4>2, <4>3
      <4> QED
        BY <3>3, <3>4, <4>4
    <3>5. CASE a > 1
      <4>1. a - 1 \in 1 .. Len(list) /\ a \in 2 .. Len(list)
        BY <1>1, <1>3, <3>5
      <4>2. list[a - 1] \in Relation
        BY <1>3, <4>1
      <4>3. Append(list[a - 1].path, list[a - 1].id) \in Seq(RelationIds)
        BY <4>2, RelationType
      <4>4. Follows(list[a - 1], list[a])
        BY <1>3, <4>1, PreorderSteps
      <4>5. IsPrefix(list[a].path, Append(list[a - 1].path, list[a - 1].id))
        BY <4>4 DEF Follows
      <4>6. IsPrefix(list[b + 1].path, Append(list[a - 1].path, list[a - 1].id))
        BY <3>1, <3>3, <4>3, <4>5, PrefixTransitive
      <4> QED
        BY <3>5, <4>6 DEF Follows
    <3> QED
      BY <1>1, <3>4, <3>5
  <2>3. \A i \in 2 .. Len(<<>>) : Follows(<<>>[i - 1], <<>>[i])
    BY <2>1
  <2> QED
    BY <2>1, <2>2, <2>3 DEF Seams
<1> QED
  BY <1>3, <1>4, <1>5 DEF Exchanged

\* A tree below the path q: its root, and the relations nested in the root.
LEMMA PlacedTree ==
  ASSUME NEW tree, IsTree(tree), NEW q \in Seq(RelationIds)
  PROVE  LET piece == Rooted(tree, q) IN
         /\ piece \in Seq(Relation) /\ Len(piece) \in Nat \ {0} /\ Len(piece) = Len(tree)
         /\ piece[1].path = q /\ piece[1].id = Head(tree).id
         /\ \A i \in 2 .. Len(piece) : Follows(piece[i - 1], piece[i])
         /\ \A i \in 1 .. Len(piece) : piece[i].id = tree[i].id
         /\ \A i \in 1 .. Len(piece) : IsPrefix(q, piece[i].path)
         /\ \A i \in 1 .. Len(piece) : InSubtree(piece[i], Head(tree).id)
<1> DEFINE piece == Rooted(tree, q)
           m == Len(tree)
           id == Head(tree).id
<1>1. /\ tree \in Seq(Relation) /\ m \in Nat \ {0} /\ 1 \in 1 .. m
      /\ tree[1].path = <<>> /\ Head(tree) = tree[1]
      /\ \A i \in 2 .. m : Follows(tree[i - 1], tree[i])
      /\ \A i \in 2 .. m : Len(tree[i].path) > 0 /\ tree[i].path[1] = tree[1].id
      /\ \A i \in 1 .. m : tree[i] \in Relation
  BY TreeRoot
<1>2. /\ piece \in Seq(Relation) /\ Len(piece) = m
      /\ \A i \in 1 .. m : Below(q, tree[i], piece[i])
      /\ \A i \in 1 .. m : piece[i].path = q \o tree[i].path
  BY <1>1, RootedIs
<1> HIDE DEF piece, m
<1>3. piece[1].path = q /\ piece[1].id = id
  <2>1. q \o <<>> = q
    OBVIOUS
  <2>2. Below(q, tree[1], piece[1]) /\ piece[1].path = q \o tree[1].path
    BY <1>1, <1>2
  <2>3. piece[1].id = tree[1].id
    BY <2>2 DEF Below
  <2> QED
    BY <1>1, <2>1, <2>2, <2>3
<1>4. ASSUME NEW i \in 2 .. m PROVE Follows(piece[i - 1], piece[i])
  <2>1. i \in 1 .. m /\ i - 1 \in 1 .. m
    BY <1>1
  <2>2. /\ tree[i] \in Relation /\ tree[i - 1] \in Relation
        /\ piece[i] \in Relation /\ piece[i - 1] \in Relation
        /\ Below(q, tree[i], piece[i]) /\ Below(q, tree[i - 1], piece[i - 1])
        /\ Follows(tree[i - 1], tree[i])
    BY <1>1, <1>2, <2>1
  <2> QED
    BY <2>2, FollowsBelow
<1>5. ASSUME NEW i \in 1 .. m
      PROVE  /\ piece[i].id = tree[i].id
             /\ IsPrefix(q, piece[i].path)
             /\ InSubtree(piece[i], id)
  <2>1. /\ Below(q, tree[i], piece[i]) /\ tree[i] \in Relation /\ piece[i] \in Relation
    BY <1>1, <1>2
  <2>2. /\ piece[i].id = tree[i].id
        /\ Len(piece[i].path) = Len(q) + Len(tree[i].path)
        /\ \A k \in 1 .. Len(q) : piece[i].path[k] = q[k]
        /\ \A k \in 1 .. Len(tree[i].path) : piece[i].path[Len(q) + k] = tree[i].path[k]
    BY <2>1 DEF Below
  <2>3. /\ piece[i].path \in Seq(RelationIds) /\ Len(tree[i].path) \in Nat
        /\ DOMAIN piece[i].path = 1 .. Len(piece[i].path) /\ Len(q) \in Nat
    BY <2>1, RelationType
  <2>4. IsPrefix(q, piece[i].path)
    <3>1. Len(q) <= Len(piece[i].path)
      BY <2>2, <2>3
    <3> QED
      BY <2>2, <2>3, <3>1, PrefixPointwise
  <2>5. CASE i = 1
    BY <1>3, <2>2, <2>4, <2>5 DEF InSubtree
  <2>6. CASE i # 1
    <3>1. i \in 2 .. m
      BY <1>1, <2>6
    <3>2. Len(tree[i].path) > 0 /\ tree[i].path[1] = id
      BY <1>1, <3>1
    <3>3. 1 \in 1 .. Len(tree[i].path) /\ Len(q) + 1 \in 1 .. Len(piece[i].path)
      BY <2>2, <2>3, <3>2
    <3>4. piece[i].path[Len(q) + 1] = id
      BY <2>2, <3>2, <3>3
    <3>5. id \in Range(piece[i].path)
      BY <2>3, <3>3, <3>4 DEF Range
    <3> QED
      BY <2>2, <2>4, <3>5 DEF InSubtree
  <2> QED
    BY <2>5, <2>6
<1> QED
  BY <1>1, <1>2, <1>3, <1>4, <1>5 DEF piece, m

\* An id that is nowhere has no subtree.
LEMMA NoSubtree ==
  ASSUME NEW list, IsForest(list), NEW id, id \notin Ids(list), NEW i \in 1 .. Len(list)
  PROVE  ~InSubtree(list[i], id)
<1>1. /\ list \in Seq(Relation) /\ Preorder(list) /\ DOMAIN list = 1 .. Len(list)
      /\ Len(list) \in Nat /\ list[i] \in Relation
  BY DEF IsForest
<1>2. DOMAIN list[i].path = 1 .. Len(list[i].path)
  BY <1>1, RelationType
<1>3. ASSUME NEW k \in 1 .. Len(list[i].path) PROVE list[i].path[k] # id
  <2>1. PICK j \in 1 .. i - 1 : Encloses(list[j], list[i], k)
    BY <1>1, Ancestors
  <2>2. list[j].id \in Ids(list) /\ list[i].path[k] = list[j].id
    <3>1. j \in 1 .. Len(list)
      BY <1>1, <2>1
    <3> QED
      BY <1>1, <2>1, <3>1 DEF Ids, Encloses
  <2> QED
    BY <2>2
<1>4. list[i].id # id
  BY <1>1 DEF Ids
<1> QED
  BY <1>2, <1>3, <1>4 DEF InSubtree, Range

\* A tree in the place of the one its root had.
LEMMA Replacing ==
  ASSUME NEW list, IsForest(list), NEW a, NEW b, IsSubtree(list, a, b),
         NEW tree, IsTree(tree)
  PROVE  LET piece == Rooted(tree, list[a].path) IN
         Exchanged(ReplaceSubtree(list, list[a].id, piece), list, list[a].id, piece, a, b)
<1> DEFINE q == list[a].path
           piece == Rooted(tree, q)
           n == Len(list)
           m == Len(piece)
<1>1. /\ list \in Seq(Relation) /\ Preorder(list) /\ n \in Nat
      /\ a \in 1 .. n /\ b \in a .. n
      /\ a \in 1 .. n + 1 /\ b \in a - 1 .. n
      /\ \A i \in 1 .. n : InSubtree(list[i], list[a].id) <=> i \in a .. b
      /\ list[a] \in Relation
  BY DEF IsForest, IsSubtree
<1>2. q \in Seq(RelationIds)
  BY <1>1, RelationType
<1>3. /\ piece \in Seq(Relation) /\ m \in Nat \ {0} /\ piece[1].path = q
      /\ \A i \in 2 .. m : Follows(piece[i - 1], piece[i])
      /\ \A i \in 1 .. m : IsPrefix(q, piece[i].path)
  BY <1>2, PlacedTree
<1>4. ReplaceSubtree(list, list[a].id, piece) = Splice(list, a, b, piece)
  BY <1>3, ReplaceSubtreeIs
<1> HIDE DEF piece
<1>5. a = 1 => piece[1].path = <<>>
  BY <1>1, <1>3, PreorderSteps
<1>6. a > 1 => Follows(list[a - 1], piece[1])
  <2>1. a > 1 => Follows(list[a - 1], list[a])
    BY <1>1, PreorderSteps
  <2> QED
    BY <1>3, <2>1 DEF Follows
<1>7. ASSUME b < n PROVE Follows(piece[m], list[b + 1])
  <2>1. IsPrefix(list[b + 1].path, q)
    BY <1>7, BehindSubtree
  <2>2. list[b + 1] \in Relation /\ piece[m] \in Relation /\ IsPrefix(q, piece[m].path)
    <3>1. b + 1 \in 1 .. n
      BY <1>1, <1>7
    <3>2. m \in 1 .. m
      BY <1>3
    <3> HIDE DEF m
    <3> QED
      BY <1>1, <1>3, <3>1, <3>2 DEF m
  <2>3. /\ list[b + 1].path \in Seq(RelationIds)
        /\ piece[m].path \in Seq(RelationIds) /\ piece[m].id \in RelationIds
        /\ Append(piece[m].path, piece[m].id) \in Seq(RelationIds)
    BY <2>2, RelationType
  <2> HIDE DEF m, q
  <2>4. IsPrefix(list[b + 1].path, piece[m].path)
    BY <1>2, <2>1, <2>2, <2>3, PrefixTransitive
  <2>5. IsPrefix(piece[m].path, Append(piece[m].path, piece[m].id))
    BY <2>3, PrefixOfAppend
  <2>6. IsPrefix(list[b + 1].path, Append(piece[m].path, piece[m].id))
    BY <2>3, <2>4, <2>5, PrefixTransitive
  <2> QED
    BY <2>6 DEF Follows
<1>8. Seams(list, a, b, piece)
  BY <1>3, <1>5, <1>6, <1>7 DEF Seams
<1> QED
  BY <1>1, <1>4, <1>8 DEF Exchanged, piece

\* A tree behind all there is.
LEMMA PushingLast ==
  ASSUME NEW list, IsForest(list), NEW tree, IsTree(tree), NEW id, id \notin Ids(list)
  PROVE  LET piece == Rooted(tree, <<>>) IN
         Exchanged(PushSubtree(list, NoParent, piece), list, id, piece, Len(list) + 1, Len(list))
<1> DEFINE piece == Rooted(tree, <<>>)
           n == Len(list)
           m == Len(piece)
<1>1. /\ list \in Seq(Relation) /\ Preorder(list) /\ n \in Nat
      /\ n + 1 \in 1 .. n + 1 /\ n \in (n + 1) - 1 .. n
      /\ \A i \in 1 .. n : ~InSubtree(list[i], id) /\ i \notin n + 1 .. n
      /\ \A i \in 1 .. n : list[i] \in Relation
  BY NoSubtree DEF IsForest
<1>2. <<>> \in Seq(RelationIds)
  OBVIOUS
<1>3. /\ piece \in Seq(Relation) /\ m \in Nat \ {0} /\ piece[1].path = <<>>
      /\ \A i \in 2 .. m : Follows(piece[i - 1], piece[i])
  BY <1>2, PlacedTree
<1>4. PushSubtree(list, NoParent, piece) = Splice(list, n + 1, n, piece)
  BY PushSubtreeIs
<1> HIDE DEF piece
<1>5. ASSUME n + 1 > 1 PROVE Follows(list[(n + 1) - 1], piece[1])
  <2>1. (n + 1) - 1 = n /\ n \in 1 .. n
    BY <1>1, <1>5
  <2> HIDE DEF n
  <2>2. list[n] \in Relation
    BY <1>1, <2>1
  <2>3. IsPrefix(<<>>, Append(list[n].path, list[n].id))
    <3> DEFINE s == Append(list[n].path, list[n].id)
    <3>1. s \in Seq(RelationIds) /\ list[n].id \in RelationIds
      BY <2>2, RelationType
    <3> HIDE DEF s
    <3>2. IsPrefix(<<>>, s)
      BY <3>1, PrefixOfAppend
    <3> QED
      BY <3>2 DEF s
  <2> QED
    BY <1>3, <2>1, <2>3 DEF Follows
<1>6. Seams(list, n + 1, n, piece)
  BY <1>1, <1>3, <1>5 DEF Seams
<1> QED
  BY <1>1, <1>4, <1>6 DEF Exchanged, piece

\* A tree behind everything that is nested in its parent.
LEMMA PushingUnder ==
  ASSUME NEW list, IsForest(list), NEW a, NEW b, IsSubtree(list, a, b),
         NEW tree, IsTree(tree), NEW id, id \notin Ids(list)
  PROVE  LET piece == Rooted(tree, Append(list[a].path, list[a].id)) IN
         Exchanged(PushSubtree(list, list[a].id, piece), list, id, piece, b + 1, b)
<1> DEFINE q == Append(list[a].path, list[a].id)
           piece == Rooted(tree, q)
           n == Len(list)
           m == Len(piece)
<1>1. /\ list \in Seq(Relation) /\ Preorder(list) /\ n \in Nat
      /\ a \in 1 .. n /\ b \in a .. n
      /\ b + 1 \in 1 .. n + 1 /\ b \in (b + 1) - 1 .. n
      /\ \A i \in 1 .. n : ~InSubtree(list[i], id) /\ i \notin b + 1 .. b
      /\ \A i \in 1 .. n : list[i] \in Relation
      /\ \A i \in 1 .. n : InSubtree(list[i], list[a].id) <=> i \in a .. b
      /\ b \in 1 .. n /\ b \in a .. b
  BY NoSubtree DEF IsForest, IsSubtree
<1>2. q \in Seq(RelationIds) /\ list[a].path \in Seq(RelationIds) /\ list[a].id \in RelationIds
  BY <1>1, RelationType
<1>3. /\ piece \in Seq(Relation) /\ m \in Nat \ {0} /\ piece[1].path = q
      /\ \A i \in 2 .. m : Follows(piece[i - 1], piece[i])
      /\ \A i \in 1 .. m : IsPrefix(q, piece[i].path)
  BY <1>2, PlacedTree
<1>4. PushSubtree(list, list[a].id, piece) = Splice(list, b + 1, b, piece)
  BY PushSubtreeIs
<1> HIDE DEF piece
<1>5. Follows(list[b], piece[1])
  <2>1. b = a \/ Nested(list[a], list[b])
    BY <1>1, InSubtreeNested
  <2>2. CASE b = a
    <3>1. IsPrefix(q, q)
      BY <1>2, PrefixOfAppend
    <3> QED
      BY <1>3, <2>2, <3>1 DEF Follows
  <2>3. CASE Nested(list[a], list[b])
    <3>1. list[b] \in Relation /\ list[a] \in Relation
      BY <1>1
    <3>2. /\ list[b].path \in Seq(RelationIds) /\ list[b].id \in RelationIds
          /\ Append(list[b].path, list[b].id) \in Seq(RelationIds)
          /\ Len(list[a].path) \in Nat /\ Len(list[b].path) \in Nat
          /\ Len(q) = Len(list[a].path) + 1
          /\ \A k \in 1 .. Len(list[a].path) : q[k] = list[a].path[k]
          /\ q[Len(list[a].path) + 1] = list[a].id
      BY <3>1, RelationType
    <3>3. /\ Len(list[a].path) + 1 <= Len(list[b].path)
          /\ list[b].path[Len(list[a].path) + 1] = list[a].id
          /\ \A l \in 1 .. (Len(list[a].path) + 1) - 1 : list[a].path[l] = list[b].path[l]
      BY <2>3 DEF Nested, Encloses
    <3> HIDE DEF q
    <3>4. IsPrefix(q, list[b].path)
      <4>1. ASSUME NEW k \in 1 .. Len(q) PROVE q[k] = list[b].path[k]
        <5>1. k \in 1 .. Len(list[a].path) \/ k = Len(list[a].path) + 1
          BY <3>2
        <5>2. (Len(list[a].path) + 1) - 1 = Len(list[a].path)
          BY <3>2
        <5> QED
          BY <3>2, <3>3, <5>1, <5>2
      <4>2. Len(q) <= Len(list[b].path)
        BY <3>2, <3>3
      <4> QED
        BY <1>2, <3>2, <4>1, <4>2, PrefixPointwise
    <3>5. IsPrefix(list[b].path, Append(list[b].path, list[b].id))
      BY <3>2, PrefixOfAppend
    <3>6. IsPrefix(q, Append(list[b].path, list[b].id))
      BY <1>2, <3>2, <3>4, <3>5, PrefixTransitive
    <3> QED
      BY <1>3, <3>6 DEF Follows
  <2> QED
    BY <2>1, <2>2, <2>3
<1>6. ASSUME b < n PROVE Follows(piece[m], list[b + 1])
  <2>1. IsPrefix(list[b + 1].path, list[a].path)
    BY <1>6, BehindSubtree
  <2>2. list[b + 1] \in Relation /\ piece[m] \in Relation /\ IsPrefix(q, piece[m].path)
    <3>1. b + 1 \in 1 .. n
      BY <1>1, <1>6
    <3>2. m \in 1 .. m
      BY <1>3
    <3> HIDE DEF m
    <3> QED
      BY <1>1, <1>3, <3>1, <3>2 DEF m
  <2>3. /\ list[b + 1].path \in Seq(RelationIds)
        /\ piece[m].path \in Seq(RelationIds) /\ piece[m].id \in RelationIds
        /\ Append(piece[m].path, piece[m].id) \in Seq(RelationIds)
    BY <2>2, RelationType
  <2>4. IsPrefix(list[a].path, q)
    BY <1>2, PrefixOfAppend
  <2> HIDE DEF m, q
  <2>5. IsPrefix(list[b + 1].path, q)
    BY <1>2, <2>1, <2>3, <2>4, PrefixTransitive
  <2>6. IsPrefix(list[b + 1].path, piece[m].path)
    BY <1>2, <2>2, <2>3, <2>5, PrefixTransitive
  <2>7. IsPrefix(piece[m].path, Append(piece[m].path, piece[m].id))
    BY <2>3, PrefixOfAppend
  <2>8. IsPrefix(list[b + 1].path, Append(piece[m].path, piece[m].id))
    BY <2>3, <2>6, <2>7, PrefixTransitive
  <2> QED
    BY <2>8 DEF Follows
<1>7. Seams(list, b + 1, b, piece)
  <2>1. (b + 1) - 1 = b
    BY <1>1
  <2> QED
    BY <1>1, <1>3, <1>5, <1>6, <2>1 DEF Seams
<1> QED
  BY <1>1, <1>4, <1>7 DEF Exchanged, piece

\* put-relation finds the parent, and the root where the patch says it is.
Fits(list, parent, tree) ==
  /\ parent \in RelationIds \cup {NoParent}
  /\ IsTree(tree)
  /\ parent # NoParent => parent \in Ids(list)
  /\ Head(tree).id \in Ids(list) =>
       ParentOf(list[IndexOf(list, Head(tree).id)]) = parent

\* The relation of an id, and what it is nested in.
LEMMA Found ==
  ASSUME NEW list, IsForest(list), NEW id, id \in Ids(list)
  PROVE  LET a == IndexOf(list, id) IN
         /\ a \in 1 .. Len(list) /\ list[a].id = id /\ list[a] \in Relation
         /\ list[a] \in Range(list)
         /\ \E b : IsSubtree(list, a, b)
         /\ Attached(Outside(list, id), list[a])
         /\ Attached(Range(list), list[a])
         /\ ParentOf(list[a]) \in RelationIds \cup {NoParent}
         /\ \A x \in Range(list) : x.id = id => x = list[a]
<1> DEFINE a == IndexOf(list, id)
<1>1. /\ a \in 1 .. Len(list) /\ list[a].id = id
      /\ \A i \in 1 .. Len(list) : list[i].id = id => i = a
  BY IndexOfFound
<1> HIDE DEF a
<1>2. PICK b \in a .. Len(list) : IsSubtree(list, a, b)
  BY <1>1, SubtreeExists
<1>3. list \in Seq(Relation) /\ list[a] \in Relation /\ DOMAIN list = 1 .. Len(list)
  BY <1>1 DEF IsForest
<1>4. Attached(Outside(list, id), list[a])
  BY <1>1, <1>2, AttachedOutside
<1>5. Attached(Range(list), list[a])
  BY <1>4 DEF Attached, Outside
<1>6. ParentOf(list[a]) \in RelationIds \cup {NoParent}
  BY <1>3, <1>5, ChildPathIs
<1>7. list[a] \in Range(list) /\ \A x \in Range(list) : x.id = id => x = list[a]
  BY <1>1, <1>3 DEF Range
<1> QED
  BY <1>1, <1>2, <1>3, <1>4, <1>5, <1>6, <1>7 DEF a

\* Placing a tree, whether its id is there or not, keeps pre-order.
LEMMA Placing ==
  ASSUME NEW list, IsForest(list), NEW parent, NEW tree, Fits(list, parent, tree)
  PROVE  /\ ChildPath(list, parent) \in Seq(RelationIds)
         /\ Head(tree).id \in Ids(list) =>
              ChildPath(list, parent) = list[IndexOf(list, Head(tree).id)].path
         /\ \E a, b : Exchanged(PlaceRelation(list, parent, tree), list, Head(tree).id,
                                Rooted(tree, ChildPath(list, parent)), a, b)
<1> DEFINE id == Head(tree).id
           q == ChildPath(list, parent)
           new == PlaceRelation(list, parent, tree)
           piece == Rooted(tree, q)
<1>1. /\ parent \in RelationIds \cup {NoParent} /\ IsTree(tree)
      /\ parent # NoParent => parent \in Ids(list)
      /\ id \in Ids(list) => ParentOf(list[IndexOf(list, id)]) = parent
  BY DEF Fits
<1>2. CASE id \in Ids(list)
  <2> DEFINE a == IndexOf(list, id)
  <2>1. /\ list[a].id = id /\ list[a] \in Relation /\ Attached(Range(list), list[a])
        /\ \E b : IsSubtree(list, a, b)
    BY <1>2, Found
  <2>2. q = list[a].path
    BY <1>1, <1>2, <2>1, ChildPathIs
  <2>3. q \in Seq(RelationIds)
    BY <2>1, <2>2, RelationType
  <2>4. PICK b : IsSubtree(list, a, b)
    BY <2>1
  <2>5. new = ReplaceSubtree(list, id, piece)
    BY <1>2 DEF PlaceRelation
  <2> HIDE DEF new, q, a
  <2>6. Exchanged(ReplaceSubtree(list, list[a].id, Rooted(tree, list[a].path)), list,
                  list[a].id, Rooted(tree, list[a].path), a, b)
    BY <1>1, <2>4, Replacing
  <2>7. Exchanged(new, list, id, piece, a, b)
    BY <2>1, <2>2, <2>5, <2>6
  <2> QED
    BY <2>2, <2>3, <2>7 DEF new, q, a
<1>3. CASE id \notin Ids(list) /\ parent = NoParent
  <2>1. q = <<>>
    BY <1>3 DEF ChildPath
  <2>2. new = PushSubtree(list, NoParent, piece)
    BY <1>3 DEF PlaceRelation
  <2>3. q \in Seq(RelationIds)
    BY <2>1
  <2> HIDE DEF new, q, id
  <2>4. Exchanged(PushSubtree(list, NoParent, Rooted(tree, <<>>)), list, id, Rooted(tree, <<>>),
                  Len(list) + 1, Len(list))
    BY <1>1, <1>3, PushingLast
  <2>5. Exchanged(new, list, id, piece, Len(list) + 1, Len(list))
    BY <2>1, <2>2, <2>4
  <2> QED
    BY <1>3, <2>3, <2>5 DEF new, q, id
<1>4. CASE id \notin Ids(list) /\ parent # NoParent
  <2> DEFINE a == IndexOf(list, parent)
  <2>0. parent \in Ids(list)
    BY <1>1, <1>4
  <2>1. /\ list[a].id = parent /\ list[a] \in Relation /\ \E b : IsSubtree(list, a, b)
    BY <2>0, Found
  <2>2. q = Append(list[a].path, list[a].id)
    BY <1>4, <2>1 DEF ChildPath
  <2>3. q \in Seq(RelationIds)
    BY <2>1, <2>2, RelationType
  <2>4. PICK b : IsSubtree(list, a, b)
    BY <2>1
  <2>5. new = PushSubtree(list, parent, piece)
    BY <1>4 DEF PlaceRelation
  <2> HIDE DEF new, q, a, id
  <2>6. Exchanged(PushSubtree(list, list[a].id, Rooted(tree, Append(list[a].path, list[a].id))),
                  list, id, Rooted(tree, Append(list[a].path, list[a].id)), b + 1, b)
    BY <1>1, <1>4, <2>4, PushingUnder
  <2>7. Exchanged(new, list, id, piece, b + 1, b)
    BY <2>1, <2>2, <2>5, <2>6
  <2> QED
    BY <1>4, <2>3, <2>7 DEF new, q, id
<1> QED
  BY <1>2, <1>3, <1>4

\* What a list holds after a tree was placed.
LEMMA Placed ==
  ASSUME NEW list, IsForest(list), NEW parent, NEW tree, Fits(list, parent, tree)
  PROVE  LET new == PlaceRelation(list, parent, tree)
             id == Head(tree).id
             piece == Rooted(tree, ChildPath(list, parent))
         IN  /\ new \in Seq(Relation) /\ Preorder(new)
             /\ Range(new) = Outside(list, id) \cup Range(piece)
             /\ Outside(new, id) = Outside(list, id)
             /\ id \in Ids(new)
             /\ id \in Ids(list) => piece[1].path = list[IndexOf(list, id)].path
             /\ piece[1] \in Range(new) /\ piece[1].id = id
             /\ Distinct(piece)
                  /\ (\A x \in Outside(list, id) : \A y \in Range(piece) : x.id # y.id)
                => Distinct(new)
<1> DEFINE id == Head(tree).id
           q == ChildPath(list, parent)
           new == PlaceRelation(list, parent, tree)
           piece == Rooted(tree, q)
<1>1. q \in Seq(RelationIds) /\ IsTree(tree)
  BY Placing DEF Fits
<1>2. PICK a, b : Exchanged(new, list, id, piece, a, b)
  BY Placing
<1>3. id \in Ids(list) => q = list[IndexOf(list, id)].path
  BY Placing
<1> HIDE DEF q, id
<1>4. /\ piece \in Seq(Relation) /\ Len(piece) \in Nat \ {0}
      /\ piece[1].path = q /\ piece[1].id = id
      /\ \A i \in 1 .. Len(piece) : InSubtree(piece[i], id)
  BY <1>1, PlacedTree DEF id
<1> HIDE DEF new, piece
<1>5. /\ new \in Seq(Relation) /\ Preorder(new)
      /\ Range(new) = Outside(list, id) \cup Range(piece)
      /\ Distinct(piece)
           /\ (\A x \in Outside(list, id) : \A y \in Range(piece) : x.id # y.id)
         => Distinct(new)
  BY <1>2, <1>4, Exchange
<1>6. \A x \in Range(piece) : InSubtree(x, id)
  BY <1>4 DEF Range
<1>7. piece[1] \in Range(piece)
  BY <1>4 DEF Range
<1>8. Outside(new, id) = Outside(list, id)
  BY <1>5, <1>6 DEF Outside
<1>9. id \in Ids(new)
  <2>1. piece[1] \in Range(new)
    BY <1>5, <1>7
  <2>2. PICK i \in DOMAIN new : new[i] = piece[1]
    BY <2>1 DEF Range
  <2>3. new[i].id = id
    BY <1>4, <2>2
  <2> QED
    BY <2>3 DEF Ids
<1> QED
  BY <1>3, <1>4, <1>5, <1>7, <1>8, <1>9 DEF q, id, new, piece

\* The subtree of id, as the inverse of a patch carries it.
LEMMA Restored ==
  ASSUME NEW list, IsForest(list), NEW id, id \in Ids(list)
  PROVE  LET tree == SubtreeOf(list, id)
             piece == Rooted(tree, list[IndexOf(list, id)].path)
         IN  /\ IsTree(tree) /\ Head(tree).id = id
             /\ piece \in Seq(Relation)
             /\ Distinct(piece)
             /\ Range(piece) = Range(list) \ Outside(list, id)
<1> DEFINE a == IndexOf(list, id)
           tree == SubtreeOf(list, id)
           piece == Rooted(tree, list[a].path)
<1>1. list[a].id = id /\ \E b : IsSubtree(list, a, b)
  BY Found
<1> HIDE DEF a
<1>2. PICK b : IsSubtree(list, a, b)
  BY <1>1
<1>3. /\ list \in Seq(Relation) /\ Distinct(list) /\ Len(list) \in Nat
      /\ DOMAIN list = 1 .. Len(list)
      /\ a \in 1 .. Len(list) /\ b \in a .. Len(list)
      /\ \A i \in 1 .. Len(list) : InSubtree(list[i], id) <=> i \in a .. b
      /\ \A i \in 1 .. Len(list) : list[i] \in Relation
  BY <1>1, <1>2 DEF IsForest, IsSubtree
<1>4. /\ IsTree(tree) /\ Head(tree).id = id
      /\ piece = SubSeq(list, a, b)
  BY <1>1, <1>2, SubtreeOfIs
<1> HIDE DEF tree
<1>5. /\ piece \in Seq(Relation) /\ Len(piece) = b - a + 1
      /\ \A i \in 1 .. b - a + 1 : piece[i] = list[a + i - 1]
  <2>1. a \in Int /\ b \in Int /\ \A i \in a .. b : list[i] \in Relation
    BY <1>3
  <2>2. /\ SubSeq(list, a, b) \in Seq(Relation)
        /\ Len(SubSeq(list, a, b)) = IF a <= b THEN b - a + 1 ELSE 0
        /\ \A i \in 1 .. b - a + 1 : SubSeq(list, a, b)[i] = list[a + i - 1]
    BY <2>1, SubSeqProperties
  <2> HIDE DEF piece
  <2>3. a <= b
    BY <1>3
  <2> QED
    BY <1>4, <2>2, <2>3
<1> HIDE DEF piece
<1>6. Distinct(piece)
  <2>1. ASSUME NEW i \in 1 .. Len(piece), NEW j \in 1 .. Len(piece), piece[i].id = piece[j].id
        PROVE  i = j
    <3>1. /\ a + i - 1 \in 1 .. Len(list) /\ a + j - 1 \in 1 .. Len(list)
          /\ i \in 1 .. b - a + 1 /\ j \in 1 .. b - a + 1
      BY <1>3, <1>5
    <3>2. list[a + i - 1].id = list[a + j - 1].id
      BY <1>5, <2>1, <3>1
    <3>3. a + i - 1 = a + j - 1
      BY <1>3, <3>1, <3>2 DEF Distinct
    <3> QED
      BY <1>3, <3>1, <3>3
  <2> QED
    BY <2>1 DEF Distinct
<1>7. Range(piece) = Range(list) \ Outside(list, id)
  <2>0. DOMAIN piece = 1 .. b - a + 1
    BY <1>5
  <2>1. ASSUME NEW x \in Range(piece) PROVE x \in Range(list) \ Outside(list, id)
    <3>1. PICK i \in 1 .. b - a + 1 : x = piece[i]
      BY <2>0 DEF Range
    <3> DEFINE k == a + i - 1
    <3>2. k \in a .. b /\ k \in 1 .. Len(list)
      BY <1>3
    <3>3. x = list[k]
      BY <1>5, <3>1
    <3> HIDE DEF k
    <3>4. x \in Range(list) /\ InSubtree(x, id)
      BY <1>3, <3>2, <3>3 DEF Range
    <3> QED
      BY <3>4 DEF Outside
  <2>2. ASSUME NEW x \in Range(list) \ Outside(list, id) PROVE x \in Range(piece)
    <3>1. InSubtree(x, id)
      BY DEF Outside
    <3>2. PICK k \in 1 .. Len(list) : x = list[k]
      BY <1>3 DEF Range
    <3>3. k \in a .. b
      BY <1>3, <3>1, <3>2
    <3> DEFINE i == k - a + 1
    <3>4. i \in 1 .. b - a + 1 /\ a + i - 1 = k
      BY <1>3, <3>3
    <3> HIDE DEF i
    <3>5. piece[i] = x
      BY <1>5, <3>2, <3>4
    <3> QED
      BY <2>0, <3>4, <3>5 DEF Range
  <2> QED
    BY <2>1, <2>2
<1> QED
  BY <1>4, <1>5, <1>6, <1>7 DEF tree, piece, a

\* A list whose subtree of id was replaced or removed gets the old one back.
LEMMA PutBack ==
  ASSUME NEW old, IsForest(old), NEW id, id \in Ids(old),
         NEW list, IsForest(list), Outside(list, id) = Outside(old, id),
         \A x \in Range(list) : x.id = id => x.path = old[IndexOf(old, id)].path
  PROVE  LET parent == ParentOf(old[IndexOf(old, id)])
             tree == SubtreeOf(old, id)
             new == PlaceRelation(list, parent, tree)
         IN  /\ Fits(list, parent, tree)
             /\ ChildPath(list, parent) = old[IndexOf(old, id)].path
             /\ IsForest(new)
             /\ Range(new) = Range(old)
<1> DEFINE root == old[IndexOf(old, id)]
           parent == ParentOf(root)
           tree == SubtreeOf(old, id)
           new == PlaceRelation(list, parent, tree)
           piece == Rooted(tree, root.path)
<1>1. /\ root \in Relation /\ root.id = id /\ Attached(Outside(old, id), root)
      /\ root \in Range(old)
      /\ parent \in RelationIds \cup {NoParent}
  BY Found
<1>2. /\ IsTree(tree) /\ Head(tree).id = id
      /\ piece \in Seq(Relation)
      /\ Distinct(piece)
      /\ Range(piece) = Range(old) \ Outside(old, id)
  BY Restored
<1> HIDE DEF root, tree, new
<1>3. Attached(Range(list), root)
  BY <1>1 DEF Attached, Outside
<1>4. /\ parent # NoParent => parent \in Ids(list)
      /\ ChildPath(list, parent) = root.path
  BY <1>1, <1>3, ChildPathIs
<1>5. ASSUME id \in Ids(list) PROVE ParentOf(list[IndexOf(list, id)]) = parent
  <2> DEFINE x == list[IndexOf(list, id)]
  <2>1. x \in Range(list) /\ x.id = id
    BY <1>5, Found
  <2>2. x.path = root.path
    BY <2>1 DEF root
  <2> QED
    BY <2>2 DEF ParentOf
<1>6. Fits(list, parent, tree)
  BY <1>1, <1>2, <1>4, <1>5 DEF Fits
<1> HIDE DEF parent, piece
<1>7. /\ new \in Seq(Relation) /\ Preorder(new)
      /\ Range(new) = Outside(list, id) \cup Range(piece)
      /\ Distinct(piece)
           /\ (\A x \in Outside(list, id) : \A y \in Range(piece) : x.id # y.id)
         => Distinct(new)
  <2> DEFINE p2 == Rooted(tree, ChildPath(list, parent))
             n2 == PlaceRelation(list, parent, tree)
  <2>1. /\ n2 \in Seq(Relation) /\ Preorder(n2)
        /\ Range(n2) = Outside(list, Head(tree).id) \cup Range(p2)
        /\ Distinct(p2)
             /\ (\A x \in Outside(list, Head(tree).id) : \A y \in Range(p2) : x.id # y.id)
           => Distinct(n2)
    BY <1>6, Placed
  <2>2. p2 = piece /\ n2 = new
    BY <1>4 DEF piece, new
  <2> HIDE DEF p2, n2
  <2> QED
    BY <1>2, <2>1, <2>2
<1>8. Range(new) = Range(old)
  BY <1>2, <1>7 DEF Outside
<1>9. ASSUME NEW x \in Outside(list, id), NEW y \in Range(piece) PROVE x.id # y.id
  <2>1. x \in Range(old) /\ y \in Range(old) /\ x # y
    BY <1>2 DEF Outside
  <2>2. DOMAIN old = 1 .. Len(old) /\ Distinct(old)
    BY DEF IsForest
  <2> QED
    BY <2>1, <2>2 DEF Range, Distinct
<1>10. IsForest(new)
  BY <1>2, <1>7, <1>9 DEF IsForest
<1> QED
  BY <1>4, <1>6, <1>8, <1>10 DEF root, parent, tree, new

\* A list that got a new tree loses it again.
LEMMA TakenAway ==
  ASSUME NEW old, NEW id, NEW list, IsForest(list), id \in Ids(list),
         Outside(list, id) = Range(old)
  PROVE  /\ IsForest(WithoutSubtree(list, id))
         /\ Range(WithoutSubtree(list, id)) = Range(old)
<1> DEFINE new == WithoutSubtree(list, id)
<1>1. PICK a, b : Exchanged(new, list, id, <<>>, a, b)
  BY Removed
<1>2. <<>> \in Seq(Relation) /\ Range(<<>>) = {} /\ Len(<<>>) = 0
  BY DEF Range
<1>3. Distinct(<<>>)
  BY <1>2 DEF Distinct
<1> HIDE DEF new
<1>4. /\ new \in Seq(Relation) /\ Preorder(new)
      /\ Range(new) = Outside(list, id) \cup Range(<<>>)
      /\ Distinct(<<>>)
           /\ (\A x \in Outside(list, id) : \A y \in Range(<<>>) : x.id # y.id)
         => Distinct(new)
  BY <1>1, <1>2, Exchange, ZenonT(40)
<1> QED
  BY <1>2, <1>3, <1>4 DEF new, IsForest

-----------------------------------------------------------------------------
(***************************************************************************)
(* One operation, and the operation its inverse is.                        *)
(***************************************************************************)

\* An operation is one of the four.
LEMMA OperationKinds ==
  ASSUME NEW operation
  PROVE  IsOperation(operation) <=>
           \E n \in NodeIds :
             \/ \E list \in Seq(Relation) : Preorder(list) /\ operation = PutNode(n, list)
             \/ operation = RemoveNode(n)
             \/ \E parent \in RelationIds \cup {NoParent}, tree \in Seq(Relation) :
                  IsTree(tree) /\ operation = PutRelation(n, parent, tree)
             \/ \E id \in RelationIds : operation = RemoveRelation(n, id)
<1>1. ASSUME IsOperation(operation)
      PROVE  \E n \in NodeIds :
             \/ \E list \in Seq(Relation) : Preorder(list) /\ operation = PutNode(n, list)
             \/ operation = RemoveNode(n)
             \/ \E parent \in RelationIds \cup {NoParent}, tree \in Seq(Relation) :
                  IsTree(tree) /\ operation = PutRelation(n, parent, tree)
             \/ \E id \in RelationIds : operation = RemoveRelation(n, id)
  <2>1. operation.node \in NodeIds
    BY <1>1 DEF IsOperation
  <2> QED
    BY <1>1, <2>1 DEF IsOperation, IsTree
<1>2. ASSUME NEW n \in NodeIds
      PROVE  /\ \A list \in Seq(Relation) : Preorder(list) => IsOperation(PutNode(n, list))
             /\ IsOperation(RemoveNode(n))
             /\ \A parent \in RelationIds \cup {NoParent}, tree \in Seq(Relation) :
                  IsTree(tree) => IsOperation(PutRelation(n, parent, tree))
             /\ \A id \in RelationIds : IsOperation(RemoveRelation(n, id))
  BY DEF IsOperation, PutNode, RemoveNode, PutRelation, RemoveRelation
<1> QED
  BY <1>1, <1>2

\* put-node: always accepted.
LEMMA Putting ==
  ASSUME NEW nodes, NEW n, NEW list
  PROVE  /\ Accepts(nodes, PutNode(n, list))
         /\ Perform(nodes, PutNode(n, list)) = WithNode(nodes, n, list)
         /\ InverseOf(nodes, PutNode(n, list)) =
              IF n \in DOMAIN nodes THEN PutNode(n, nodes[n]) ELSE RemoveNode(n)
BY DEF Accepts, Perform, InverseOf, PutNode

\* remove-node: accepted when the node is there.
LEMMA Removing ==
  ASSUME NEW nodes, NEW n
  PROVE  /\ Accepts(nodes, RemoveNode(n)) <=> n \in DOMAIN nodes
         /\ Perform(nodes, RemoveNode(n)) = WithoutNode(nodes, n)
         /\ InverseOf(nodes, RemoveNode(n)) = PutNode(n, nodes[n])
BY DEF Accepts, Perform, InverseOf, RemoveNode

\* The operation that puts the subtree of id back.
RestoringOf(nodes, n, id) ==
  PutRelation(n, ParentOf(nodes[n][IndexOf(nodes[n], id)]), SubtreeOf(nodes[n], id))

\* put-relation.
LEMMA PuttingRelation ==
  ASSUME NEW nodes, NEW n \in NodeIds, NEW parent \in RelationIds \cup {NoParent},
         NEW tree, IsTree(tree)
  PROVE  /\ Accepts(nodes, PutRelation(n, parent, tree)) <=>
              Addressable(nodes) /\ n \in DOMAIN nodes /\ Fits(nodes[n], parent, tree)
         /\ Perform(nodes, PutRelation(n, parent, tree)) =
              WithNode(nodes, n, PlaceRelation(nodes[n], parent, tree))
         /\ InverseOf(nodes, PutRelation(n, parent, tree)) =
              IF Head(tree).id \in Ids(nodes[n]) THEN RestoringOf(nodes, n, Head(tree).id)
              ELSE RemoveRelation(n, Head(tree).id)
<1> DEFINE op == PutRelation(n, parent, tree)
<1>1. op.op = "put-relation" /\ op.node = n /\ op.parent = parent /\ op.tree = tree
  BY DEF PutRelation
<1> HIDE DEF op
<1>2. Accepts(nodes, op) <=>
        Addressable(nodes) /\ n \in DOMAIN nodes /\ Fits(nodes[n], parent, tree)
  BY <1>1 DEF Accepts, HasRelation, Fits
<1>3. Perform(nodes, op) = WithNode(nodes, n, PlaceRelation(nodes[n], parent, tree))
  BY <1>1 DEF Perform
<1>4. InverseOf(nodes, op) =
        IF Head(tree).id \in Ids(nodes[n]) THEN RestoringOf(nodes, n, Head(tree).id)
        ELSE RemoveRelation(n, Head(tree).id)
  BY <1>1 DEF InverseOf, RestoringOf
<1> QED
  BY <1>2, <1>3, <1>4 DEF op

\* remove-relation.
LEMMA RemovingRelation ==
  ASSUME NEW nodes, NEW n, NEW id
  PROVE  /\ Accepts(nodes, RemoveRelation(n, id)) <=>
              Addressable(nodes) /\ n \in DOMAIN nodes /\ id \in Ids(nodes[n])
         /\ Perform(nodes, RemoveRelation(n, id)) =
              WithNode(nodes, n, WithoutSubtree(nodes[n], id))
         /\ InverseOf(nodes, RemoveRelation(n, id)) = RestoringOf(nodes, n, id)
<1> DEFINE op == RemoveRelation(n, id)
<1>1. op.op = "remove-relation" /\ op.node = n /\ op.id = id
  BY DEF RemoveRelation
<1> HIDE DEF op
<1>2. Accepts(nodes, op) <=> Addressable(nodes) /\ n \in DOMAIN nodes /\ id \in Ids(nodes[n])
  BY <1>1 DEF Accepts, HasRelation
<1>3. Perform(nodes, op) = WithNode(nodes, n, WithoutSubtree(nodes[n], id))
  BY <1>1 DEF Perform
<1>4. InverseOf(nodes, op) = RestoringOf(nodes, n, id)
  BY <1>1 DEF InverseOf, RestoringOf
<1> QED
  BY <1>2, <1>3, <1>4 DEF op

Indexed(nodes) == IsNodes(nodes) /\ InPreorder(nodes) /\ Addressable(nodes)

\* An indexable graph is one of forests.
LEMMA IndexedForests ==
  ASSUME NEW nodes, IsNodes(nodes)
  PROVE  Indexed(nodes) <=>
           \A n \in DOMAIN nodes : IsForest(nodes[n]) /\ WithinDepth(nodes[n])
<1>1. \A n \in DOMAIN nodes : nodes[n] \in Seq(Relation) /\ DOMAIN nodes[n] = 1 .. Len(nodes[n])
  BY DEF IsNodes
<1> QED
  BY <1>1 DEF Indexed, InPreorder, Addressable, IsForest, Distinct

\* The graph with another list for one node.
IsChange(new, nodes, n, list) ==
  /\ DOMAIN new = DOMAIN nodes \cup {n}
  /\ new[n] = list
  /\ \A m \in DOMAIN nodes \ {n} : new[m] = nodes[m]

LEMMA NodeChanged ==
  ASSUME NEW nodes, IsNodes(nodes), NEW n \in NodeIds, NEW list \in Seq(Relation)
  PROVE  /\ IsNodes(WithNode(nodes, n, list))
         /\ IsChange(WithNode(nodes, n, list), nodes, n, list)
BY DEF IsNodes, WithNode, IsChange

LEMMA NodeRemoved ==
  ASSUME NEW nodes, IsNodes(nodes), NEW n
  PROVE  /\ IsNodes(WithoutNode(nodes, n))
         /\ DOMAIN WithoutNode(nodes, n) = DOMAIN nodes \ {n}
         /\ \A m \in DOMAIN nodes \ {n} : WithoutNode(nodes, n)[m] = nodes[m]
BY DEF IsNodes, WithoutNode

\* The inverse of the relation operations is an operation.
LEMMA RestoringIsOperation ==
  ASSUME NEW nodes, NEW n \in NodeIds, NEW id, IsForest(nodes[n]), id \in Ids(nodes[n])
  PROVE  IsOperation(RestoringOf(nodes, n, id))
<1> DEFINE list == nodes[n]
<1>1. ParentOf(list[IndexOf(list, id)]) \in RelationIds \cup {NoParent}
  BY Found
<1>2. IsTree(SubtreeOf(list, id))
  BY Restored
<1> QED
  BY <1>1, <1>2, OperationKinds DEF RestoringOf, IsTree

\* An operation of a patch leaves lists in pre-order, and its inverse is an
\* operation a patch can carry.
LEMMA StepForward ==
  ASSUME NEW nodes, IsNodes(nodes), InPreorder(nodes),
         NEW operation, IsOperation(operation), Accepts(nodes, operation)
  PROVE  /\ IsNodes(Perform(nodes, operation))
         /\ InPreorder(Perform(nodes, operation))
         /\ IsOperation(InverseOf(nodes, operation))
<1>1. PICK n \in NodeIds :
             \/ \E list \in Seq(Relation) : Preorder(list) /\ operation = PutNode(n, list)
             \/ operation = RemoveNode(n)
             \/ \E parent \in RelationIds \cup {NoParent}, tree \in Seq(Relation) :
                  IsTree(tree) /\ operation = PutRelation(n, parent, tree)
             \/ \E id \in RelationIds : operation = RemoveRelation(n, id)
  BY OperationKinds
<1>2. \A m \in DOMAIN nodes : nodes[m] \in Seq(Relation) /\ Preorder(nodes[m])
  BY DEF IsNodes, InPreorder
<1>3. ASSUME NEW list \in Seq(Relation), Preorder(list)
      PROVE  IsNodes(WithNode(nodes, n, list)) /\ InPreorder(WithNode(nodes, n, list))
  <2> DEFINE new == WithNode(nodes, n, list)
  <2>0. IsNodes(new) /\ IsChange(new, nodes, n, list)
    BY NodeChanged
  <2> HIDE DEF new
  <2>1. /\ IsNodes(new)
        /\ DOMAIN new = DOMAIN nodes \cup {n}
        /\ new[n] = list
        /\ \A m \in DOMAIN nodes \ {n} : new[m] = nodes[m]
    BY <2>0 DEF IsChange
  <2>2. InPreorder(new)
    BY <1>2, <1>3, <2>1 DEF InPreorder
  <2> QED
    BY <2>1, <2>2 DEF new
<1>4. CASE \E list \in Seq(Relation) : Preorder(list) /\ operation = PutNode(n, list)
  <2>1. PICK list \in Seq(Relation) : Preorder(list) /\ operation = PutNode(n, list)
    BY <1>4
  <2>2. /\ Perform(nodes, operation) = WithNode(nodes, n, list)
        /\ InverseOf(nodes, operation) =
              IF n \in DOMAIN nodes THEN PutNode(n, nodes[n]) ELSE RemoveNode(n)
    BY <2>1, Putting
  <2>3. IsOperation(InverseOf(nodes, operation))
    BY <1>2, <2>2, OperationKinds
  <2> QED
    BY <1>3, <2>1, <2>2, <2>3
<1>5. CASE operation = RemoveNode(n)
  <2> DEFINE new == WithoutNode(nodes, n)
  <2>1. /\ n \in DOMAIN nodes
        /\ Perform(nodes, operation) = new
        /\ InverseOf(nodes, operation) = PutNode(n, nodes[n])
    BY <1>5, Removing
  <2>2. /\ IsNodes(new) /\ DOMAIN new = DOMAIN nodes \ {n}
        /\ \A m \in DOMAIN nodes \ {n} : new[m] = nodes[m]
    BY NodeRemoved
  <2> HIDE DEF new
  <2>3. InPreorder(new)
    BY <1>2, <2>2 DEF InPreorder
  <2>4. IsOperation(InverseOf(nodes, operation))
    BY <1>2, <2>1, OperationKinds
  <2> QED
    BY <2>1, <2>2, <2>3, <2>4
<1>6. ASSUME Addressable(nodes), n \in DOMAIN nodes PROVE IsForest(nodes[n])
  BY <1>6, IndexedForests DEF Indexed
<1>7. CASE \E parent \in RelationIds \cup {NoParent}, tree \in Seq(Relation) :
             IsTree(tree) /\ operation = PutRelation(n, parent, tree)
  <2>1. PICK parent \in RelationIds \cup {NoParent}, tree \in Seq(Relation) :
             IsTree(tree) /\ operation = PutRelation(n, parent, tree)
    BY <1>7
  <2> DEFINE new == PlaceRelation(nodes[n], parent, tree)
             id == Head(tree).id
  <2>2. /\ Addressable(nodes) /\ n \in DOMAIN nodes /\ Fits(nodes[n], parent, tree)
        /\ Perform(nodes, operation) = WithNode(nodes, n, new)
        /\ InverseOf(nodes, operation) =
              IF id \in Ids(nodes[n]) THEN RestoringOf(nodes, n, id)
              ELSE RemoveRelation(n, id)
    BY <2>1, PuttingRelation
  <2>3. IsForest(nodes[n])
    BY <1>6, <2>2
  <2>4. new \in Seq(Relation) /\ Preorder(new)
    BY <2>2, <2>3, Placed
  <2>5. id \in RelationIds
    <3>1. tree[1] \in Relation /\ Head(tree) = tree[1]
      BY <2>1, TreeRoot
    <3> QED
      BY <3>1, RelationType
  <2> HIDE DEF new, id
  <2>6. IsOperation(InverseOf(nodes, operation))
    <3>1. CASE id \in Ids(nodes[n])
      BY <2>2, <2>3, <3>1, RestoringIsOperation
    <3>2. CASE id \notin Ids(nodes[n])
      BY <2>2, <2>5, <3>2, OperationKinds
    <3> QED
      BY <3>1, <3>2
  <2> QED
    BY <1>3, <2>2, <2>4, <2>6
<1>8. CASE \E id \in RelationIds : operation = RemoveRelation(n, id)
  <2>1. PICK id \in RelationIds : operation = RemoveRelation(n, id)
    BY <1>8
  <2> DEFINE new == WithoutSubtree(nodes[n], id)
  <2>2. /\ Addressable(nodes) /\ n \in DOMAIN nodes /\ id \in Ids(nodes[n])
        /\ Perform(nodes, operation) = WithNode(nodes, n, new)
        /\ InverseOf(nodes, operation) = RestoringOf(nodes, n, id)
    BY <2>1, RemovingRelation
  <2>3. IsForest(nodes[n])
    BY <1>6, <2>2
  <2>4. new \in Seq(Relation) /\ Preorder(new)
    <3>1. PICK a, b : Exchanged(new, nodes[n], id, <<>>, a, b)
      BY <2>2, <2>3, Removed
    <3>2. <<>> \in Seq(Relation)
      OBVIOUS
    <3> HIDE DEF new
    <3> QED
      BY <2>3, <3>1, <3>2, Exchange
  <2> HIDE DEF new
  <2>5. IsOperation(InverseOf(nodes, operation))
    BY <2>2, <2>3, RestoringIsOperation
  <2> QED
    BY <1>3, <2>2, <2>4, <2>5
<1> QED
  BY <1>1, <1>4, <1>5, <1>7, <1>8

\* How deep relations are nested does not depend on their order.
LEMMA DepthOfContent ==
  ASSUME NEW list, IsForest(list), NEW other, IsForest(other),
         Range(list) = Range(other), WithinDepth(other)
  PROVE  WithinDepth(list)
<1>1. \A x \in Range(other) : Len(x.path) < MaxRelationDepth
  BY DEF WithinDepth, Range
<1> QED
  BY <1>1 DEF WithinDepth, Range

\* A list put into a graph that has the content of another but for one node.
LEMMA NodeBack ==
  ASSUME NEW nodes, Indexed(nodes), NEW others, Indexed(others),
         NEW n \in DOMAIN others, DOMAIN nodes \cup {n} = DOMAIN others,
         \A m \in DOMAIN others \ {n} : Range(nodes[m]) = Range(others[m]),
         NEW list, IsForest(list), Range(list) = Range(others[n])
  PROVE  /\ Indexed(WithNode(nodes, n, list))
         /\ SameContent(WithNode(nodes, n, list), others)
<1> DEFINE new == WithNode(nodes, n, list)
<1>1. /\ IsNodes(nodes) /\ IsNodes(others) /\ n \in NodeIds /\ list \in Seq(Relation)
      /\ \A m \in DOMAIN nodes : IsForest(nodes[m]) /\ WithinDepth(nodes[m])
      /\ \A m \in DOMAIN others : IsForest(others[m]) /\ WithinDepth(others[m])
  <2>1. IsNodes(nodes) /\ IsNodes(others)
    BY DEF Indexed
  <2>2. /\ \A m \in DOMAIN nodes : IsForest(nodes[m]) /\ WithinDepth(nodes[m])
        /\ \A m \in DOMAIN others : IsForest(others[m]) /\ WithinDepth(others[m])
    BY <2>1, IndexedForests
  <2> QED
    BY <2>1, <2>2 DEF IsNodes, IsForest
<1>0. IsNodes(new) /\ IsChange(new, nodes, n, list)
  BY <1>1, NodeChanged
<1> HIDE DEF new
<1>2. /\ IsNodes(new)
      /\ DOMAIN new = DOMAIN nodes \cup {n}
      /\ new[n] = list
      /\ \A m \in DOMAIN nodes \ {n} : new[m] = nodes[m]
  BY <1>0 DEF IsChange
<1>3. WithinDepth(list)
  BY <1>1, DepthOfContent
<1>4. Indexed(new)
  <2>1. \A m \in DOMAIN new : IsForest(new[m]) /\ WithinDepth(new[m])
    BY <1>1, <1>2, <1>3
  <2> QED
    BY <1>2, <2>1, IndexedForests
<1>5. SameContent(new, others)
  BY <1>2 DEF SameContent
<1> QED
  BY <1>4, <1>5 DEF new

\* The inverse of an operation undoes it, also in a graph whose relations are
\* the same in another order.
LEMMA StepBack ==
  ASSUME NEW nodes, Indexed(nodes),
         NEW operation, IsOperation(operation), Accepts(nodes, operation),
         NEW other, Indexed(other), SameContent(other, Perform(nodes, operation))
  PROVE  LET back == InverseOf(nodes, operation) IN
         /\ Accepts(other, back)
         /\ Indexed(Perform(other, back))
         /\ SameContent(Perform(other, back), nodes)
<1> DEFINE back == InverseOf(nodes, operation)
           Goal == /\ Accepts(other, back)
                   /\ Indexed(Perform(other, back))
                   /\ SameContent(Perform(other, back), nodes)
<1>1. PICK n \in NodeIds :
             \/ \E list \in Seq(Relation) : Preorder(list) /\ operation = PutNode(n, list)
             \/ operation = RemoveNode(n)
             \/ \E parent \in RelationIds \cup {NoParent}, tree \in Seq(Relation) :
                  IsTree(tree) /\ operation = PutRelation(n, parent, tree)
             \/ \E id \in RelationIds : operation = RemoveRelation(n, id)
  BY OperationKinds
<1>2. /\ IsNodes(nodes) /\ IsNodes(other) /\ Addressable(nodes) /\ Addressable(other)
      /\ \A m \in DOMAIN nodes : IsForest(nodes[m]) /\ WithinDepth(nodes[m])
      /\ \A m \in DOMAIN other : IsForest(other[m]) /\ WithinDepth(other[m])
  <2>1. IsNodes(nodes) /\ IsNodes(other) /\ Addressable(nodes) /\ Addressable(other)
    BY DEF Indexed
  <2> QED
    BY <2>1, IndexedForests
<1> DEFINE after == Perform(nodes, operation)
<1>3. DOMAIN other = DOMAIN after /\ \A m \in DOMAIN other : Range(other[m]) = Range(after[m])
  BY DEF SameContent
<1>4. ASSUME NEW list, after = WithNode(nodes, n, list), list \in Seq(Relation)
      PROVE  /\ DOMAIN other = DOMAIN nodes \cup {n}
             /\ Range(other[n]) = Range(list)
             /\ \A m \in DOMAIN nodes \ {n} : Range(other[m]) = Range(nodes[m])
  <2> HIDE DEF after, back
  <2>0. IsNodes(nodes) /\ list \in Seq(Relation)
    BY <1>2, <1>4
  <2>1. IsChange(after, nodes, n, list)
    BY <2>0, <1>4, NodeChanged
  <2> QED
    BY <1>3, <1>4, <2>1 DEF IsChange
<1>5. CASE \E list \in Seq(Relation) : Preorder(list) /\ operation = PutNode(n, list)
  <2>1. PICK list \in Seq(Relation) : Preorder(list) /\ operation = PutNode(n, list)
    BY <1>5
  <2>2. /\ after = WithNode(nodes, n, list)
        /\ back = IF n \in DOMAIN nodes THEN PutNode(n, nodes[n]) ELSE RemoveNode(n)
    BY <2>1, Putting
  <2>3. /\ DOMAIN other = DOMAIN nodes \cup {n}
        /\ \A m \in DOMAIN nodes \ {n} : Range(other[m]) = Range(nodes[m])
    BY <1>4, <2>2
  <2> HIDE DEF after, back
  <2>4. CASE n \in DOMAIN nodes
    <3>1. Accepts(other, back) /\ Perform(other, back) = WithNode(other, n, nodes[n])
      BY <2>2, <2>4, Putting
    <3>2. DOMAIN other \cup {n} = DOMAIN nodes
      BY <2>3, <2>4
    <3>3. /\ Indexed(WithNode(other, n, nodes[n]))
          /\ SameContent(WithNode(other, n, nodes[n]), nodes)
      BY <1>2, <2>3, <2>4, <3>2, NodeBack
    <3> QED
      BY <3>1, <3>3 DEF back
  <2>5. CASE n \notin DOMAIN nodes
    <3> DEFINE new == WithoutNode(other, n)
    <3>1. Accepts(other, back) /\ Perform(other, back) = new
      BY <2>2, <2>3, <2>5, Removing
    <3>2. IsNodes(new) /\ DOMAIN new = DOMAIN other \ {n}
          /\ \A m \in DOMAIN other \ {n} : new[m] = other[m]
      BY <1>2, NodeRemoved
    <3> HIDE DEF new
    <3>3. Indexed(new)
      <4>1. \A m \in DOMAIN new : IsForest(new[m]) /\ WithinDepth(new[m])
        BY <1>2, <3>2
      <4> QED
        BY <3>2, <4>1, IndexedForests
    <3>4. SameContent(new, nodes)
      BY <2>3, <2>5, <3>2 DEF SameContent
    <3> QED
      BY <3>1, <3>3, <3>4 DEF back
  <2> QED
    BY <2>4, <2>5 DEF back
<1>6. CASE operation = RemoveNode(n)
  <2>1. /\ n \in DOMAIN nodes
        /\ after = WithoutNode(nodes, n)
        /\ back = PutNode(n, nodes[n])
    BY <1>6, Removing
  <2> HIDE DEF after, back
  <2>2. /\ DOMAIN after = DOMAIN nodes \ {n}
        /\ \A m \in DOMAIN nodes \ {n} : after[m] = nodes[m]
    <3>1. /\ DOMAIN WithoutNode(nodes, n) = DOMAIN nodes \ {n}
          /\ \A m \in DOMAIN nodes \ {n} : WithoutNode(nodes, n)[m] = nodes[m]
      BY <1>2, NodeRemoved
    <3> QED
      BY <2>1, <3>1
  <2>3. Accepts(other, back) /\ Perform(other, back) = WithNode(other, n, nodes[n])
    BY <2>1, Putting
  <2>4. /\ DOMAIN other \cup {n} = DOMAIN nodes
        /\ \A m \in DOMAIN nodes \ {n} : Range(other[m]) = Range(nodes[m])
    BY <1>3, <2>1, <2>2
  <2>5. /\ Indexed(WithNode(other, n, nodes[n]))
        /\ SameContent(WithNode(other, n, nodes[n]), nodes)
    BY <1>2, <2>1, <2>4, NodeBack
  <2> QED
    BY <2>3, <2>5 DEF back
\* Putting the old subtree back.
<1>7. ASSUME NEW id, n \in DOMAIN nodes, id \in Ids(nodes[n]), back = RestoringOf(nodes, n, id),
             DOMAIN other = DOMAIN nodes,
             \A m \in DOMAIN nodes \ {n} : Range(other[m]) = Range(nodes[m]),
             Outside(other[n], id) = Outside(nodes[n], id),
             \A x \in Range(other[n]) :
               x.id = id => x.path = nodes[n][IndexOf(nodes[n], id)].path
      PROVE  Goal
  <2> DEFINE parent == ParentOf(nodes[n][IndexOf(nodes[n], id)])
             tree == SubtreeOf(nodes[n], id)
             new == PlaceRelation(other[n], parent, tree)
  <2>1. IsForest(nodes[n]) /\ IsForest(other[n])
    BY <1>2, <1>7
  <2>2. Fits(other[n], parent, tree) /\ IsForest(new) /\ Range(new) = Range(nodes[n])
    BY <1>7, <2>1, PutBack
  <2>3. parent \in RelationIds \cup {NoParent} /\ IsTree(tree)
    BY <2>2 DEF Fits
  <2>4. back = PutRelation(n, parent, tree)
    BY <1>7 DEF RestoringOf
  <2> HIDE DEF parent, tree, back
  <2>5. Accepts(other, back) /\ Perform(other, back) = WithNode(other, n, new)
    BY <1>2, <1>7, <2>2, <2>3, <2>4, PuttingRelation
  <2> HIDE DEF new
  <2>6. DOMAIN other \cup {n} = DOMAIN nodes
    BY <1>7
  <2>7. Indexed(WithNode(other, n, new)) /\ SameContent(WithNode(other, n, new), nodes)
    BY <1>7, <2>2, <2>6, NodeBack
  <2> QED
    BY <2>5, <2>7 DEF back
<1>8. CASE \E parent \in RelationIds \cup {NoParent}, tree \in Seq(Relation) :
             IsTree(tree) /\ operation = PutRelation(n, parent, tree)
  <2>1. PICK parent \in RelationIds \cup {NoParent}, tree \in Seq(Relation) :
             IsTree(tree) /\ operation = PutRelation(n, parent, tree)
    BY <1>8
  <2> DEFINE old == nodes[n]
             new == PlaceRelation(old, parent, tree)
             id == Head(tree).id
             piece == Rooted(tree, ChildPath(old, parent))
  <2>2. /\ n \in DOMAIN nodes /\ Fits(old, parent, tree)
        /\ after = WithNode(nodes, n, new)
        /\ back = IF id \in Ids(old) THEN RestoringOf(nodes, n, id)
                  ELSE RemoveRelation(n, id)
    BY <2>1, PuttingRelation
  <2>3. IsForest(old)
    BY <1>2, <2>2
  <2>4. /\ new \in Seq(Relation)
        /\ Outside(new, id) = Outside(old, id)
        /\ id \in Ids(new)
        /\ id \in Ids(old) => piece[1].path = old[IndexOf(old, id)].path
        /\ piece[1] \in Range(new) /\ piece[1].id = id
    BY <2>2, <2>3, Placed
  <2> HIDE DEF new, id, after, back, piece
  <2>5. /\ DOMAIN other = DOMAIN nodes
        /\ Range(other[n]) = Range(new)
        /\ \A m \in DOMAIN nodes \ {n} : Range(other[m]) = Range(nodes[m])
        /\ n \in DOMAIN other
    BY <1>4, <2>2, <2>4
  <2>6. Outside(other[n], id) = Outside(old, id)
    BY <2>4, <2>5 DEF Outside
  <2>7. IsForest(other[n])
    BY <1>2, <2>5
  <2>8. id \in Ids(other[n])
    <3>1. piece[1] \in Range(other[n])
      BY <2>4, <2>5
    <3> QED
      BY <2>4, <3>1 DEF Ids, Range
  <2>9. CASE id \in Ids(old)
    <3>1. \A x \in Range(other[n]) : x.id = id => x = piece[1]
      <4>1. \A x \in Range(other[n]) : x.id = id => x = other[n][IndexOf(other[n], id)]
        BY <2>7, <2>8, Found
      <4> QED
        BY <2>4, <2>5, <4>1
    <3>2. \A x \in Range(other[n]) : x.id = id => x.path = old[IndexOf(old, id)].path
      BY <2>4, <2>9, <3>1
    <3>3. back = RestoringOf(nodes, n, id)
      BY <2>2, <2>9
    <3> QED
      BY <1>7, <2>2, <2>5, <2>6, <2>9, <3>2, <3>3 DEF back
  <2>10. CASE id \notin Ids(old)
    <3> DEFINE less == WithoutSubtree(other[n], id)
    <3>1. Outside(old, id) = Range(old)
      <4>1. DOMAIN old = 1 .. Len(old)
        BY <2>3 DEF IsForest
      <4>2. \A x \in Range(old) : ~InSubtree(x, id)
        BY <2>3, <2>10, <4>1, NoSubtree DEF Range
      <4> QED
        BY <4>2 DEF Outside
    <3>2. IsForest(less) /\ Range(less) = Range(old)
      <4>1. Outside(other[n], id) = Range(old)
        BY <2>6, <3>1
      <4> QED
        BY <2>7, <2>8, <4>1, TakenAway
    <3>3. back = RemoveRelation(n, id)
      BY <2>2, <2>10
    <3>4. Accepts(other, back) /\ Perform(other, back) = WithNode(other, n, less)
      BY <1>2, <2>5, <2>8, <3>3, RemovingRelation
    <3> HIDE DEF less
    <3>5. DOMAIN other \cup {n} = DOMAIN nodes
      BY <2>2, <2>5
    <3>6. Indexed(WithNode(other, n, less)) /\ SameContent(WithNode(other, n, less), nodes)
      BY <2>2, <2>5, <3>2, <3>5, NodeBack
    <3> QED
      BY <3>4, <3>6 DEF back
  <2> QED
    BY <2>9, <2>10 DEF back
<1>9. CASE \E id \in RelationIds : operation = RemoveRelation(n, id)
  <2>1. PICK id \in RelationIds : operation = RemoveRelation(n, id)
    BY <1>9
  <2> DEFINE old == nodes[n]
             new == WithoutSubtree(old, id)
  <2>2. /\ n \in DOMAIN nodes /\ id \in Ids(old)
        /\ after = WithNode(nodes, n, new)
        /\ back = RestoringOf(nodes, n, id)
    BY <2>1, RemovingRelation
  <2>3. IsForest(old)
    BY <1>2, <2>2
  <2>4. new \in Seq(Relation) /\ Range(new) = Outside(old, id)
    <3>1. PICK a, b : Exchanged(new, old, id, <<>>, a, b)
      BY <2>2, <2>3, Removed
    <3>2. <<>> \in Seq(Relation) /\ Range(<<>>) = {}
      BY DEF Range
    <3> HIDE DEF new
    <3>3. new \in Seq(Relation) /\ Range(new) = Outside(old, id) \cup Range(<<>>)
      BY <2>3, <3>1, <3>2, Exchange
    <3> QED
      BY <3>2, <3>3
  <2> HIDE DEF new, after, back
  <2>5. /\ DOMAIN other = DOMAIN nodes
        /\ Range(other[n]) = Range(new)
        /\ \A m \in DOMAIN nodes \ {n} : Range(other[m]) = Range(nodes[m])
    BY <1>4, <2>2, <2>4
  <2>6. Outside(other[n], id) = Outside(old, id)
    BY <2>4, <2>5 DEF Outside
  <2>7. \A x \in Range(other[n]) : x.id # id
    BY <2>4, <2>5 DEF Outside, InSubtree
  <2> QED
    BY <1>7, <2>2, <2>5, <2>6, <2>7 DEF back
<1> QED
  BY <1>1, <1>5, <1>6, <1>8, <1>9

\* A relation with what is nested in it.
Family(piece, id) ==
  /\ Len(piece) # 0
  /\ piece[1].id = id
  /\ \A i \in 1 .. Len(piece) : InSubtree(piece[i], id)

\* Where the tree that was put in lies in the list it was put in.
LEMMA ExchangedSubtree ==
  ASSUME NEW old, IsForest(old), NEW id, NEW piece \in Seq(Relation), Family(piece, id),
         NEW new, IsForest(new), NEW a, NEW b, Exchanged(new, old, id, piece, a, b)
  PROVE  IsSubtree(new, a, a - 1 + Len(piece)) /\ new[a].id = id
<1> DEFINE m == Len(piece)
           n == Len(old)
<1>1. /\ old \in Seq(Relation) /\ n \in Nat /\ m \in Nat \ {0}
      /\ a \in 1 .. n + 1 /\ b \in a - 1 .. n
      /\ new = Splice(old, a, b, piece)
      /\ \A i \in 1 .. n : InSubtree(old[i], id) <=> i \in a .. b
      /\ piece[1].id = id /\ \A i \in 1 .. m : InSubtree(piece[i], id)
  BY DEF IsForest, Exchanged, Family
<1>2. Spliced(new, Relation, old, a, b, piece)
  BY <1>1, SpliceElements
<1>3. \A i \in 1 .. Len(new) :
         \/ i \in 1 .. a - 1 /\ new[i] = old[i]
         \/ i - (a - 1) \in 1 .. m /\ new[i] = piece[i - (a - 1)]
         \/ i - m + (b - a + 1) \in b + 1 .. n /\ new[i] = old[i - m + (b - a + 1)]
  BY <1>1, SpliceSides
<1>4. /\ Len(new) = n + m - (b - a + 1)
      /\ \A k \in 1 .. m : new[a - 1 + k] = piece[k]
  BY <1>2 DEF Spliced
<1> HIDE DEF m, n
<1>5. new[a].id = id
  <2>1. 1 \in 1 .. m /\ a - 1 + 1 = a
    BY <1>1
  <2>2. new[a] = piece[1]
    BY <1>4, <2>1
  <2> QED
    BY <1>1, <2>2
<1>6. ASSUME NEW i \in 1 .. Len(new)
      PROVE  InSubtree(new[i], id) <=> i \in a .. a - 1 + m
  <2>1. CASE i \in 1 .. a - 1 /\ new[i] = old[i]
    <3>1. i \in 1 .. n /\ i \notin a .. b /\ i \notin a .. a - 1 + m
      BY <1>1, <2>1
    <3> QED
      BY <1>1, <2>1, <3>1
  <2>2. CASE i - (a - 1) \in 1 .. m /\ new[i] = piece[i - (a - 1)]
    <3>1. i \in a .. a - 1 + m
      BY <1>1, <2>2
    <3>2. InSubtree(piece[i - (a - 1)], id)
      BY <1>1, <2>2
    <3> QED
      BY <2>2, <3>1, <3>2
  <2>3. CASE i - m + (b - a + 1) \in b + 1 .. n /\ new[i] = old[i - m + (b - a + 1)]
    <3> DEFINE k == i - m + (b - a + 1)
    <3>1. k \in 1 .. n /\ k \notin a .. b /\ i \notin a .. a - 1 + m
      BY <1>1, <2>3
    <3>2. new[i] = old[k]
      BY <2>3
    <3> HIDE DEF k
    <3> QED
      BY <1>1, <3>1, <3>2
  <2> QED
    BY <1>3, <2>1, <2>2, <2>3
<1>7. a \in 1 .. Len(new) /\ a - 1 + m \in a .. Len(new)
  BY <1>1, <1>4, SMTT(30)
<1> QED
  BY <1>5, <1>6, <1>7 DEF IsSubtree, m

\* A tree that was put is taken out of the very place it was put in.
LEMMA UnplacedExactly ==
  ASSUME NEW old, IsForest(old), NEW parent, NEW tree, Fits(old, parent, tree),
         IsForest(PlaceRelation(old, parent, tree))
  PROVE  LET new == PlaceRelation(old, parent, tree)
             id == Head(tree).id
             root == old[IndexOf(old, id)]
         IN  IF id \in Ids(old)
             THEN PlaceRelation(new, ParentOf(root), SubtreeOf(old, id)) = old
             ELSE WithoutSubtree(new, id) = old
<1> DEFINE new == PlaceRelation(old, parent, tree)
           id == Head(tree).id
           root == old[IndexOf(old, id)]
           q == ChildPath(old, parent)
           piece == Rooted(tree, q)
           m == Len(piece)
           n == Len(old)
<1>1. q \in Seq(RelationIds) /\ IsTree(tree)
  BY Placing DEF Fits
<1>2. PICK a, b : Exchanged(new, old, id, piece, a, b)
  BY Placing
<1>3. /\ piece \in Seq(Relation) /\ m \in Nat \ {0} /\ piece[1].id = id
      /\ \A i \in 1 .. m : InSubtree(piece[i], id)
  BY <1>1, PlacedTree
<1>4. /\ Outside(new, id) = Outside(old, id)
      /\ id \in Ids(new)
      /\ id \in Ids(old) => piece[1].path = root.path
      /\ piece[1] \in Range(new)
  BY Placed
<1> HIDE DEF new, id, q, piece
<1>5. IsForest(new)
  BY DEF new
<1>6. IsSubtree(new, a, a - 1 + m) /\ new[a].id = id
  <2>1. piece \in Seq(Relation) /\ Family(piece, id)
    BY <1>3 DEF Family
  <2>2. IsSubtree(new, a, a - 1 + Len(piece)) /\ new[a].id = id
    BY <1>2, <1>5, <2>1, ExchangedSubtree
  <2> QED
    BY <2>2
<1>7. /\ old \in Seq(Relation) /\ n \in Nat
      /\ a \in 1 .. n + 1 /\ b \in a - 1 .. n
      /\ new = Splice(old, a, b, piece)
      /\ \A i \in 1 .. n : InSubtree(old[i], id) <=> i \in a .. b
  BY <1>2 DEF IsForest, Exchanged
<1>8. ASSUME NEW cut \in Seq(Relation), Len(cut) = b - a + 1,
             \A i \in 1 .. Len(cut) : cut[i] = old[a - 1 + i]
      PROVE  Splice(new, a, a - 1 + m, cut) = old
  BY <1>3, <1>7, <1>8, SpliceBack
<1>9. CASE id \notin Ids(old)
  <2>1. b - a + 1 = 0
    <3>1. \A i \in 1 .. n : i \notin a .. b
      BY <1>7, <1>9, NoSubtree
    <3> SUFFICES ASSUME b - a + 1 # 0 PROVE FALSE
      OBVIOUS
    <3>2. a \in 1 .. n /\ a \in a .. b
      BY <1>7
    <3> QED
      BY <3>1, <3>2
  <2>2. /\ <<>> \in Seq(Relation) /\ Len(<<>>) = 0
        /\ \A i \in 1 .. Len(<<>>) : <<>>[i] = old[a - 1 + i]
    OBVIOUS
  <2> HIDE DEF m
  <2>3. Splice(new, a, a - 1 + m, <<>>) = old
    BY <1>8, <2>1, <2>2
  <2>4. WithoutSubtree(new, id) = Splice(new, a, a - 1 + m, <<>>)
    <3> HIDE DEF m
    <3>1. WithoutSubtree(new, new[a].id) = Splice(new, a, a - 1 + m, <<>>)
      BY <1>5, <1>6, WithoutSubtreeIs
    <3> QED
      BY <1>6, <3>1
  <2> QED
    BY <1>9, <2>3, <2>4 DEF new, id
<1>10. CASE id \in Ids(old)
  <2> DEFINE r == IndexOf(old, id)
             tree2 == SubtreeOf(old, id)
             piece2 == Rooted(tree2, root.path)
  <2>1. /\ r \in 1 .. n /\ old[r].id = id /\ root \in Relation /\ \E c : IsSubtree(old, r, c)
    BY <1>10, Found
  <2>2. PICK c : IsSubtree(old, r, c)
    BY <2>1
  <2> HIDE DEF r
  <2>3. r = a /\ c = b
    <3>1. /\ c \in r .. n
          /\ \A i \in 1 .. n : InSubtree(old[i], id) <=> i \in r .. c
      BY <2>1, <2>2 DEF IsSubtree
    <3>2. r \in a .. b /\ c \in a .. b
      BY <1>7, <2>1, <3>1
    <3>3. a \in r .. c /\ b \in r .. c
      BY <1>7, <2>1, <3>1, <3>2
    <3> QED
      BY <1>7, <2>1, <3>1, <3>2, <3>3
  <2>4. piece2 = SubSeq(old, a, b) /\ piece2 \in Seq(Relation)
    <3>1. root = old[r]
      BY DEF r
    <3>2. Rooted(SubtreeOf(old, old[r].id), old[r].path) = SubSeq(old, r, c)
      BY <2>2, SubtreeOfIs
    <3>3. Rooted(tree2, root.path) \in Seq(Relation)
      BY <1>10, Restored
    <3> QED
      BY <2>1, <2>3, <3>1, <3>2, <3>3
  <2> HIDE DEF piece2, tree2, root, m
  <2>5. Len(piece2) = b - a + 1 /\ \A i \in 1 .. Len(piece2) : piece2[i] = old[a - 1 + i]
    <3>1. a \in Int /\ b \in Int /\ a <= b /\ \A i \in a .. b : old[i] \in Relation
      BY <1>7, <2>1, <2>2, <2>3 DEF IsSubtree
    <3>2. /\ Len(SubSeq(old, a, b)) = IF a <= b THEN b - a + 1 ELSE 0
          /\ \A i \in 1 .. b - a + 1 : SubSeq(old, a, b)[i] = old[a + i - 1]
      BY <3>1, SubSeqProperties
    <3>3. Len(piece2) = b - a + 1 /\ \A i \in 1 .. b - a + 1 : piece2[i] = old[a + i - 1]
      BY <2>4, <3>1, <3>2
    <3>4. \A i \in 1 .. b - a + 1 : a + i - 1 = a - 1 + i
      BY <3>1
    <3> QED
      BY <3>3, <3>4
  <2>6. Splice(new, a, a - 1 + m, piece2) = old
    BY <1>8, <2>4, <2>5
  <2>7. ReplaceSubtree(new, id, piece2) = Splice(new, a, a - 1 + m, piece2)
    <3>1. ReplaceSubtree(new, new[a].id, piece2) = Splice(new, a, a - 1 + m, piece2)
      BY <1>5, <1>6, <2>4, ReplaceSubtreeIs
    <3> QED
      BY <1>6, <3>1
  <2>8. \A x \in Range(new) : x.id = id => x.path = root.path
    <3>1. \A x \in Range(new) : x.id = id => x = new[IndexOf(new, id)]
      BY <1>4, <1>5, Found
    <3> QED
      BY <1>3, <1>4, <1>10, <3>1
  <2>9. ChildPath(new, ParentOf(root)) = root.path
    BY <1>4, <1>5, <1>10, <2>8, PutBack DEF root
  <2>10. Head(tree2).id = id
    BY <1>10, Restored DEF tree2
  <2>11. PlaceRelation(new, ParentOf(root), tree2) = ReplaceSubtree(new, id, piece2)
    BY <1>4, <2>9, <2>10 DEF PlaceRelation, piece2
  <2> QED
    BY <1>10, <2>6, <2>7, <2>11 DEF new, id, root, tree2
<1> QED
  BY <1>9, <1>10 DEF id

\* Unless it removes a single relation, an operation is undone exactly.
LEMMA StepBackExactly ==
  ASSUME NEW nodes, Indexed(nodes),
         NEW operation, IsOperation(operation), operation.op # "remove-relation",
         Accepts(nodes, operation), Indexed(Perform(nodes, operation))
  PROVE  LET back == InverseOf(nodes, operation)
             after == Perform(nodes, operation)
         IN  Accepts(after, back) /\ Perform(after, back) = nodes
<1> DEFINE after == Perform(nodes, operation)
           back == InverseOf(nodes, operation)
<1>1. PICK n \in NodeIds :
             \/ \E list \in Seq(Relation) : Preorder(list) /\ operation = PutNode(n, list)
             \/ operation = RemoveNode(n)
             \/ \E parent \in RelationIds \cup {NoParent}, tree \in Seq(Relation) :
                  IsTree(tree) /\ operation = PutRelation(n, parent, tree)
             \/ \E id \in RelationIds : operation = RemoveRelation(n, id)
  BY OperationKinds
<1>2. /\ IsNodes(nodes) /\ IsNodes(after) /\ Addressable(nodes)
      /\ \A m \in DOMAIN nodes : IsForest(nodes[m])
      /\ \A m \in DOMAIN after : IsForest(after[m])
  <2> HIDE DEF after
  <2>1. IsNodes(nodes) /\ IsNodes(after) /\ Addressable(nodes)
    BY DEF Indexed, after
  <2>2. /\ \A m \in DOMAIN nodes : IsForest(nodes[m])
        /\ \A m \in DOMAIN after : IsForest(after[m])
    BY <2>1, IndexedForests DEF after
  <2> QED
    BY <2>1, <2>2
<1>3. Accepts(after, back)
  <2>1. SameContent(after, after)
    BY DEF SameContent
  <2> QED
    BY <2>1, StepBack
<1>4. ~ \E id \in RelationIds : operation = RemoveRelation(n, id)
  BY DEF RemoveRelation
\* A node that is put back as it was.
<1>5. ASSUME NEW list \in Seq(Relation), after = WithNode(nodes, n, list), n \in DOMAIN nodes
      PROVE  WithNode(after, n, nodes[n]) = nodes
  <2>1. nodes = [m \in DOMAIN nodes |-> nodes[m]]
    BY <1>2 DEF IsNodes
  <2> HIDE DEF after
  <2> QED
    BY <1>5, <2>1 DEF WithNode
<1>6. ASSUME NEW list \in Seq(Relation), after = WithNode(nodes, n, list), n \notin DOMAIN nodes
      PROVE  WithoutNode(after, n) = nodes
  <2>1. nodes = [m \in DOMAIN nodes |-> nodes[m]]
    BY <1>2 DEF IsNodes
  <2> HIDE DEF after
  <2> QED
    BY <1>6, <2>1 DEF WithNode, WithoutNode
<1>7. ASSUME after = WithoutNode(nodes, n), n \in DOMAIN nodes
      PROVE  WithNode(after, n, nodes[n]) = nodes
  <2>1. nodes = [m \in DOMAIN nodes |-> nodes[m]]
    BY <1>2 DEF IsNodes
  <2> HIDE DEF after
  <2> QED
    BY <1>7, <2>1 DEF WithNode, WithoutNode
<1>8. CASE \E list \in Seq(Relation) : Preorder(list) /\ operation = PutNode(n, list)
  <2>1. PICK list \in Seq(Relation) : Preorder(list) /\ operation = PutNode(n, list)
    BY <1>8
  <2>2. /\ after = WithNode(nodes, n, list)
        /\ back = IF n \in DOMAIN nodes THEN PutNode(n, nodes[n]) ELSE RemoveNode(n)
    BY <2>1, Putting
  <2> HIDE DEF after, back
  <2>3. CASE n \in DOMAIN nodes
    <3>1. Perform(after, back) = WithNode(after, n, nodes[n])
      BY <2>2, <2>3, Putting
    <3> QED
      BY <1>3, <1>5, <2>2, <2>3, <3>1 DEF after, back
  <2>4. CASE n \notin DOMAIN nodes
    <3>1. Perform(after, back) = WithoutNode(after, n)
      BY <2>2, <2>4, Removing
    <3> QED
      BY <1>3, <1>6, <2>2, <2>4, <3>1 DEF after, back
  <2> QED
    BY <2>3, <2>4
<1>9. CASE operation = RemoveNode(n)
  <2>1. /\ n \in DOMAIN nodes
        /\ after = WithoutNode(nodes, n)
        /\ back = PutNode(n, nodes[n])
    BY <1>9, Removing
  <2> HIDE DEF after, back
  <2>2. Perform(after, back) = WithNode(after, n, nodes[n])
    BY <2>1, Putting
  <2> QED
    BY <1>3, <1>7, <2>1, <2>2 DEF after, back
<1>10. CASE \E parent \in RelationIds \cup {NoParent}, tree \in Seq(Relation) :
             IsTree(tree) /\ operation = PutRelation(n, parent, tree)
  <2>1. PICK parent \in RelationIds \cup {NoParent}, tree \in Seq(Relation) :
             IsTree(tree) /\ operation = PutRelation(n, parent, tree)
    BY <1>10
  <2> DEFINE old == nodes[n]
             new == PlaceRelation(old, parent, tree)
             id == Head(tree).id
             root == old[IndexOf(old, id)]
  <2>2. /\ n \in DOMAIN nodes /\ Fits(old, parent, tree)
        /\ after = WithNode(nodes, n, new)
        /\ back = IF id \in Ids(old) THEN RestoringOf(nodes, n, id)
                  ELSE RemoveRelation(n, id)
    BY <2>1, PuttingRelation
  <2>3. IsForest(old) /\ new \in Seq(Relation)
    BY <1>2, <2>2, Placed
  <2>4. IsForest(new) /\ after[n] = new
    <3> HIDE DEF after, new
    <3>1. /\ DOMAIN WithNode(nodes, n, new) = DOMAIN nodes \cup {n}
          /\ WithNode(nodes, n, new)[n] = new
      BY DEF WithNode
    <3>2. n \in DOMAIN after /\ after[n] = new
      BY <2>2, <3>1
    <3> QED
      BY <1>2, <3>2
  <2>5. IF id \in Ids(old) THEN PlaceRelation(new, ParentOf(root), SubtreeOf(old, id)) = old
        ELSE WithoutSubtree(new, id) = old
    BY <2>2, <2>3, <2>4, UnplacedExactly
  <2>6. id \in Ids(old) => ParentOf(root) \in RelationIds \cup {NoParent} /\ IsTree(SubtreeOf(old, id))
    BY <2>3, Found, Restored
  <2> HIDE DEF after, back, new, id, root
  <2>7. Perform(after, back) = WithNode(after, n, old)
    <3>1. CASE id \in Ids(old)
      <4>1. back = PutRelation(n, ParentOf(root), SubtreeOf(old, id))
        BY <2>2, <3>1 DEF RestoringOf, root
      <4>2. Perform(after, back) =
              WithNode(after, n, PlaceRelation(after[n], ParentOf(root), SubtreeOf(old, id)))
        BY <2>6, <3>1, <4>1, PuttingRelation
      <4> QED
        BY <2>4, <2>5, <3>1, <4>2
    <3>2. CASE id \notin Ids(old)
      <4>1. Perform(after, back) = WithNode(after, n, WithoutSubtree(after[n], id))
        BY <2>2, <3>2, RemovingRelation
      <4> QED
        BY <2>4, <2>5, <3>2, <4>1
    <3> QED
      BY <3>1, <3>2
  <2>8. WithNode(after, n, old) = nodes
    BY <1>5, <2>2, <2>3
  <2> QED
    BY <1>3, <2>7, <2>8 DEF after, back
<1> QED
  BY <1>1, <1>4, <1>8, <1>9, <1>10
-----------------------------------------------------------------------------
(***************************************************************************)
(* The operations of a patch, one after the other.                         *)
(***************************************************************************)

\* The stages that applying the first m operations goes through.
Running(stage, nodes, ops, m) ==
  /\ DOMAIN stage = 0 .. m
  /\ stage[0] = [accepted |-> TRUE, nodes |-> nodes, inverse |-> <<>>]
  /\ \A k \in 1 .. m : stage[k] = ApplyOperation(stage[k - 1], ops[k])

\* The stages of a patch exist and follow from one another.
LEMMA StagesRun ==
  ASSUME NEW nodes, NEW ops, Len(ops) \in Nat
  PROVE  Running(Stages(nodes, ops), nodes, ops, Len(ops))
<1> DEFINE n == Len(ops)
           start == [accepted |-> TRUE, nodes |-> nodes, inverse |-> <<>>]
           Def(f) == f = [i \in 0 .. n |->
                            IF i = 0 THEN start ELSE ApplyOperation(f[i - 1], ops[i])]
           T == {m \in 0 .. n : \E f : Running(f, nodes, ops, m)}
           stage == CHOOSE f : Def(f)
<1>0. n \in Nat
  OBVIOUS
<1>1. 0 \in T
  <2> DEFINE f == [k \in 0 .. 0 |-> start]
  <2>1. Running(f, nodes, ops, 0)
    BY DEF Running
  <2> HIDE DEF f
  <2> QED
    BY <1>0, <2>1
<1>2. ASSUME NEW m \in 0 + 1 .. n, m - 1 \in T PROVE m \in T
  <2>1. PICK f : Running(f, nodes, ops, m - 1)
    BY <1>2
  <2> DEFINE g == [k \in 0 .. m |->
                     IF k = m THEN ApplyOperation(f[m - 1], ops[m]) ELSE f[k]]
  <2>2. DOMAIN g = 0 .. m /\ g[0] = start
    <3>1. 0 \in 0 .. m /\ 0 # m
      OBVIOUS
    <3>2. f[0] = start
      BY <2>1 DEF Running
    <3> HIDE DEF start
    <3> QED
      BY <3>1, <3>2
  <2>3. ASSUME NEW k \in 1 .. m
        PROVE  g[k] = ApplyOperation(g[k - 1], ops[k])
    <3>1. k - 1 \in 0 .. m /\ k - 1 # m /\ k \in 0 .. m
      OBVIOUS
    <3>2. g[k - 1] = f[k - 1]
      BY <3>1
    <3>3. CASE k = m
      BY <3>1, <3>2, <3>3
    <3>4. CASE k # m
      <4>1. k \in 1 .. m - 1 /\ g[k] = f[k]
        BY <3>4
      <4> HIDE DEF g
      <4> QED
        BY <2>1, <3>2, <4>1 DEF Running
    <3> QED
      BY <3>3, <3>4
  <2> HIDE DEF g
  <2>4. Running(g, nodes, ops, m)
    BY <2>2, <2>3 DEF Running
  <2> QED
    BY <1>2, <2>4
<1>3. PICK f : Running(f, nodes, ops, n)
  <2> HIDE DEF T
  <2>1. \A m \in 0 .. n : m \in T
    BY <1>0, <1>1, <1>2, Along
  <2>2. n \in T
    BY <1>0, <2>1
  <2> QED
    BY <2>2 DEF T
<1>4. \E g : Def(g)
  <2> DEFINE g == [k \in 0 .. n |-> f[k]]
  <2>1. \A k \in 0 .. n : g[k] = IF k = 0 THEN start
                                 ELSE ApplyOperation(g[k - 1], ops[k])
    <3> TAKE k \in 0 .. n
    <3>1. k = 0 \/ (k \in 1 .. n /\ k - 1 \in 0 .. n /\ k # 0)
      BY <1>0
    <3> QED
      BY <1>3, <3>1 DEF Running
  <2>2. DOMAIN g = 0 .. n /\ g = [k \in 0 .. n |-> g[k]]
    OBVIOUS
  <2> HIDE DEF g
  <2>3. g = [k \in 0 .. n |-> IF k = 0 THEN start ELSE ApplyOperation(g[k - 1], ops[k])]
    BY <2>1, <2>2
  <2> QED
    BY <2>3
<1>5. Def(stage)
  <2> HIDE DEF Def
  <2> QED
    BY <1>4
<1>6. Stages(nodes, ops) = stage
  BY DEF Stages
<1> HIDE DEF stage
<1>7. Running(stage, nodes, ops, n)
  <2>1. DOMAIN stage = 0 .. n
    BY <1>5
  <2>2. \A k \in 0 .. n : stage[k] = IF k = 0 THEN start
                                     ELSE ApplyOperation(stage[k - 1], ops[k])
    BY <1>5
  <2>3. 0 \in 0 .. n /\ \A k \in 1 .. n : k \in 0 .. n /\ k # 0
    BY <1>0
  <2> HIDE DEF Def
  <2> QED
    BY <2>1, <2>2, <2>3 DEF Running
<1> QED
  BY <1>6, <1>7

IsResult(result) ==
  result = [accepted |-> result.accepted, nodes |-> result.nodes, inverse |-> result.inverse]

\* One operation of a patch: done, or the patch is refused for good.
LEMMA OneOperation ==
  ASSUME NEW result, IsResult(result), NEW operation
  PROVE  LET next == ApplyOperation(result, operation) IN
         /\ IsResult(next)
         /\ next.accepted <=> result.accepted /\ Accepts(result.nodes, operation)
         /\ next.accepted =>
              /\ next.nodes = Perform(result.nodes, operation)
              /\ next.inverse = <<InverseOf(result.nodes, operation)>> \o result.inverse
<1>1. CASE result.accepted /\ Accepts(result.nodes, operation)
  BY <1>1 DEF ApplyOperation, IsResult
<1>2. CASE ~(result.accepted /\ Accepts(result.nodes, operation))
  <2>1. ApplyOperation(result, operation) = [result EXCEPT !.accepted = FALSE]
    BY <1>2 DEF ApplyOperation
  <2> QED
    BY <1>2, <2>1 DEF IsResult
<1> QED
  BY <1>1, <1>2

\* The operations of a patch, as far as the kernel requires.
IsOperations(ops) ==
  /\ ops \in Seq(Range(ops))
  /\ \A i \in 1 .. Len(ops) : IsOperation(ops[i])

LEMMA InFront ==
  ASSUME NEW A, NEW list \in Seq(A), NEW e
  PROVE  /\ Len(<<e>> \o list) = Len(list) + 1
         /\ (<<e>> \o list)[1] = e
         /\ \A i \in 1 .. Len(list) : (<<e>> \o list)[i + 1] = list[i]
         /\ <<e>> \o list \in Seq({e} \cup A)
<1>1. list \in Seq({e} \cup A)
  OBVIOUS
<1>2. <<e>> \in Seq({e} \cup A)
  OBVIOUS
<1> QED
  BY <1>1, <1>2

LEMMA OperationInFront ==
  ASSUME NEW ops, IsOperations(ops), NEW operation, IsOperation(operation)
  PROVE  IsOperations(<<operation>> \o ops)
<1> DEFINE all == <<operation>> \o ops
           n == Len(ops)
<1>0. ops \in Seq(Range(ops)) /\ \A i \in 1 .. n : IsOperation(ops[i])
  BY DEF IsOperations
<1>1. /\ n \in Nat /\ Len(all) = n + 1 /\ all[1] = operation
      /\ \A i \in 1 .. n : all[i + 1] = ops[i]
      /\ all \in Seq({operation} \cup Range(ops))
  BY <1>0, InFront
<1> HIDE DEF all
<1>2. ASSUME NEW i \in 1 .. Len(all) PROVE IsOperation(all[i])
  <2>1. i = 1 \/ (i - 1 \in 1 .. n /\ (i - 1) + 1 = i)
    BY <1>1
  <2> QED
    BY <1>0, <1>1, <2>1
<1>3. all \in Seq(Range(all))
  <2>1. DOMAIN all = 1 .. Len(all) /\ \A i \in 1 .. Len(all) : all[i] \in Range(all)
    BY <1>1 DEF Range
  <2>2. all = [i \in 1 .. Len(all) |-> all[i]] /\ Len(all) \in Nat
    BY <1>1
  <2> QED
    BY <2>1, <2>2
<1> QED
  BY <1>2, <1>3 DEF IsOperations, all

\* After an operation, the rest of a patch is applied as a patch of its own.
LEMMA StagesShift ==
  ASSUME NEW nodes, NEW ops, IsOperations(ops),
         NEW operation, Accepts(nodes, operation)
  PROVE  LET later == Stages(Perform(nodes, operation), ops)
             all == Stages(nodes, <<operation>> \o ops)
         IN  \A i \in 0 .. Len(ops) :
               all[i + 1].accepted = later[i].accepted /\ all[i + 1].nodes = later[i].nodes
<1> DEFINE whole == <<operation>> \o ops
           n == Len(ops)
           later == Stages(Perform(nodes, operation), ops)
           all == Stages(nodes, whole)
           T == {i \in 0 .. n : /\ IsResult(all[i + 1]) /\ IsResult(later[i])
                                /\ all[i + 1].accepted = later[i].accepted
                                /\ all[i + 1].nodes = later[i].nodes
                                /\ later[i].accepted \in BOOLEAN}
<1>1. /\ n \in Nat /\ Len(whole) = n + 1 /\ whole[1] = operation
      /\ \A i \in 1 .. n : whole[i + 1] = ops[i]
  BY InFront DEF IsOperations
<1> HIDE DEF whole
<1>2. Len(whole) \in Nat /\ Running(all, nodes, whole, Len(whole))
  BY <1>1, StagesRun
<1>3. Running(later, Perform(nodes, operation), ops, n)
  BY <1>1, StagesRun
<1> HIDE DEF later, all
<1>4. /\ all[0] = [accepted |-> TRUE, nodes |-> nodes, inverse |-> <<>>]
      /\ \A k \in 1 .. n + 1 : all[k] = ApplyOperation(all[k - 1], whole[k])
  BY <1>1, <1>2 DEF Running
<1>5. /\ later[0] = [accepted |-> TRUE, nodes |-> Perform(nodes, operation), inverse |-> <<>>]
      /\ \A k \in 1 .. n : later[k] = ApplyOperation(later[k - 1], ops[k])
  BY <1>3 DEF Running
<1>6. 0 \in T
  <2>1. 1 \in 1 .. n + 1 /\ 1 - 1 = 0 /\ 0 + 1 = 1
    BY <1>1
  <2>2. all[1] = ApplyOperation(all[0], operation)
    BY <1>1, <1>4, <2>1
  <2>3. all[1] = [accepted |-> TRUE, nodes |-> Perform(nodes, operation),
                  inverse |-> <<InverseOf(nodes, operation)>> \o <<>>]
    BY <1>4, <2>2 DEF ApplyOperation
  <2>4. IsResult(all[1]) /\ all[1].accepted = TRUE /\ all[1].nodes = Perform(nodes, operation)
    BY <2>3 DEF IsResult
  <2>5. IsResult(later[0]) /\ later[0].accepted = TRUE /\ later[0].nodes = Perform(nodes, operation)
    BY <1>5 DEF IsResult
  <2>6. 0 \in 0 .. n
    BY <1>1
  <2>7. /\ IsResult(all[0 + 1]) /\ IsResult(later[0])
        /\ all[0 + 1].accepted = later[0].accepted
        /\ all[0 + 1].nodes = later[0].nodes
        /\ later[0].accepted \in BOOLEAN
    <3>1. all[0 + 1] = all[1]
      OBVIOUS
    <3> QED
      BY <2>4, <2>5, <3>1
  <2> QED
    BY <2>6, <2>7
<1>7. ASSUME NEW i \in 0 + 1 .. n, i - 1 \in T PROVE i \in T
  <2>1. i + 1 \in 1 .. n + 1 /\ i \in 1 .. n /\ (i + 1) - 1 = i /\ (i - 1) + 1 = i /\ i \in 0 .. n
    BY <1>1
  <2>2. /\ all[i + 1] = ApplyOperation(all[i], ops[i])
        /\ later[i] = ApplyOperation(later[i - 1], ops[i])
    BY <1>1, <1>4, <1>5, <2>1
  <2>3. /\ IsResult(all[i]) /\ IsResult(later[i - 1])
        /\ all[i].accepted = later[i - 1].accepted
        /\ all[i].nodes = later[i - 1].nodes
        /\ later[i - 1].accepted \in BOOLEAN
    BY <1>7, <2>1
  <2>4. CASE later[i - 1].accepted /\ Accepts(later[i - 1].nodes, ops[i])
    <3> DEFINE after == Perform(later[i - 1].nodes, ops[i])
               back == InverseOf(later[i - 1].nodes, ops[i])
    <3>1. /\ all[i + 1] = [accepted |-> TRUE, nodes |-> after,
                           inverse |-> <<back>> \o all[i].inverse]
          /\ later[i] = [accepted |-> TRUE, nodes |-> after,
                         inverse |-> <<back>> \o later[i - 1].inverse]
      BY <2>2, <2>3, <2>4 DEF ApplyOperation
    <3> HIDE DEF after, back
    <3>2. IsResult(all[i + 1]) /\ all[i + 1].accepted = TRUE /\ all[i + 1].nodes = after
      BY <3>1 DEF IsResult
    <3>3. IsResult(later[i]) /\ later[i].accepted = TRUE /\ later[i].nodes = after
      BY <3>1 DEF IsResult
    <3> QED
      BY <2>1, <3>2, <3>3
  <2>5. CASE ~(later[i - 1].accepted /\ Accepts(later[i - 1].nodes, ops[i]))
    <3>1. /\ all[i + 1] = [all[i] EXCEPT !.accepted = FALSE]
          /\ later[i] = [later[i - 1] EXCEPT !.accepted = FALSE]
      BY <2>2, <2>3, <2>5 DEF ApplyOperation
    <3>2. /\ IsResult(all[i + 1]) /\ all[i + 1].accepted = FALSE
          /\ all[i + 1].nodes = all[i].nodes
      BY <2>3, <3>1 DEF IsResult
    <3>3. /\ IsResult(later[i]) /\ later[i].accepted = FALSE
          /\ later[i].nodes = later[i - 1].nodes
      BY <2>3, <3>1 DEF IsResult
    <3> QED
      BY <2>1, <2>3, <3>2, <3>3
  <2> QED
    BY <2>4, <2>5
<1> HIDE DEF T
<1>8. \A i \in 0 .. n : i \in T
  BY <1>1, <1>6, <1>7, Along
<1> QED
  BY <1>8 DEF T, all, later, whole

\* Operations that lead back to the target's content, and through graphs that
\* can be indexed, from whatever graph has the content of nodes.
LeadsBack(nodes, ops, target) ==
  \A other : Indexed(other) /\ SameContent(other, nodes) =>
    /\ \A i \in 0 .. Len(ops) :
         /\ Stages(other, ops)[i].accepted
         /\ Indexed(Stages(other, ops)[i].nodes)
    /\ SameContent(Stages(other, ops)[Len(ops)].nodes, target)

LEMMA FirstStage ==
  ASSUME NEW nodes, NEW ops, Len(ops) \in Nat
  PROVE  Stages(nodes, ops)[0] = [accepted |-> TRUE, nodes |-> nodes, inverse |-> <<>>]
BY StagesRun DEF Running

\* No operation leads from a graph to itself.
LEMMA NothingLeadsBack ==
  ASSUME NEW nodes
  PROVE  LeadsBack(nodes, <<>>, nodes)
<1>1. Len(<<>>) = 0
  OBVIOUS
<1>2. \A other : Stages(other, <<>>)[0] = [accepted |-> TRUE, nodes |-> other, inverse |-> <<>>]
  BY <1>1, FirstStage
<1>3. ASSUME NEW other, Indexed(other), SameContent(other, nodes)
      PROVE  /\ \A i \in 0 .. Len(<<>>) :
                  /\ Stages(other, <<>>)[i].accepted
                  /\ Indexed(Stages(other, <<>>)[i].nodes)
             /\ SameContent(Stages(other, <<>>)[Len(<<>>)].nodes, nodes)
  <2> DEFINE first == Stages(other, <<>>)[0]
  <2>1. first.accepted /\ first.nodes = other
    <3>1. first = [accepted |-> TRUE, nodes |-> other, inverse |-> <<>>]
      BY <1>2
    <3> HIDE DEF first
    <3> QED
      BY <3>1
  <2>2. \A i \in 0 .. Len(<<>>) : i = 0
    BY <1>1
  <2> QED
    BY <1>1, <1>3, <2>1, <2>2
<1> QED
  BY <1>3 DEF LeadsBack

\* With the inverse of one more operation in front, the operations still lead back.
LEMMA OneMoreLeadsBack ==
  ASSUME NEW nodes, Indexed(nodes), NEW ops, IsOperations(ops), NEW target,
         LeadsBack(nodes, ops, target),
         NEW operation, IsOperation(operation), Accepts(nodes, operation)
  PROVE  LeadsBack(Perform(nodes, operation),
                   <<InverseOf(nodes, operation)>> \o ops, target)
<1> DEFINE back == InverseOf(nodes, operation)
           all == <<back>> \o ops
           n == Len(ops)
<1> SUFFICES ASSUME NEW other, Indexed(other), SameContent(other, Perform(nodes, operation))
             PROVE  /\ \A i \in 0 .. Len(all) :
                         /\ Stages(other, all)[i].accepted
                         /\ Indexed(Stages(other, all)[i].nodes)
                    /\ SameContent(Stages(other, all)[Len(all)].nodes, target)
  BY DEF LeadsBack
<1> DEFINE after == Perform(other, back)
           later == Stages(after, ops)
           stage == Stages(other, all)
<1>1. Accepts(other, back) /\ Indexed(after) /\ SameContent(after, nodes)
  BY StepBack
<1>2. /\ \A i \in 0 .. n : later[i].accepted /\ Indexed(later[i].nodes)
      /\ SameContent(later[n].nodes, target)
  BY <1>1 DEF LeadsBack
<1>3. n \in Nat /\ Len(all) = n + 1
  BY InFront DEF IsOperations
<1>4. \A i \in 0 .. n :
        stage[i + 1].accepted = later[i].accepted /\ stage[i + 1].nodes = later[i].nodes
  BY <1>1, StagesShift
<1>5. stage[0] = [accepted |-> TRUE, nodes |-> other, inverse |-> <<>>]
  <2> HIDE DEF all
  <2>1. Len(all) \in Nat
    BY <1>3
  <2> QED
    BY <2>1, FirstStage
<1> HIDE DEF all, later, stage
<1>6. ASSUME NEW i \in 0 .. Len(all) PROVE stage[i].accepted /\ Indexed(stage[i].nodes)
  <2>1. i = 0 \/ (i - 1 \in 0 .. n /\ (i - 1) + 1 = i)
    BY <1>3
  <2>2. CASE i = 0
    BY <1>5, <2>2
  <2>3. CASE i - 1 \in 0 .. n /\ (i - 1) + 1 = i
    <3>1. later[i - 1].accepted /\ Indexed(later[i - 1].nodes)
      BY <1>2, <2>3
    <3>2. stage[(i - 1) + 1].accepted = later[i - 1].accepted
          /\ stage[(i - 1) + 1].nodes = later[i - 1].nodes
      BY <1>4, <2>3
    <3> QED
      BY <2>3, <3>1, <3>2
  <2> QED
    BY <2>1, <2>2, <2>3
<1>7. SameContent(stage[Len(all)].nodes, target)
  <2>1. n \in 0 .. n
    BY <1>3
  <2> QED
    BY <1>2, <1>3, <1>4, <2>1
<1> QED
  BY <1>6, <1>7 DEF stage

\* What leads back is accepted and ends with the content it leads to.
LEMMA LedBack ==
  ASSUME NEW nodes, Indexed(nodes), NEW ops, IsOperations(ops), NEW target,
         LeadsBack(nodes, ops, target)
  PROVE  /\ ApplyOperations(nodes, ops).accepted
         /\ Indexed(ApplyOperations(nodes, ops).nodes)
         /\ SameContent(ApplyOperations(nodes, ops).nodes, target)
<1>1. Len(ops) \in Nat
  BY DEF IsOperations
<1>2. Len(ops) \in 0 .. Len(ops)
  BY <1>1
<1>3. SameContent(nodes, nodes)
  BY DEF SameContent
<1> QED
  BY <1>2, <1>3 DEF LeadsBack, ApplyOperations

\* The same, sibling order included.
LeadsBackExactly(nodes, ops, target) ==
  /\ ApplyOperations(nodes, ops).accepted
  /\ ApplyOperations(nodes, ops).nodes = target

\* The same, sibling order included, unless a relation was removed.
LEMMA OneMoreLeadsBackExactly ==
  ASSUME NEW nodes, Indexed(nodes), NEW ops, IsOperations(ops), NEW target,
         LeadsBackExactly(nodes, ops, target),
         NEW operation, IsOperation(operation), operation.op # "remove-relation",
         Accepts(nodes, operation), Indexed(Perform(nodes, operation))
  PROVE  LeadsBackExactly(Perform(nodes, operation),
                          <<InverseOf(nodes, operation)>> \o ops, target)
<1> DEFINE back == InverseOf(nodes, operation)
           after == Perform(nodes, operation)
           all == <<back>> \o ops
           n == Len(ops)
<1>1. Accepts(after, back) /\ Perform(after, back) = nodes
  BY StepBackExactly
<1>2. n \in Nat /\ Len(all) = n + 1 /\ n \in 0 .. n
  BY InFront DEF IsOperations
<1> HIDE DEF back, after
<1>3. /\ Stages(after, all)[n + 1].accepted = Stages(Perform(after, back), ops)[n].accepted
      /\ Stages(after, all)[n + 1].nodes = Stages(Perform(after, back), ops)[n].nodes
  BY <1>1, <1>2, StagesShift
<1> HIDE DEF all
<1> QED
  BY <1>1, <1>2, <1>3 DEF LeadsBackExactly, ApplyOperations, all, back, after

\* What a patch makes of a graph, and where its inverse leads.
LEMMA PatchForward ==
  ASSUME NEW nodes, IsNodes(nodes), InPreorder(nodes),
         NEW ops, IsOperations(ops),
         ApplyOperations(nodes, ops).accepted
  PROVE  LET result == ApplyOperations(nodes, ops) IN
         /\ IsNodes(result.nodes)
         /\ InPreorder(result.nodes)
         /\ IsOperations(result.inverse)
         /\ StaysIndexed(nodes, ops) => LeadsBack(result.nodes, result.inverse, nodes)
<1> DEFINE n == Len(ops)
           stage == Stages(nodes, ops)
           Sound(r) == /\ IsNodes(r.nodes)
                       /\ InPreorder(r.nodes)
                       /\ IsOperations(r.inverse)
                       /\ StaysIndexed(nodes, ops) => LeadsBack(r.nodes, r.inverse, nodes)
           T == {i \in 0 .. n : IsResult(stage[i]) /\ (stage[i].accepted => Sound(stage[i]))}
<1>1. n \in Nat /\ \A i \in 1 .. n : IsOperation(ops[i])
  BY DEF IsOperations
<1>2. Running(stage, nodes, ops, n)
  BY <1>1, StagesRun
<1>3. ASSUME StaysIndexed(nodes, ops) PROVE \A i \in 0 .. n : Addressable(stage[i].nodes)
  BY <1>3 DEF StaysIndexed
<1>4. ApplyOperations(nodes, ops) = stage[n]
  BY DEF ApplyOperations
<1> HIDE DEF stage
<1>5. /\ stage[0] = [accepted |-> TRUE, nodes |-> nodes, inverse |-> <<>>]
      /\ \A k \in 1 .. n : stage[k] = ApplyOperation(stage[k - 1], ops[k])
  BY <1>2 DEF Running
<1>6. 0 \in T
  <2>1. IsOperations(<<>>)
    BY DEF IsOperations, Range
  <2>2. LeadsBack(nodes, <<>>, nodes)
    BY NothingLeadsBack
  <2>3. IsResult(stage[0]) /\ Sound(stage[0])
    BY <1>5, <2>1, <2>2 DEF IsResult
  <2> HIDE DEF Sound
  <2> QED
    BY <1>1, <2>3
<1>7. ASSUME NEW i \in 0 + 1 .. n, i - 1 \in T PROVE i \in T
  <2> DEFINE r == stage[i - 1]
             next == stage[i]
             op == ops[i]
  <2>1. i \in 1 .. n /\ i - 1 \in 0 .. n /\ i \in 0 .. n
    BY <1>1
  <2>2. next = ApplyOperation(r, op) /\ IsOperation(op)
    BY <1>1, <1>5, <2>1
  <2>3. IsResult(r) /\ (r.accepted => Sound(r))
    BY <1>7
  <2>4. StaysIndexed(nodes, ops) => Addressable(r.nodes)
    BY <1>3, <2>1
  <2> HIDE DEF r, next, op
  <2>5. /\ IsResult(next)
        /\ next.accepted <=> r.accepted /\ Accepts(r.nodes, op)
        /\ next.accepted =>
             /\ next.nodes = Perform(r.nodes, op)
             /\ next.inverse = <<InverseOf(r.nodes, op)>> \o r.inverse
    BY <2>2, <2>3, OneOperation
  <2>6. ASSUME next.accepted PROVE Sound(next)
    <3>1. /\ IsNodes(r.nodes) /\ InPreorder(r.nodes) /\ IsOperations(r.inverse)
          /\ StaysIndexed(nodes, ops) => LeadsBack(r.nodes, r.inverse, nodes)
          /\ Accepts(r.nodes, op)
          /\ next.nodes = Perform(r.nodes, op)
          /\ next.inverse = <<InverseOf(r.nodes, op)>> \o r.inverse
      BY <2>3, <2>5, <2>6
    <3>2. /\ IsNodes(next.nodes) /\ InPreorder(next.nodes)
          /\ IsOperation(InverseOf(r.nodes, op))
      BY <2>2, <3>1, StepForward
    <3>3. IsOperations(next.inverse)
      BY <3>1, <3>2, OperationInFront
    <3>4. ASSUME StaysIndexed(nodes, ops)
          PROVE  LeadsBack(next.nodes, next.inverse, nodes)
      <4>1. Indexed(r.nodes)
        BY <2>4, <3>1, <3>4 DEF Indexed
      <4> QED
        BY <2>2, <3>1, <3>4, <4>1, OneMoreLeadsBack
    <3> QED
      BY <3>2, <3>3, <3>4
  <2> HIDE DEF Sound
  <2> QED
    BY <2>1, <2>5, <2>6 DEF next
<1> HIDE DEF T
<1>8. \A i \in 0 .. n : i \in T
  BY <1>1, <1>6, <1>7, Along
<1>9. n \in T
  BY <1>1, <1>8
<1> HIDE DEF Sound
<1>10. Sound(stage[n])
  BY <1>4, <1>9 DEF T
<1> QED
  BY <1>4, <1>10 DEF Sound
-----------------------------------------------------------------------------
(***************************************************************************)
(* applyRelationPatch, one operation at a time.                            *)
(***************************************************************************)

LoopTypeOK ==
  /\ source = [revision |-> source.revision, nodes |-> source.nodes]
  /\ source.revision \in Nat
  /\ ValidNodes(source.nodes)
  /\ InPreorder(source.nodes)
  /\ IsNodes(work)
  /\ InPreorder(work)
  /\ operations \in Seq(Operations)
  /\ IsOperations(inverse)
  /\ phase \in {"idle", "applying"}
  /\ tangled \in BOOLEAN

\* What InverseLeadsBack and OrderSurvivesPuts say, of every graph with the
\* content of the clone.
AlwaysLeadsBack ==
  phase = "applying" /\ ~tangled =>
    /\ Addressable(work)
    /\ LeadsBack(work, inverse, source.nodes)
    /\ NoRelationRemoved => LeadsBackExactly(work, inverse, source.nodes)

LoopInv == LoopTypeOK /\ AlwaysLeadsBack

\* Every operation of a run is well formed.
LEMMA OperationsAreOperations ==
  ASSUME NEW operation \in Operations
  PROVE  IsOperation(operation)
<1>1. PICK n \in NodeIds :
        \/ \E list \in Bodies : operation = PutNode(n, list)
        \/ operation = RemoveNode(n)
        \/ \E parent \in RelationIds \cup {NoParent}, tree \in Trees :
             operation = PutRelation(n, parent, tree)
        \/ \E id \in RelationIds : operation = RemoveRelation(n, id)
  BY DEF Operations
<1> QED
  BY <1>1, OperationKinds, RelationPatchAssumption DEF IsTree

LEMMA NothingLeadsBackExactly ==
  ASSUME NEW nodes
  PROVE  LeadsBackExactly(nodes, <<>>, nodes)
<1>1. Len(<<>>) = 0
  OBVIOUS
<1>2. ApplyOperations(nodes, <<>>) = [accepted |-> TRUE, nodes |-> nodes, inverse |-> <<>>]
  BY <1>1, FirstStage DEF ApplyOperations
<1> QED
  BY <1>2 DEF LeadsBackExactly

LEMMA LoopInvInitially == InitLoop => LoopInv
<1> SUFFICES ASSUME InitLoop PROVE LoopInv
  OBVIOUS
<1>1. /\ source.nodes \in InitialNodes
      /\ source = [revision |-> source.revision, nodes |-> source.nodes]
      /\ source.revision = 0
      /\ work = source.nodes /\ operations = <<>> /\ inverse = <<>>
      /\ phase = "idle" /\ tangled = FALSE
  BY DEF InitLoop
<1>2. ValidNodes(source.nodes) /\ InPreorder(source.nodes) /\ IsNodes(source.nodes)
  BY <1>1, RelationPatchAssumption DEF ValidNodes
<1>3. IsOperations(<<>>) /\ <<>> \in Seq(Operations)
  BY DEF IsOperations, Range
<1>4. /\ IsNodes(work) /\ InPreorder(work)
      /\ operations \in Seq(Operations) /\ IsOperations(inverse)
      /\ source.revision \in Nat
      /\ phase \in {"idle", "applying"}
  BY <1>1, <1>2, <1>3
<1>5. tangled \in BOOLEAN
  BY <1>1
<1>6. LoopTypeOK
  BY <1>1, <1>2, <1>4, <1>5 DEF LoopTypeOK
<1>8. phase # "applying"
  BY <1>1
<1> QED
  BY <1>6, <1>8 DEF LoopInv, AlwaysLeadsBack

LEMMA LoopInvStep == LoopInv /\ [NextLoop]_loopVars => LoopInv'
<1> SUFFICES ASSUME LoopInv, [NextLoop]_loopVars PROVE LoopInv'
  OBVIOUS
<1>1. LoopTypeOK /\ AlwaysLeadsBack
  BY DEF LoopInv
<1>2. ASSUME NEW base, Begin(base) PROVE LoopInv'
  <2>1. /\ source' = source /\ work' = source.nodes /\ operations' = <<>> /\ inverse' = <<>>
        /\ phase' = "applying" /\ tangled' = FALSE
    BY <1>2 DEF Begin
  <2>2. IsOperations(<<>>) /\ <<>> \in Seq(Operations)
    BY DEF IsOperations, Range
  <2>3. ValidNodes(source.nodes) /\ InPreorder(source.nodes)
    BY <1>1 DEF LoopTypeOK
  <2>4. IsNodes(source.nodes) /\ Addressable(source.nodes)
    BY <2>3 DEF ValidNodes
  <2>5. LoopTypeOK'
    BY <1>1, <2>1, <2>2, <2>3, <2>4 DEF LoopTypeOK
  <2>6. /\ LeadsBack(source.nodes, <<>>, source.nodes)
        /\ LeadsBackExactly(source.nodes, <<>>, source.nodes)
    BY NothingLeadsBack, NothingLeadsBackExactly
  <2>7. AlwaysLeadsBack'
    BY <2>1, <2>4, <2>6 DEF AlwaysLeadsBack
  <2> QED
    BY <2>5, <2>7 DEF LoopInv
<1>3. ASSUME NEW operation \in Operations, Operate(operation) PROVE LoopInv'
  <2> DEFINE back == InverseOf(work, operation)
  <2>1. /\ phase = "applying" /\ phase' = phase /\ source' = source
        /\ Accepts(work, operation)
        /\ work' = Perform(work, operation)
        /\ operations' = Append(operations, operation)
        /\ inverse' = <<back>> \o inverse
        /\ tangled' = (tangled \/ ~Addressable(work'))
    BY <1>3 DEF Operate
  <2>2. IsOperation(operation)
    BY OperationsAreOperations
  <2>3. IsNodes(work) /\ InPreorder(work) /\ IsOperations(inverse) /\ operations \in Seq(Operations)
    BY <1>1 DEF LoopTypeOK
  <2>4. IsNodes(work') /\ InPreorder(work') /\ IsOperation(back)
    BY <2>1, <2>2, <2>3, StepForward
  <2> HIDE DEF back
  <2>5. IsOperations(inverse')
    BY <2>1, <2>3, <2>4, OperationInFront
  <2>6. operations' \in Seq(Operations)
    BY <2>1, <2>3
  <2>7. LoopTypeOK'
    BY <1>1, <2>1, <2>4, <2>5, <2>6 DEF LoopTypeOK
  <2>8. ASSUME ~tangled'
        PROVE  /\ Addressable(work')
               /\ LeadsBack(work', inverse', source.nodes)
               /\ NoRelationRemoved' => LeadsBackExactly(work', inverse', source.nodes)
    <3>1. ~tangled /\ Addressable(work')
      BY <2>1, <2>8
    <3>2. /\ Addressable(work)
          /\ LeadsBack(work, inverse, source.nodes)
          /\ NoRelationRemoved => LeadsBackExactly(work, inverse, source.nodes)
      BY <1>1, <2>1, <3>1 DEF AlwaysLeadsBack
    <3>3. Indexed(work) /\ Indexed(Perform(work, operation))
      BY <2>1, <2>3, <2>4, <3>1, <3>2 DEF Indexed
    <3>4. LeadsBack(work', inverse', source.nodes)
      BY <2>1, <2>2, <2>3, <3>2, <3>3, OneMoreLeadsBack DEF back
    <3>5. ASSUME NoRelationRemoved' PROVE LeadsBackExactly(work', inverse', source.nodes)
      <4>1. /\ DOMAIN operations' = 1 .. Len(operations) + 1
            /\ DOMAIN operations = 1 .. Len(operations) /\ Len(operations) \in Nat
            /\ operations'[Len(operations) + 1] = operation
            /\ \A i \in DOMAIN operations : operations'[i] = operations[i]
        BY <2>1, <2>3
      <4>2. \A i \in DOMAIN operations' : operations'[i].op # "remove-relation"
        BY <3>5 DEF NoRelationRemoved
      <4>3. operation.op # "remove-relation"
        BY <4>1, <4>2
      <4>4. NoRelationRemoved
        BY <4>1, <4>2 DEF NoRelationRemoved
      <4>5. LeadsBackExactly(work, inverse, source.nodes)
        BY <3>2, <4>4
      <4> QED
        BY <2>1, <2>2, <2>3, <3>3, <4>3, <4>5, OneMoreLeadsBackExactly DEF back
    <3> QED
      BY <3>1, <3>4, <3>5
  <2>9. AlwaysLeadsBack'
    BY <2>1, <2>8 DEF AlwaysLeadsBack
  <2> QED
    BY <2>7, <2>9 DEF LoopInv
<1>4. CASE Throw
  <2>1. phase' = "idle" /\ UNCHANGED <<source, work, operations, inverse, tangled>>
    BY <1>4 DEF Throw
  <2>2. LoopTypeOK'
    BY <1>1, <2>1 DEF LoopTypeOK
  <2> QED
    BY <2>1, <2>2 DEF LoopInv, AlwaysLeadsBack
<1>5. CASE Finish
  <2>1. /\ phase' = "idle" /\ UNCHANGED <<work, operations, inverse, tangled>>
        /\ ValidNodes(work)
        /\ source' = [revision |-> source.revision + 1, nodes |-> work]
    BY <1>5 DEF Finish
  <2>2. InPreorder(work) /\ source.revision \in Nat
    BY <1>1 DEF LoopTypeOK
  <2>3. /\ source'.revision \in Nat /\ source'.nodes = work
        /\ source' = [revision |-> source'.revision, nodes |-> source'.nodes]
    BY <2>1, <2>2
  <2>4. LoopTypeOK'
    BY <1>1, <2>1, <2>2, <2>3 DEF LoopTypeOK
  <2> QED
    BY <2>1, <2>4 DEF LoopInv, AlwaysLeadsBack
<1>6. CASE UNCHANGED loopVars
  <2>1. UNCHANGED <<source, work, operations, inverse, phase, tangled>>
    BY <1>6 DEF loopVars
  <2>2. LoopTypeOK'
    BY <1>1, <2>1 DEF LoopTypeOK
  <2>3. AlwaysLeadsBack'
    BY <1>1, <2>1 DEF AlwaysLeadsBack, NoRelationRemoved
  <2> QED
    BY <2>2, <2>3 DEF LoopInv
<1> QED
  BY <1>2, <1>3, <1>4, <1>5, <1>6 DEF NextLoop

LEMMA LoopInvAlways == SpecLoop => []LoopInv
BY LoopInvInitially, LoopInvStep, PTL DEF SpecLoop

\* After every operation that leaves the clone without clashing ids, the
\* inverse collected so far is accepted and leads back to the published graph,
\* up to the order of siblings (patch.ts:27-54).
THEOREM InverseAlwaysLeadsBack == SpecLoop => []InverseLeadsBack
<1>1. LoopInv => InverseLeadsBack
  <2> SUFFICES ASSUME LoopInv, phase = "applying", ~tangled
               PROVE  Undone.accepted /\ SameContent(Undone.nodes, source.nodes)
    BY DEF InverseLeadsBack
  <2>1. IsNodes(work) /\ InPreorder(work) /\ IsOperations(inverse)
    BY DEF LoopInv, LoopTypeOK
  <2>2. Addressable(work) /\ LeadsBack(work, inverse, source.nodes)
    BY DEF LoopInv, AlwaysLeadsBack
  <2>3. Indexed(work)
    BY <2>1, <2>2 DEF Indexed
  <2> QED
    BY <2>1, <2>2, <2>3, LedBack DEF Undone
<1> QED
  BY <1>1, LoopInvAlways, PTL

\* As long as no operation of the patch removed a single relation, it leads
\* back to the very graph, sibling order included (patch.ts:38-45).
THEOREM PutsKeepOrder == SpecLoop => []OrderSurvivesPuts
<1>1. LoopInv => OrderSurvivesPuts
  BY DEF LoopInv, AlwaysLeadsBack, OrderSurvivesPuts, LeadsBackExactly, Undone
<1> QED
  BY <1>1, LoopInvAlways, PTL

\* The instance's validity is that of the loop's own kernel.
LEMMA SameValidSource == \A nodes : Source!ValidNodes(nodes) <=> ValidNodes(nodes)
<1>1. \A list : Source!Ids(list) = Ids(list) /\ Source!WithinDepth(list) = WithinDepth(list)
  BY DEF Source!Ids, Ids, Source!WithinDepth, WithinDepth
<1>2. Source!Relation = Relation
  BY DEF Source!Relation, Relation, Source!RelationRef, RelationRef
<1>3. \A nodes, ref : Source!Resolves(nodes, ref) <=> Resolves(nodes, ref)
  BY <1>1 DEF Source!Resolves, Resolves
<1>4. \A nodes : Source!Closed(nodes) <=> Closed(nodes)
  BY <1>3 DEF Source!Closed, Closed
<1>5. \A nodes : Source!IsNodes(nodes) <=> IsNodes(nodes)
  BY <1>2 DEF Source!IsNodes, IsNodes
<1>6. \A nodes : Source!Addressable(nodes) <=> Addressable(nodes)
  BY <1>1 DEF Source!Addressable, Addressable
<1> QED
  BY <1>4, <1>5, <1>6 DEF Source!ValidNodes, ValidNodes

\* Whatever the operations do to the clone, the published graph is replaced
\* as a whole, by a valid one and one revision on (patch.ts:26, 55).
THEOREM PatchesAreAtomic == SpecLoop => AtomicRevisions
<1>1. InitLoop => Source!Init
  <2> SUFFICES ASSUME InitLoop PROVE Source!Init
    OBVIOUS
  <2>1. LoopTypeOK
    BY LoopInvInitially DEF LoopInv
  <2> QED
    BY <2>1, SameValidSource DEF LoopTypeOK, Source!Init, Source!IsGraph
<1>2. LoopInv /\ [NextLoop]_loopVars => [Source!Publish]_source
  <2> SUFFICES ASSUME LoopInv, [NextLoop]_loopVars, ~UNCHANGED source
               PROVE  Source!Publish
    OBVIOUS
  <2>1. Finish
    BY DEF NextLoop, loopVars, Begin, Operate, Throw
  <2>2. ValidNodes(work) /\ source' = [revision |-> source.revision + 1, nodes |-> work]
    BY <2>1 DEF Finish
  <2> QED
    BY <2>2, SameValidSource DEF Source!Publish
<1> QED
  BY <1>1, <1>2, LoopInvAlways, PTL DEF SpecLoop, AtomicRevisions, Source!Spec
\* One more operation leaves the stages before it as they were.
LEMMA StagesGrow ==
  ASSUME NEW nodes, NEW A, NEW ops \in Seq(A), NEW operation \in A
  PROVE  LET before == Stages(nodes, ops)
             after == Stages(nodes, Append(ops, operation))
         IN  /\ \A i \in 0 .. Len(ops) : after[i] = before[i]
             /\ after[Len(ops) + 1] = ApplyOperation(before[Len(ops)], operation)
<1> DEFINE more == Append(ops, operation)
           n == Len(ops)
           before == Stages(nodes, ops)
           after == Stages(nodes, more)
           T == {i \in 0 .. n : after[i] = before[i]}
<1>1. /\ n \in Nat /\ Len(more) = n + 1 /\ more[n + 1] = operation
      /\ \A i \in 1 .. n : more[i] = ops[i]
  OBVIOUS
<1> HIDE DEF more
<1>2. Running(before, nodes, ops, n)
  BY <1>1, StagesRun
<1>3. Running(after, nodes, more, n + 1)
  <2>1. Len(more) \in Nat
    BY <1>1
  <2> QED
    BY <1>1, <2>1, StagesRun
<1> HIDE DEF before, after
<1>4. 0 \in T
  <2>1. 0 \in 0 .. n
    BY <1>1
  <2> QED
    BY <1>2, <1>3, <2>1 DEF Running
<1>5. ASSUME NEW i \in 0 + 1 .. n, i - 1 \in T PROVE i \in T
  <2>1. i \in 1 .. n /\ i \in 1 .. n + 1 /\ i \in 0 .. n
    BY <1>1
  <2>2. /\ before[i] = ApplyOperation(before[i - 1], ops[i])
        /\ after[i] = ApplyOperation(after[i - 1], more[i])
    BY <1>2, <1>3, <2>1 DEF Running
  <2> QED
    BY <1>1, <1>5, <2>1, <2>2
<1> HIDE DEF T
<1>6. \A i \in 0 .. n : i \in T
  BY <1>1, <1>4, <1>5, Along
<1>7. after[n + 1] = ApplyOperation(before[n], operation)
  <2>1. n + 1 \in 1 .. n + 1 /\ (n + 1) - 1 = n /\ n \in 0 .. n
    BY <1>1
  <2>2. after[n + 1] = ApplyOperation(after[n], more[n + 1])
    BY <1>3, <2>1 DEF Running
  <2> QED
    BY <1>1, <1>6, <2>1, <2>2 DEF T
<1> QED
  BY <1>6, <1>7 DEF T, before, after, more

\* The loop has done what the kernel's ApplyOperations makes of the operations
\* so far.
LoopIsPatch ==
  phase = "applying" =>
    /\ ApplyOperations(source.nodes, operations) =
         [accepted |-> TRUE, nodes |-> work, inverse |-> inverse]
    /\ tangled <=> ~StaysIndexed(source.nodes, operations)

LEMMA LoopIsPatchStep ==
  LoopInv /\ LoopIsPatch /\ [NextLoop]_loopVars => LoopIsPatch'
<1> SUFFICES ASSUME LoopInv, LoopIsPatch, [NextLoop]_loopVars, phase' = "applying"
             PROVE  LoopIsPatch'
  BY DEF LoopIsPatch
<1>1. LoopTypeOK
  BY DEF LoopInv
<1>2. ASSUME NEW base, Begin(base) PROVE LoopIsPatch'
  <2>1. /\ source' = source /\ work' = source.nodes /\ operations' = <<>> /\ inverse' = <<>>
        /\ tangled' = FALSE
    BY <1>2 DEF Begin
  <2>2. Len(<<>>) = 0 /\ \A i : i \in 0 .. 0 <=> i = 0
    OBVIOUS
  <2>3. Stages(source.nodes, <<>>)[0] =
          [accepted |-> TRUE, nodes |-> source.nodes, inverse |-> <<>>]
    BY <2>2, FirstStage
  <2>4. Addressable(source.nodes)
    BY <1>1 DEF LoopTypeOK, ValidNodes
  <2>5. StaysIndexed(source.nodes, <<>>)
    BY <2>2, <2>3, <2>4 DEF StaysIndexed
  <2>6. ApplyOperations(source.nodes, <<>>) =
          [accepted |-> TRUE, nodes |-> source.nodes, inverse |-> <<>>]
    BY <2>2, <2>3 DEF ApplyOperations
  <2> QED
    BY <2>1, <2>5, <2>6 DEF LoopIsPatch
<1>3. ASSUME NEW operation \in Operations, Operate(operation) PROVE LoopIsPatch'
  <2> DEFINE n == Len(operations)
             more == Append(operations, operation)
             before == Stages(source.nodes, operations)
             after == Stages(source.nodes, more)
             result == [accepted |-> TRUE, nodes |-> work, inverse |-> inverse]
             next == [accepted |-> TRUE, nodes |-> Perform(work, operation),
                      inverse |-> <<InverseOf(work, operation)>> \o inverse]
  <2>1. /\ phase = "applying" /\ source' = source /\ Accepts(work, operation)
        /\ work' = next.nodes /\ inverse' = next.inverse
        /\ operations' = more
        /\ tangled' = (tangled \/ ~Addressable(next.nodes))
    BY <1>3 DEF Operate
  <2>2. operations \in Seq(Operations) /\ n \in Nat /\ Len(more) = n + 1
    BY <1>1 DEF LoopTypeOK
  <2>3. before[n] = result /\ (tangled <=> ~StaysIndexed(source.nodes, operations))
    BY <2>1 DEF LoopIsPatch, ApplyOperations
  <2>4. /\ \A i \in 0 .. n : after[i] = before[i]
        /\ after[n + 1] = ApplyOperation(before[n], operation)
    BY <2>2, StagesGrow
  <2>5. ApplyOperation(result, operation) = next
    BY <2>1 DEF ApplyOperation
  <2>6. after[n + 1] = next
    BY <2>3, <2>4, <2>5
  <2>7. next = [accepted |-> TRUE, nodes |-> next.nodes, inverse |-> next.inverse]
    OBVIOUS
  <2> HIDE DEF more, next, result
  <2>8. StaysIndexed(source.nodes, more) <=>
          StaysIndexed(source.nodes, operations) /\ Addressable(next.nodes)
    <3>1. \A i : i \in 0 .. n + 1 <=> i \in 0 .. n \/ i = n + 1
      BY <2>2
    <3>2. StaysIndexed(source.nodes, more) <=>
            \A i \in 0 .. n + 1 : Addressable(after[i].nodes)
      BY <2>2 DEF StaysIndexed
    <3>3. StaysIndexed(source.nodes, operations) <=>
            \A i \in 0 .. n : Addressable(before[i].nodes)
      BY DEF StaysIndexed
    <3> HIDE DEF before, after
    <3> QED
      BY <2>4, <2>6, <3>1, <3>2, <3>3
  <2>9. ApplyOperations(source.nodes, more) = next
    BY <2>2, <2>6 DEF ApplyOperations
  <2> QED
    BY <2>1, <2>3, <2>7, <2>8, <2>9 DEF LoopIsPatch
<1>4. CASE Throw \/ Finish
  BY <1>4 DEF Throw, Finish
<1>5. CASE UNCHANGED loopVars
  BY <1>5 DEF loopVars, LoopIsPatch
<1> QED
  BY <1>2, <1>3, <1>4, <1>5 DEF NextLoop

\* The loop over one copy of the graph computes what ApplyOperations says of
\* the patch: after each operation the clone and the inverse collected so far
\* are its results (patch.ts:26-55).  What WorkspaceSession takes a patch to do
\* in one step is what the loop does in many.
THEOREM LoopRunsThePatch == SpecLoop => []LoopIsPatch
<1>1. InitLoop => LoopIsPatch
  BY DEF InitLoop, LoopIsPatch
<1> QED
  BY <1>1, LoopIsPatchStep, LoopInvAlways, PTL DEF SpecLoop

\* The patch whose operations the loop has done.
DonePatch == Patch(source.revision, operations)

\* A graph is published only when the kernel accepts the whole patch for the
\* graph it replaces, and it is the kernel's result (patch.ts:22-56).
THEOREM PublicationsAreApplied ==
  SpecLoop => [][Applies(source, DonePatch) /\ source' = Applied(source, DonePatch)]_source
<1>1. LoopIsPatch /\ [NextLoop]_loopVars =>
        [Applies(source, DonePatch) /\ source' = Applied(source, DonePatch)]_source
  <2> SUFFICES ASSUME LoopIsPatch, [NextLoop]_loopVars, ~UNCHANGED source
               PROVE  Applies(source, DonePatch) /\ source' = Applied(source, DonePatch)
    OBVIOUS
  <2>1. Finish
    BY DEF NextLoop, loopVars, Begin, Operate, Throw
  <2>2. /\ phase = "applying" /\ ValidNodes(work)
        /\ source' = [revision |-> source.revision + 1, nodes |-> work]
    BY <2>1 DEF Finish
  <2>3. /\ ApplyOperations(source.nodes, operations).accepted
        /\ ApplyOperations(source.nodes, operations).nodes = work
    BY <2>2 DEF LoopIsPatch
  <2>4. DonePatch.base = source.revision /\ DonePatch.operations = operations
    BY DEF DonePatch, Patch
  <2> QED
    BY <2>2, <2>3, <2>4 DEF Applies, Applied
<1> QED
  BY <1>1, LoopRunsThePatch, PTL DEF SpecLoop
-----------------------------------------------------------------------------
(***************************************************************************)
(* Stacks.                                                                 *)
(***************************************************************************)

\* Pushing an entry keeps the entries below it where they were.
LEMMA PushStack ==
  ASSUME NEW stack, stack \in Seq(Range(stack)), NEW entry
  PROVE  LET pushed == Append(stack, entry) IN
         /\ pushed \in Seq(Range(pushed))
         /\ Len(pushed) = Len(stack) + 1
         /\ DOMAIN pushed = 1 .. Len(stack) + 1
         /\ DOMAIN stack = 1 .. Len(stack)
         /\ Len(stack) \in Nat
         /\ \A i \in DOMAIN stack : pushed[i] = stack[i]
         /\ pushed[Len(stack) + 1] = entry
<1> DEFINE pushed == Append(stack, entry)
           T == Range(stack) \cup {entry}
<1>1. stack \in Seq(T)
  OBVIOUS
<1>2. /\ pushed \in Seq(T)
      /\ Len(pushed) = Len(stack) + 1
      /\ DOMAIN pushed = 1 .. Len(stack) + 1
      /\ DOMAIN stack = 1 .. Len(stack)
      /\ Len(stack) \in Nat
      /\ \A i \in DOMAIN stack : pushed[i] = stack[i]
      /\ pushed[Len(stack) + 1] = entry
  BY <1>1
<1>3. T \subseteq Range(pushed)
  <2>1. ASSUME NEW x \in Range(stack) PROVE x \in Range(pushed)
    BY <1>2, <2>1 DEF Range
  <2>2. entry \in Range(pushed)
    BY <1>2 DEF Range
  <2>3. QED
    BY <2>1, <2>2
<1>4. pushed \in Seq(Range(pushed))
  BY <1>2, <1>3
<1>5. QED
  BY <1>2, <1>4

\* Popping an entry does so too.
LEMMA PopStack ==
  ASSUME NEW stack, stack \in Seq(Range(stack)), stack # <<>>
  PROVE  LET popped == Front(stack) IN
         /\ popped \in Seq(Range(popped))
         /\ Len(stack) \in Nat \ {0}
         /\ DOMAIN popped = 1 .. Len(stack) - 1
         /\ DOMAIN stack = 1 .. Len(stack)
         /\ \A i \in DOMAIN popped : popped[i] = stack[i]
         /\ Last(stack) = stack[Len(stack)]
<1> DEFINE popped == Front(stack)
<1>1. /\ Len(stack) \in Nat \ {0}
      /\ DOMAIN stack = 1 .. Len(stack)
      /\ popped = [i \in 1 .. Len(stack) - 1 |-> stack[i]]
      /\ popped \in Seq(Range(stack))
  BY DEF Front
<1>2. popped \in [1 .. Len(stack) - 1 -> Range(popped)]
  BY <1>1 DEF Range
<1>3. popped \in Seq(Range(popped))
  <2>1. ASSUME NEW n \in Nat, NEW S, NEW f \in [1 .. n -> S] PROVE f \in Seq(S)
    OBVIOUS
  <2>2. Len(stack) - 1 \in Nat
    BY <1>1
  <2>3. QED
    BY <1>2, <2>1, <2>2
<1>4. QED
  BY <1>1, <1>3 DEF Last
-----------------------------------------------------------------------------
(***************************************************************************)
(* Frames.                                                                 *)
(***************************************************************************)

\* graph_safe_views keeps a prefix of the trail, all of it in the graph.
LEMMA LivePrefixIsPrefix ==
  ASSUME NEW trail \in Seq(NodeIds), NEW nodes
  PROVE  LET prefix == LivePrefix(trail, nodes) IN
         /\ prefix \in Seq(NodeIds)
         /\ Len(prefix) <= Len(trail)
         /\ Range(prefix) \subseteq DOMAIN nodes
<1> DEFINE missing == {i \in DOMAIN trail : trail[i] \notin DOMAIN nodes}
           first == CHOOSE i \in missing : \A j \in missing : i <= j
           prefix == LivePrefix(trail, nodes)
<1>1. CASE missing = {}
  <2>1. prefix = trail
    BY <1>1 DEF LivePrefix
  <2>2. Range(trail) \subseteq DOMAIN nodes
    BY <1>1 DEF Range
  <2>3. QED
    BY <2>1, <2>2
<1>2. CASE missing # {}
  <2>1. missing \subseteq Nat /\ missing \subseteq 1 .. Len(trail)
    OBVIOUS
  <2>2. first \in missing /\ \A j \in missing : first <= j
    BY <1>2, <2>1, LeastElement
  <2>3. prefix = SubSeq(trail, 1, first - 1)
    BY <1>2 DEF LivePrefix
  <2>4. first \in 1 .. Len(trail)
    BY <2>1, <2>2
  <2> HIDE DEF first, prefix
  <2>5. /\ prefix \in Seq(NodeIds)
        /\ Len(prefix) = first - 1
        /\ DOMAIN prefix = 1 .. first - 1
        /\ \A i \in 1 .. first - 1 : prefix[i] = trail[i]
    BY <2>3, <2>4
  <2>6. \A i \in 1 .. first - 1 : trail[i] \in DOMAIN nodes
    BY <2>2, <2>4
  <2>7. Range(prefix) \subseteq DOMAIN nodes
    BY <2>5, <2>6 DEF Range
  <2>8. QED
    BY <2>4, <2>5, <2>7 DEF prefix
<1>3. QED
  BY <1>1, <1>2

LEMMA GraphSafeFrameType ==
  ASSUME NEW frame \in Frame, NEW nodes
  PROVE  /\ GraphSafeFrame(frame, nodes) \in Frame
         /\ Range(GraphSafeFrame(frame, nodes).trail) \subseteq DOMAIN nodes
<1> DEFINE trail == LivePrefix(frame.trail, nodes)
           at == IF frame.at <= Len(trail) THEN frame.at ELSE Len(trail)
<1>1. /\ frame.trail \in Seq(NodeIds)
      /\ frame.at \in Nat
      /\ frame.trail = <<>> => frame.at = 0
      /\ frame.trail # <<>> => frame.at \in 1 .. Len(frame.trail)
  BY DEF Frame
<1>2. /\ trail \in Seq(NodeIds)
      /\ Len(trail) <= Len(frame.trail)
      /\ Range(trail) \subseteq DOMAIN nodes
  BY <1>1, LivePrefixIsPrefix
<1>3. GraphSafeFrame(frame, nodes) = [trail |-> trail, at |-> at]
  BY DEF GraphSafeFrame
<1> HIDE DEF trail
<1>4. CASE trail = <<>>
  <2>1. at = 0
    BY <1>1, <1>2, <1>4
  <2>2. QED
    BY <1>2, <1>3, <1>4, <2>1 DEF Frame
<1>5. CASE trail # <<>>
  <2>1. Len(trail) \in Nat \ {0} /\ DOMAIN trail = 1 .. Len(trail)
    BY <1>2, <1>5
  <2>2. frame.trail # <<>>
    BY <1>1, <1>2, <2>1
  <2>3. at \in 1 .. Len(trail)
    BY <1>1, <1>2, <2>1, <2>2
  <2>4. QED
    BY <1>2, <1>3, <1>5, <2>1, <2>3 DEF Frame
<1>6. QED
  BY <1>4, <1>5

LEMMA DefaultFrameType ==
  DefaultFrame \in Frame /\ Range(DefaultFrame.trail) = {}
BY DEF DefaultFrame, Frame, Range

\* Frames for a set of ids, from frames for any other set of ids.
LEMMA NormalizeFramesType ==
  ASSUME NEW views, NEW ids,
         \A id \in DOMAIN views : views[id] \in Frame
  PROVE  NormalizeFrames(views, ids) \in [ids -> Frame]
BY DefaultFrameType DEF NormalizeFrames

LEMMA GraphSafeFramesType ==
  ASSUME NEW views, NEW ids, NEW nodes,
         \A id \in DOMAIN views : views[id] \in Frame
  PROVE  /\ GraphSafeFrames(views, ids, nodes) \in [ids -> Frame]
         /\ \A id \in ids :
              Range(GraphSafeFrames(views, ids, nodes)[id].trail) \subseteq DOMAIN nodes
BY NormalizeFramesType, GraphSafeFrameType DEF GraphSafeFrames
-----------------------------------------------------------------------------
(***************************************************************************)
(* What committing a patch gives, and what the entries it leaves hold.     *)
(***************************************************************************)

\* A commit publishes a valid graph, one revision on.
LEMMA CommitResult ==
  ASSUME NEW patch, Commits(patch), graph.revision \in Nat
  PROVE  /\ patch.base = graph.revision
         /\ Applied(graph, patch).revision = graph.revision + 1
         /\ Applied(graph, patch) = [revision |-> graph.revision + 1,
                                     nodes |-> Applied(graph, patch).nodes]
         /\ ValidNodes(Applied(graph, patch).nodes)
         /\ InversePatch(graph, patch).base = graph.revision + 1
BY DEF Commits, Applies, Applied, InversePatch, Patch

LEMMA PushedStackType ==
  ASSUME NEW stack, IsStack(stack), NEW entry, IsEntry(entry)
  PROVE  IsStack(Append(stack, entry))
<1>1. stack \in Seq(Range(stack))
  BY DEF IsStack
<1>2. ASSUME NEW i \in DOMAIN Append(stack, entry)
      PROVE  IsEntry(Append(stack, entry)[i])
  <2>1. i \in DOMAIN stack \/ i = Len(stack) + 1
    BY <1>1, PushStack
  <2>2. QED
    BY <1>1, <2>1, PushStack DEF IsStack
<1>3. QED
  BY <1>1, <1>2, PushStack DEF IsStack

LEMMA PoppedStackType ==
  ASSUME NEW stack, IsStack(stack), stack # <<>>
  PROVE  IsStack(Front(stack)) /\ IsEntry(Last(stack))
<1>1. stack \in Seq(Range(stack))
  BY DEF IsStack
<1>2. \A i \in DOMAIN Front(stack) : i \in DOMAIN stack
  BY <1>1, PopStack
<1>3. Len(stack) \in DOMAIN stack
  BY <1>1, PopStack
<1>4. QED
  BY <1>1, <1>2, <1>3, PopStack DEF IsStack

LEMMA NewEntryType ==
  ASSUME NEW patch, patch.base \in Nat, NEW ids \in SUBSET NodeIds,
         NEW views \in [ids -> Frame]
  PROVE  /\ IsEntry(GraphEntry(patch))
         /\ IsEntry(RootsEntry(patch, ids))
         /\ IsEntry(ViewsEntry(patch, ids, views))
<1>1. DOMAIN <<>> = {}
  OBVIOUS
<1>2. QED
  BY <1>1 DEF IsEntry, GraphEntry, RootsEntry, ViewsEntry

LEMMA InverseEntryType ==
  ASSUME TypeOK, NEW entry, IsEntry(entry), Commits(entry.patch)
  PROVE  /\ IsEntry(InverseEntry(entry))
         /\ InverseEntry(entry).patch.base = graph.revision + 1
<1> DEFINE patch == InversePatch(graph, entry.patch)
           views == NormalizeFrames(frames, roots)
<1>1. patch.base = graph.revision + 1 /\ patch.base \in Nat
  BY CommitResult DEF TypeOK
<1>2. views \in [roots -> Frame] /\ roots \in SUBSET NodeIds
  BY NormalizeFramesType DEF TypeOK, IsViews
<1> HIDE DEF patch, views
<1>3. IsEntry(GraphEntry(patch)) /\ IsEntry(ViewsEntry(patch, roots, views))
  BY <1>1, <1>2, NewEntryType
<1>4. GraphEntry(patch).patch = patch /\ ViewsEntry(patch, roots, views).patch = patch
  BY DEF GraphEntry, ViewsEntry
<1>5. QED
  BY <1>1, <1>3, <1>4 DEF InverseEntry, patch, views

\* The frames that history() brings back.
LEMMA RestoredFramesType ==
  ASSUME TypeOK, NEW entry, IsEntry(entry)
  PROVE  /\ RestoredRoots(entry) \subseteq NodeIds
         /\ RestoredFrames(entry) \in [RestoredRoots(entry) -> Frame]
<1> DEFINE ids == RestoredRoots(entry)
<1>1. ids \subseteq NodeIds
  BY DEF RestoredRoots, TypeOK, IsEntry
<1>2. NormalizeFrames(frames, ids) \in [ids -> Frame]
  BY NormalizeFramesType DEF TypeOK, IsViews
<1> HIDE DEF ids
<1>3. ASSUME NEW id \in ids PROVE RestoredFrames(entry)[id] \in Frame
  BY <1>2 DEF RestoredFrames, IsEntry, ids
<1>4. RestoredFrames(entry) = [id \in ids |-> RestoredFrames(entry)[id]]
  BY DEF RestoredFrames, ids
<1>5. QED
  BY <1>1, <1>3, <1>4 DEF ids
-----------------------------------------------------------------------------
(***************************************************************************)
(* Type correctness.                                                       *)
(***************************************************************************)

LEMMA RestoreType ==
  ASSUME TypeOK, NEW entry, IsEntry(entry), Restore(entry)
  PROVE  /\ graph'.revision = graph.revision + 1
         /\ graph'.revision \in Nat
         /\ IsNodes(graph'.nodes)
         /\ roots' \subseteq NodeIds
         /\ IsViews(frames')
         /\ selection' \subseteq NodeIds
         /\ DOMAIN scoped' \subseteq NodeIds
         /\ \A scope \in DOMAIN scoped' : scoped'[scope] \subseteq NodeIds
         /\ unindexed' \in BOOLEAN
         /\ dropped' = {} /\ revived' = {} /\ rendered' = rendered
<1>1. Commits(entry.patch)
  BY DEF Restore
<1>2. graph' = Applied(graph, entry.patch)
  BY DEF Restore
<1>3. graph'.revision = graph.revision + 1 /\ ValidNodes(graph'.nodes)
  BY <1>1, <1>2, CommitResult DEF TypeOK
<1>4. roots' \subseteq NodeIds
  BY RestoredFramesType DEF Restore
<1>5. frames' \in [roots' -> Frame]
  <2>1. \A id \in DOMAIN RestoredFrames(entry) : RestoredFrames(entry)[id] \in Frame
    BY RestoredFramesType
  <2>2. QED
    BY <2>1, GraphSafeFramesType DEF Restore
<1>6. QED
  BY <1>3, <1>4, <1>5 DEF Restore, Swept, LiveSelection, LiveScoped, TypeOK, ValidNodes, IsViews

\* A request stores the views of the session or of an older rendering, with
\* one frame of them replaced.
LEMMA ViewType ==
  ASSUME TypeOK, NEW view \in {Current, rendered}
  PROVE  view.nodes \subseteq NodeIds /\ IsViews(view.frames)
<1>1. CASE view = Current
  <2>1. NormalizeFrames(frames, roots) \in [roots -> Frame] /\ roots \subseteq NodeIds
    BY NormalizeFramesType DEF TypeOK, IsViews
  <2>2. DOMAIN graph.nodes \subseteq NodeIds
    BY DEF TypeOK, IsNodes
  <2>3. QED
    BY <1>1, <2>1, <2>2 DEF Current, IsViews
<1>2. CASE view = rendered
  BY <1>2 DEF TypeOK
<1>3. QED
  BY <1>1, <1>2

LEMMA ShownFrameType ==
  ASSUME NEW view, IsViews(view.frames), NEW root \in DOMAIN view.frames
  PROVE  /\ view.frames[root] \in Frame
         /\ ShownFrame(view, root) \in Frame
         /\ Visited(ShownFrame(view, root)) \in Seq(NodeIds)
<1>1. view.frames[root] \in Frame /\ root \in NodeIds
  BY DEF IsViews
<1>2. ShownFrame(view, root) \in Frame
  <2>1. [trail |-> <<root>>, at |-> 1] \in Frame
    BY <1>1 DEF Frame
  <2>2. QED
    BY <1>1, <2>1 DEF ShownFrame
<1>3. /\ ShownFrame(view, root).trail \in Seq(NodeIds)
      /\ ShownFrame(view, root).at \in Nat
      /\ ShownFrame(view, root).trail # <<>> => ShownFrame(view, root).at \in DOMAIN ShownFrame(view, root).trail
  BY <1>2 DEF Frame
<1>4. ShownFrame(view, root).trail # <<>>
  BY DEF ShownFrame
<1>5. ASSUME NEW trail \in Seq(NodeIds), NEW at \in DOMAIN trail
      PROVE  SubSeq(trail, 1, at) \in Seq(NodeIds)
  OBVIOUS
<1>6. Visited(ShownFrame(view, root)) \in Seq(NodeIds)
  BY <1>3, <1>4, <1>5 DEF Visited
<1>7. QED
  BY <1>1, <1>2, <1>6

LEMMA WriteUpdates ==
  ASSUME TypeOK, NEW view \in {Current, rendered}, NEW root \in DOMAIN view.frames,
         NEW frame \in Frame, Write(view, root, frame)
  PROVE  \E views : IsViews(views) /\ UpdateViews(views)
<1> DEFINE own == [NormalizeFrames(frames, roots) EXCEPT ![root] = frame]
           shown == [view.frames EXCEPT ![root] = frame]
<1>1. IsViews(shown)
  BY ViewType DEF IsViews
<1>2. IsViews(own)
  <2>1. NormalizeFrames(frames, roots) \in [roots -> Frame] /\ roots \subseteq NodeIds
    BY NormalizeFramesType DEF TypeOK, IsViews
  <2>2. QED
    BY <2>1 DEF IsViews
<1>3. UpdateViews(own) \/ UpdateViews(shown)
  BY DEF Write, SetWindow
<1>4. QED
  BY <1>1, <1>2, <1>3

LEMMA RequestUpdates ==
  ASSUME TypeOK, NEW view \in {Current, rendered}, NEW root, Request(view, root)
  PROVE  \E views : IsViews(views) /\ UpdateViews(views)
<1> DEFINE visited == Visited(ShownFrame(view, root))
<1>1. IsViews(view.frames) /\ view.nodes \subseteq NodeIds
  BY ViewType
<1>2. root \in DOMAIN view.frames
  BY DEF Request, Navigate, SwitchProjection, Revisit, Touch
<1>3. /\ view.frames[root] \in Frame /\ ShownFrame(view, root) \in Frame
      /\ visited \in Seq(NodeIds)
  BY <1>1, <1>2, ShownFrameType
<1>4. ASSUME NEW target, Navigate(view, root, target)
      PROVE  \E views : IsViews(views) /\ UpdateViews(views)
  <2> DEFINE frame == [trail |-> Append(visited, target), at |-> Len(visited) + 1]
  <2>1. target \in NodeIds /\ Write(view, root, frame)
    BY <1>1, <1>4 DEF Navigate
  <2> HIDE DEF visited
  <2>2. frame \in Frame
    BY <1>3, <2>1 DEF Frame
  <2> HIDE DEF frame
  <2>3. QED
    BY <1>2, <2>1, <2>2, WriteUpdates
<1>5. ASSUME NEW target, NEW at \in 1 .. MaxTrail, SwitchProjection(view, root, target, at)
      PROVE  \E views : IsViews(views) /\ UpdateViews(views)
  <2> DEFINE kept == SubSeq(visited, 1, at - 1)
             frame == [trail |-> Append(kept, target), at |-> at]
  <2>1. target \in NodeIds /\ at \in DOMAIN visited /\ SetWindow(root, frame)
    BY <1>1, <1>5 DEF SwitchProjection
  <2> HIDE DEF visited
  <2>2. kept \in Seq(NodeIds) /\ Len(kept) = at - 1
    BY <1>3, <2>1
  <2> HIDE DEF kept
  <2>3. Append(kept, target) \in Seq(NodeIds) /\ Len(Append(kept, target)) = at
    BY <2>1, <2>2
  <2>4. frame \in Frame
    BY <2>3 DEF Frame
  <2> HIDE DEF frame
  <2>5. QED
    BY <1>2, <2>1, <2>4, WriteUpdates DEF Write
<1>6. ASSUME NEW at \in 1 .. MaxTrail, Revisit(view, root, at)
      PROVE  \E views : IsViews(views) /\ UpdateViews(views)
  <2>1. at \in DOMAIN view.frames[root].trail
    BY <1>6 DEF Revisit
  <2>2. [view.frames[root] EXCEPT !.at = at] \in Frame
    BY <1>3, <2>1, WorkspaceAssumption DEF Frame
  <2>3. QED
    BY <1>2, <1>6, <2>2, WriteUpdates DEF Revisit
<1>7. CASE Touch(view, root)
  BY <1>2, <1>3, <1>7, WriteUpdates DEF Touch
<1>8. QED
  BY <1>4, <1>5, <1>6, <1>7 DEF Request

LEMMA StrayType ==
  ASSUME NEW views, IsViews(views)
  PROVE  Stray(views) \subseteq NodeIds
<1>1. ASSUME NEW id \in DOMAIN views PROVE Range(views[id].trail) \subseteq NodeIds
  BY DEF IsViews, Frame, Range
<1>2. QED
  BY <1>1 DEF Stray

LEMMA TypeStep == TypeOK /\ [Next]_vars => TypeOK'
<1> SUFFICES ASSUME TypeOK, [Next]_vars PROVE TypeOK'
  OBVIOUS
<1>1. \A id \in DOMAIN frames : frames[id] \in Frame
  BY DEF TypeOK, IsViews
<1>2. IsStack(<<>>)
  BY DEF IsStack
<1>3. ASSUME NEW patch \in Patches, CommitPatch(patch) PROVE TypeOK'
  <2>1. Commits(patch) /\ graph' = Applied(graph, patch)
    BY <1>3 DEF CommitPatch
  <2>2. graph'.revision \in Nat /\ ValidNodes(graph'.nodes)
    BY <2>1, CommitResult DEF TypeOK
  <2>3. frames' \in [roots' -> Frame]
    BY <1>1, <1>3, GraphSafeFramesType DEF CommitPatch
  <2>4. InversePatch(graph, patch).base \in Nat
    BY <2>1, CommitResult DEF TypeOK
  <2>5. IsStack(undo') /\ IsStack(redo')
    <3>1. IsEntry(GraphEntry(InversePatch(graph, patch)))
      BY <1>1, <2>4, NewEntryType, NormalizeFramesType DEF TypeOK
    <3>2. QED
      BY <1>2, <1>3, <3>1, PushedStackType DEF CommitPatch, TypeOK
  <2>6. QED
    BY <1>3, <2>2, <2>3, <2>5
    DEF CommitPatch, Swept, LiveSelection, LiveScoped, TypeOK, ValidNodes, IsViews
<1>4. ASSUME NEW patch \in Patches, NEW added \in SUBSET NodeIds, NEW preferred,
             CommitCreation(patch, added, preferred)
      PROVE  TypeOK'
  <2>1. Commits(patch) /\ graph' = Applied(graph, patch)
    BY <1>4 DEF CommitCreation
  <2>2. graph'.revision \in Nat /\ ValidNodes(graph'.nodes)
    BY <2>1, CommitResult DEF TypeOK
  <2>3. frames' \in [roots' -> Frame]
    BY <1>1, <1>4, NormalizeFramesType, DefaultFrameType
    DEF CommitCreation, CreationFrames
  <2>4. InversePatch(graph, patch).base \in Nat
    BY <2>1, CommitResult DEF TypeOK
  <2>5. IsStack(undo') /\ IsStack(redo')
    <3>1. IsEntry(RootsEntry(InversePatch(graph, patch), roots))
      BY <1>1, <2>4, NewEntryType, NormalizeFramesType DEF TypeOK
    <3>2. QED
      BY <1>2, <1>4, <3>1, PushedStackType DEF CommitCreation, TypeOK
  <2>6. dropped' \cup revived' \subseteq NodeIds
    BY <1>4 DEF CommitCreation, TypeOK, IsNodes
  <2>7. QED
    BY <1>4, <2>2, <2>3, <2>5, <2>6 DEF CommitCreation, TypeOK, ValidNodes, IsViews
<1>5. ASSUME NEW added \in SUBSET NodeIds, NEW preferred, OpenRoots(added, preferred)
      PROVE  TypeOK'
  <2>1. frames' \in [roots' -> Frame]
    BY <1>1, <1>5, NormalizeFramesType, DefaultFrameType DEF OpenRoots, CreationFrames
  <2>2. QED
    BY <1>5, <2>1 DEF OpenRoots, TypeOK, IsViews
<1>6. CASE Undo
  <2>1. IsStack(undo') /\ IsEntry(Last(undo)) /\ Commits(Last(undo).patch)
    BY <1>6, PoppedStackType DEF Undo, Restore, TypeOK
  <2>2. IsStack(redo')
    BY <1>6, <2>1, InverseEntryType, PushedStackType DEF Undo, TypeOK
  <2>3. Restore(Last(undo))
    BY <1>6 DEF Undo
  <2>4. QED
    BY <2>1, <2>2, <2>3, RestoreType DEF TypeOK
<1>7. CASE Redo
  <2>1. IsStack(redo') /\ IsEntry(Last(redo)) /\ Commits(Last(redo).patch)
    BY <1>7, PoppedStackType DEF Redo, Restore, TypeOK
  <2>2. IsStack(undo')
    BY <1>7, <2>1, InverseEntryType, PushedStackType DEF Redo, TypeOK
  <2>3. Restore(Last(redo))
    BY <1>7 DEF Redo
  <2>4. QED
    BY <2>1, <2>2, <2>3, RestoreType DEF TypeOK
<1>8. ASSUME NEW id \in NodeIds, CloseProjectionRoot(id) PROVE TypeOK'
  BY <1>1, <1>8, NormalizeFramesType DEF CloseProjectionRoot, TypeOK, IsViews
<1>9. ASSUME NEW ids \in Selections, Select(ids) PROVE TypeOK'
  BY <1>9, WorkspaceAssumption DEF Select, TypeOK
<1>10. ASSUME NEW scope \in NodeIds, NEW ids \in Selections, SelectScoped(scope, ids)
       PROVE  TypeOK'
  BY <1>10, WorkspaceAssumption DEF SelectScoped, TypeOK
<1>11. CASE Render
  <2>1. IsViews(Current.frames) /\ Current.nodes \subseteq NodeIds
    BY ViewType
  <2>2. QED
    BY <1>11, <2>1 DEF Render, TypeOK
<1>12. ASSUME NEW view \in {Current, rendered}, NEW root, Request(view, root) PROVE TypeOK'
  <2>1. PICK views : IsViews(views) /\ UpdateViews(views)
    BY <1>12, RequestUpdates
  <2>2. QED
    BY <2>1, StrayType DEF UpdateViews, TypeOK
<1>13. CASE UNCHANGED vars
  BY <1>13 DEF vars, TypeOK, IsStack, IsEntry
<1>14. QED
  <2>1. \A ids \in AtMostOne(NodeIds) : ids \in SUBSET NodeIds
    BY DEF AtMostOne
  <2>2. Windows \subseteq NodeIds
    BY WorkspaceAssumption
  <2>3. QED
    BY <1>3, <1>4, <1>5, <1>6, <1>7, <1>8, <1>9, <1>10, <1>11, <1>12, <1>13, <2>1, <2>2
    DEF Next

\* The state of a session keeps its type: in particular a published graph
\* is a graph, whatever patches are sent.
THEOREM TypeCorrect == Spec => []TypeOK
<1>1. Init => TypeOK
  <2> SUFFICES ASSUME Init PROVE TypeOK
    OBVIOUS
  <2>1. IsNodes(graph.nodes) /\ graph.revision \in Nat
    BY WorkspaceAssumption DEF Init, ValidNodes
  <2>2. InitialRoots \subseteq NodeIds
    BY WorkspaceAssumption DEF ValidNodes, IsNodes
  <2>3. IsStack(<<>>)
    BY DEF IsStack
  <2>4. IsViews(frames) /\ IsViews(rendered.frames) /\ rendered.nodes \subseteq NodeIds
    BY <2>1, <2>2, DefaultFrameType, NormalizeFramesType DEF Init, IsViews, Current, IsNodes
  <2>5. QED
    BY <2>1, <2>2, <2>3, <2>4, WorkspaceAssumption DEF Init, TypeOK, IsNodes
<1>2. QED
  BY <1>1, TypeStep, PTL DEF Spec
-----------------------------------------------------------------------------
(***************************************************************************)
(* The order of the history.  OnlyNewestEntryApplies is not inductive: it  *)
(* says nothing of the entries that are too old to apply.                  *)
(***************************************************************************)

\* A stack's revisions grow towards its top and none is ahead of the graph.
Ordered(stack, revision) ==
  /\ \A i, j \in DOMAIN stack : i < j => stack[i].patch.base < stack[j].patch.base
  /\ \A i \in DOMAIN stack : stack[i].patch.base <= revision

HistoryOrdered ==
  /\ Ordered(undo, graph.revision)
  /\ Ordered(redo, graph.revision)
  /\ Bases(undo) \cap Bases(redo) = {}

\* An entry bound to the next revision may go on top of an ordered stack.
LEMMA PushOrdered ==
  ASSUME NEW stack, IsStack(stack), NEW revision \in Nat, Ordered(stack, revision),
         NEW entry, entry.patch.base = revision + 1
  PROVE  /\ Ordered(Append(stack, entry), revision + 1)
         /\ Bases(Append(stack, entry)) = Bases(stack) \cup {revision + 1}
<1> DEFINE pushed == Append(stack, entry)
           top == Len(stack) + 1
<1>1. /\ stack \in Seq(Range(stack))
      /\ \A i \in DOMAIN stack : stack[i].patch.base \in Nat
  BY DEF IsStack, IsEntry
<1>2. /\ Len(stack) \in Nat
      /\ DOMAIN stack = 1 .. Len(stack)
      /\ DOMAIN pushed = 1 .. top
      /\ \A i \in DOMAIN stack : pushed[i] = stack[i]
      /\ pushed[top] = entry
  BY <1>1, PushStack
<1> HIDE DEF pushed
<1>3. \A i \in DOMAIN stack : pushed[i].patch.base = stack[i].patch.base
  BY <1>2
<1>4. pushed[top].patch.base = revision + 1
  BY <1>2
<1>5. DOMAIN pushed = DOMAIN stack \cup {top}
  BY <1>2
<1>6. ASSUME NEW i \in DOMAIN pushed PROVE pushed[i].patch.base <= revision + 1
  BY <1>1, <1>3, <1>4, <1>5 DEF Ordered
<1>7. ASSUME NEW i \in DOMAIN pushed, NEW j \in DOMAIN pushed, i < j
      PROVE  pushed[i].patch.base < pushed[j].patch.base
  <2>1. i \in DOMAIN stack
    BY <1>2, <1>7
  <2>2. CASE j \in DOMAIN stack
    BY <1>3, <1>7, <2>1, <2>2 DEF Ordered
  <2>3. CASE j = top
    BY <1>1, <1>3, <1>4, <2>1, <2>3 DEF Ordered
  <2>4. QED
    BY <1>5, <2>2, <2>3
<1>8. Bases(pushed) = Bases(stack) \cup {revision + 1}
  BY <1>3, <1>4, <1>5 DEF Bases
<1>9. QED
  BY <1>6, <1>7, <1>8 DEF Ordered, pushed

\* Taking the top entry off keeps a stack ordered, at any later revision.
LEMMA PopOrdered ==
  ASSUME NEW stack, IsStack(stack), stack # <<>>,
         NEW revision \in Nat, Ordered(stack, revision)
  PROVE  /\ Ordered(Front(stack), revision + 1)
         /\ Bases(Front(stack)) \subseteq Bases(stack)
<1>1. /\ stack \in Seq(Range(stack))
      /\ \A i \in DOMAIN stack : stack[i].patch.base \in Nat
  BY DEF IsStack, IsEntry
<1>2. /\ \A i \in DOMAIN Front(stack) : i \in DOMAIN stack
      /\ \A i \in DOMAIN Front(stack) : Front(stack)[i] = stack[i]
  BY <1>1, PopStack
<1>3. QED
  BY <1>1, <1>2 DEF Ordered, Bases

\* Every revision a stack is bound to is one the graph has had.
LEMMA BasesBounded ==
  ASSUME NEW stack, NEW revision \in Nat, Ordered(stack, revision), IsStack(stack)
  PROVE  revision + 1 \notin Bases(stack)
BY DEF Ordered, Bases, IsStack, IsEntry

LEMMA EmptyOrdered == \A revision : Ordered(<<>>, revision) /\ Bases(<<>>) = {}
BY DEF Ordered, Bases

\* The whole history when an entry goes on one stack and the other is
\* emptied, or loses its top entry.
LEMMA HistoryStep ==
  ASSUME TypeOK, HistoryOrdered, [Next]_vars
  PROVE  HistoryOrdered'
<1>1. /\ graph.revision \in Nat
      /\ IsStack(undo) /\ IsStack(redo)
      /\ graph.revision + 1 \notin Bases(undo) \cup Bases(redo)
  BY BasesBounded DEF TypeOK, HistoryOrdered
<1>2. ASSUME NEW patch, NEW entry, Commits(patch), graph' = Applied(graph, patch),
             entry.patch = InversePatch(graph, patch),
             undo' = Append(undo, entry), redo' = <<>>
      PROVE  HistoryOrdered'
  <2>1. graph'.revision = graph.revision + 1 /\ entry.patch.base = graph.revision + 1
    BY <1>1, <1>2, CommitResult
  <2>2. /\ Ordered(undo', graph'.revision)
        /\ Bases(undo') = Bases(undo) \cup {graph.revision + 1}
    BY <1>1, <1>2, <2>1, PushOrdered DEF HistoryOrdered
  <2>3. Ordered(redo', graph'.revision) /\ Bases(redo') = {}
    BY <1>2, EmptyOrdered
  <2>4. QED
    BY <2>2, <2>3 DEF HistoryOrdered, Ordered, Bases
<1>3. ASSUME NEW patch \in Patches, CommitPatch(patch) PROVE HistoryOrdered'
  <2>1. GraphEntry(InversePatch(graph, patch)).patch = InversePatch(graph, patch)
    BY DEF GraphEntry
  <2>2. QED
    BY <1>2, <1>3, <2>1 DEF CommitPatch
<1>4. ASSUME NEW patch \in Patches, NEW added, NEW preferred,
             CommitCreation(patch, added, preferred)
      PROVE  HistoryOrdered'
  <2>1. RootsEntry(InversePatch(graph, patch), roots).patch = InversePatch(graph, patch)
    BY DEF RootsEntry
  <2>2. QED
    BY <1>2, <1>4, <2>1 DEF CommitCreation
<1>5. CASE Undo
  <2>1. IsEntry(Last(undo)) /\ Commits(Last(undo).patch)
    BY <1>1, <1>5, PoppedStackType DEF Undo, Restore
  <2>2. graph'.revision = graph.revision + 1
    BY <1>1, <1>5, <2>1, CommitResult DEF Undo, Restore
  <2>3. InverseEntry(Last(undo)).patch.base = graph.revision + 1
    BY <2>1, InverseEntryType
  <2>4. /\ Ordered(undo', graph'.revision)
        /\ Bases(undo') \subseteq Bases(undo)
    BY <1>1, <1>5, <2>2, PopOrdered DEF Undo, HistoryOrdered
  <2>5. /\ Ordered(redo', graph'.revision)
        /\ Bases(redo') = Bases(redo) \cup {graph.revision + 1}
    BY <1>1, <1>5, <2>2, <2>3, PushOrdered DEF Undo, HistoryOrdered
  <2>6. QED
    BY <1>1, <2>4, <2>5 DEF HistoryOrdered, Ordered, Bases
<1>6. CASE Redo
  <2>1. IsEntry(Last(redo)) /\ Commits(Last(redo).patch)
    BY <1>1, <1>6, PoppedStackType DEF Redo, Restore
  <2>2. graph'.revision = graph.revision + 1
    BY <1>1, <1>6, <2>1, CommitResult DEF Redo, Restore
  <2>3. InverseEntry(Last(redo)).patch.base = graph.revision + 1
    BY <2>1, InverseEntryType
  <2>4. /\ Ordered(redo', graph'.revision)
        /\ Bases(redo') \subseteq Bases(redo)
    BY <1>1, <1>6, <2>2, PopOrdered DEF Redo, HistoryOrdered
  <2>5. /\ Ordered(undo', graph'.revision)
        /\ Bases(undo') = Bases(undo) \cup {graph.revision + 1}
    BY <1>1, <1>6, <2>2, <2>3, PushOrdered DEF Redo, HistoryOrdered
  <2>6. QED
    BY <1>1, <2>4, <2>5 DEF HistoryOrdered, Ordered, Bases
<1>7. CASE UNCHANGED <<graph, undo, redo>>
  BY <1>7 DEF HistoryOrdered, Ordered, Bases
<1>8. ASSUME NEW view \in {Current, rendered}, NEW root, Request(view, root)
      PROVE  UNCHANGED <<graph, undo, redo>>
  BY <1>8, RequestUpdates DEF UpdateViews
<1>9. QED
  BY <1>3, <1>4, <1>5, <1>6, <1>7, <1>8
  DEF Next, vars, OpenRoots, CloseProjectionRoot, Select, SelectScoped, Render

\* At most one entry of the whole history can be applied, for every document
\* and every sequence of patches, undos and redos.
THEOREM HistoryOrder == Spec => []OnlyNewestEntryApplies
<1>1. Init => HistoryOrdered
  BY EmptyOrdered DEF Init, HistoryOrdered
<1>2. TypeOK /\ HistoryOrdered => OnlyNewestEntryApplies
  <2> SUFFICES ASSUME TypeOK, HistoryOrdered PROVE OnlyNewestEntryApplies
    OBVIOUS
  <2>1. ASSUME NEW stack, IsStack(stack), Ordered(stack, graph.revision),
               NEW i \in DOMAIN stack, stack[i].patch.base = graph.revision
        PROVE  i = Len(stack)
    <3>1. /\ DOMAIN stack = 1 .. Len(stack)
          /\ Len(stack) \in Nat
          /\ \A j \in DOMAIN stack : stack[j].patch.base \in Nat
      BY <2>1 DEF IsStack, IsEntry
    <3>2. Len(stack) \in DOMAIN stack
      BY <2>1, <3>1
    <3>3. ~(i < Len(stack))
      BY <2>1, <3>1, <3>2 DEF Ordered, TypeOK
    <3>4. QED
      BY <2>1, <3>1, <3>3
  <2>2. QED
    BY <2>1 DEF TypeOK, HistoryOrdered, OnlyNewestEntryApplies
<1>3. HistoryOrdered /\ TypeOK /\ [Next]_vars => HistoryOrdered'
  BY HistoryStep
<1>4. QED
  BY <1>1, <1>2, <1>3, TypeCorrect, PTL DEF Spec
-----------------------------------------------------------------------------
(***************************************************************************)
(* Selections and navigation.                                              *)
(***************************************************************************)

\* Nothing that is selected is missing from the graph but what a creation
\* removed since the last patch, undo or redo, for every document and every
\* sequence of steps (workspace-store.ts:210-211, 218-239, 259-260).
THEOREM SelectionIsLive == Spec => []SelectionLive
<1>1. Init => SelectionLive
  BY WorkspaceAssumption DEF Init, SelectionLive
<1>2. TypeOK /\ SelectionLive /\ [Next]_vars => SelectionLive'
  <2> SUFFICES ASSUME TypeOK, SelectionLive, [Next]_vars PROVE SelectionLive'
    OBVIOUS
  <2>1. ASSUME NEW patch, CommitPatch(patch) PROVE SelectionLive'
    BY <2>1 DEF CommitPatch, LiveSelection, LiveScoped, SelectionLive
  <2>2. ASSUME NEW patch, NEW added, NEW preferred, CommitCreation(patch, added, preferred)
        PROVE  SelectionLive'
    <3>1. DOMAIN graph.nodes \cup dropped \subseteq DOMAIN graph'.nodes \cup dropped'
      BY <2>2 DEF CommitCreation
    <3>2. UNCHANGED <<selection, scoped>>
      BY <2>2 DEF CommitCreation
    <3>3. QED
      BY <3>1, <3>2 DEF SelectionLive
  <2>3. ASSUME NEW entry, Restore(entry) PROVE SelectionLive'
    BY <2>3 DEF Restore, LiveSelection, LiveScoped, SelectionLive
  <2>4. ASSUME NEW ids, Select(ids) PROVE SelectionLive'
    BY <2>4 DEF Select, SelectionLive
  <2>5. ASSUME NEW scope, NEW ids, SelectScoped(scope, ids) PROVE SelectionLive'
    BY <2>5 DEF SelectScoped, SelectionLive
  <2>6. ASSUME NEW view \in {Current, rendered}, NEW root, Request(view, root)
        PROVE  UNCHANGED <<graph, selection, scoped, dropped>>
    BY <2>6, RequestUpdates DEF UpdateViews
  <2>7. CASE UNCHANGED <<graph, selection, scoped, dropped>>
    BY <2>7 DEF SelectionLive
  <2>8. QED
    BY <2>1, <2>2, <2>3, <2>4, <2>5, <2>6, <2>7
    DEF Next, vars, Undo, Redo, OpenRoots, CloseProjectionRoot, Render
<1>3. QED
  BY <1>1, <1>2, TypeCorrect, PTL DEF Spec

\* Frames that are kept, dropped or new stay inside the nodes they were in.
LEMMA CreationFramesLive ==
  ASSUME NEW S, \A id \in DOMAIN frames : Range(frames[id].trail) \subseteq S,
         NEW ids, NEW preferred, NEW id \in ids
  PROVE  /\ Range(CreationFrames(ids, preferred)[id].trail) \subseteq S
         /\ Range(NormalizeFrames(frames, ids)[id].trail) \subseteq S
BY DefaultFrameType DEF CreationFrames, NormalizeFrames

\* A trail through a node the graph does not have goes through one that a
\* creation removed or that a request brought back, both since the last patch,
\* undo or redo: whatever frames undo and redo restore, and whichever closed
\* root is opened again, for every document and every sequence of steps
\* (workspace-store.ts:33-41, 86-104, 253-258).
THEOREM NavigationIsLive == Spec => []NavigationLive
<1>1. Init => NavigationLive
  BY DefaultFrameType DEF Init, NavigationLive
<1>2. TypeOK /\ NavigationLive /\ [Next]_vars => NavigationLive'
  <2> SUFFICES ASSUME TypeOK, NavigationLive, [Next]_vars PROVE NavigationLive'
    OBVIOUS
  <2> DEFINE S == DOMAIN graph.nodes \cup dropped \cup revived
  <2>1. /\ \A id \in DOMAIN frames : frames[id] \in Frame
        /\ \A id \in DOMAIN frames : Range(frames[id].trail) \subseteq S
    BY DEF TypeOK, IsViews, NavigationLive
  <2>2. ASSUME NEW patch, CommitPatch(patch) PROVE NavigationLive'
    <3>1. DOMAIN frames' = roots
      BY <2>2 DEF CommitPatch, GraphSafeFrames
    <3>2. QED
      BY <2>1, <2>2, <3>1, GraphSafeFramesType DEF CommitPatch, NavigationLive
  <2>3. ASSUME NEW patch, NEW added, NEW preferred, CommitCreation(patch, added, preferred)
        PROVE  NavigationLive'
    <3>1. S \subseteq DOMAIN graph'.nodes \cup dropped' \cup revived'
      BY <2>3 DEF CommitCreation
    <3>2. frames' = CreationFrames(roots \cup added, preferred)
      BY <2>3 DEF CommitCreation
    <3> HIDE DEF S
    <3>3. DOMAIN frames' = roots \cup added
      BY <3>2 DEF CreationFrames
    <3>4. \A id \in roots \cup added : Range(frames'[id].trail) \subseteq S
      BY <2>1, <3>2, CreationFramesLive
    <3>5. QED
      BY <3>1, <3>3, <3>4 DEF NavigationLive
  <2>4. ASSUME NEW added, NEW preferred, OpenRoots(added, preferred)
        PROVE  NavigationLive'
    <3>1. /\ frames' = CreationFrames(roots \cup added, preferred)
          /\ UNCHANGED <<graph, dropped, revived>>
      BY <2>4 DEF OpenRoots
    <3>2. DOMAIN frames' = roots \cup added
      BY <3>1 DEF CreationFrames
    <3> HIDE DEF S
    <3>3. \A id \in roots \cup added : Range(frames'[id].trail) \subseteq S
      BY <2>1, <3>1, CreationFramesLive
    <3>4. QED
      BY <3>1, <3>2, <3>3 DEF NavigationLive, S
  <2>5. ASSUME NEW entry, IsEntry(entry), Restore(entry) PROVE NavigationLive'
    <3>1. \A id \in DOMAIN RestoredFrames(entry) : RestoredFrames(entry)[id] \in Frame
      BY <2>5, RestoredFramesType
    <3>2. DOMAIN frames' = RestoredRoots(entry)
      BY <2>5 DEF Restore, GraphSafeFrames
    <3>3. QED
      BY <2>5, <3>1, <3>2, GraphSafeFramesType DEF Restore, NavigationLive
  <2>6. CASE Undo
    BY <2>5, <2>6, PoppedStackType DEF Undo, TypeOK
  <2>7. CASE Redo
    BY <2>5, <2>7, PoppedStackType DEF Redo, TypeOK
  <2>8. ASSUME NEW id \in NodeIds, CloseProjectionRoot(id) PROVE NavigationLive'
    <3>1. /\ frames' = NormalizeFrames(frames, roots \ {id})
          /\ UNCHANGED <<graph, dropped, revived>>
      BY <2>8 DEF CloseProjectionRoot
    <3>2. DOMAIN frames' = roots \ {id}
      BY <3>1 DEF NormalizeFrames
    <3> HIDE DEF S
    <3>3. \A root \in roots \ {id} : Range(frames'[root].trail) \subseteq S
      BY <2>1, <3>1, CreationFramesLive
    <3>4. QED
      BY <3>1, <3>2, <3>3 DEF NavigationLive, S
  <2>9. ASSUME NEW view \in {Current, rendered}, NEW root, Request(view, root)
        PROVE  NavigationLive'
    <3>1. PICK views : IsViews(views) /\ UpdateViews(views)
      BY <2>9, RequestUpdates
    <3>2. ASSUME NEW id \in DOMAIN views
          PROVE  Range(views[id].trail) \subseteq DOMAIN graph.nodes \cup Stray(views)
      <4>1. Range(views[id].trail) \subseteq (UNION {Range(views[i].trail) : i \in DOMAIN views})
        BY <3>2
      <4>2. QED
        BY <4>1 DEF Stray
    <3>3. QED
      BY <3>1, <3>2 DEF UpdateViews, NavigationLive
  <2>10. CASE UNCHANGED <<graph, frames, dropped, revived>>
    BY <2>10 DEF NavigationLive
  <2>11. QED
    BY <2>2, <2>3, <2>4, <2>6, <2>7, <2>8, <2>9, <2>10
    DEF Next, vars, Select, SelectScoped, Render
<1>3. QED
  BY <1>1, <1>2, TypeCorrect, PTL DEF Spec
-----------------------------------------------------------------------------
(***************************************************************************)
(* Refinement: what the store publishes is a RevisionedGraph.              *)
(***************************************************************************)

\* The instance's validity is that of the session's own kernel.
LEMMA SameValidity == \A nodes : Published!ValidNodes(nodes) <=> ValidNodes(nodes)
<1>1. \A list : Published!Ids(list) = Ids(list) /\ Published!WithinDepth(list) = WithinDepth(list)
  BY DEF Published!Ids, Ids, Published!WithinDepth, WithinDepth
<1>2. Published!Relation = Relation
  BY DEF Published!Relation, Relation, Published!RelationRef, RelationRef
<1>3. \A nodes, ref : Published!Resolves(nodes, ref) <=> Resolves(nodes, ref)
  BY <1>1 DEF Published!Resolves, Resolves
<1>4. \A nodes : Published!Closed(nodes) <=> Closed(nodes)
  BY <1>3 DEF Published!Closed, Closed
<1>5. \A nodes : Published!IsNodes(nodes) <=> IsNodes(nodes)
  BY <1>2 DEF Published!IsNodes, IsNodes
<1>6. \A nodes : Published!Addressable(nodes) <=> Addressable(nodes)
  BY <1>1 DEF Published!Addressable, Addressable
<1>7. QED
  BY <1>4, <1>5, <1>6 DEF Published!ValidNodes, ValidNodes

\* Commits, creations, undos and redos publish the graph as a whole, valid
\* and one revision on; no other operation of the store touches it.
THEOREM SessionImplementsRevisionedGraph == Spec => PublishesRevisions
<1>1. Init => Published!Init
  BY WorkspaceAssumption, SameValidity DEF Init, Published!Init, Published!IsGraph
<1>2. TypeOK /\ [Next]_vars => [Published!Publish]_graph
  <2> SUFFICES ASSUME TypeOK, [Next]_vars PROVE Published!Publish \/ UNCHANGED graph
    OBVIOUS
  <2>1. ASSUME NEW patch, Commits(patch), graph' = Applied(graph, patch)
        PROVE  Published!Publish
    BY <2>1, CommitResult, SameValidity DEF Published!Publish, TypeOK
  <2>2. ASSUME NEW view \in {Current, rendered}, NEW root, Request(view, root)
        PROVE  UNCHANGED graph
    BY <2>2, RequestUpdates DEF UpdateViews
  <2>3. QED
    BY <2>1, <2>2
    DEF Next, vars, CommitPatch, CommitCreation, OpenRoots, Undo, Redo, Restore,
        CloseProjectionRoot, Select, SelectScoped, Render
<1>3. QED
  BY <1>1, <1>2, TypeCorrect, PTL DEF Spec, PublishesRevisions, Published!Spec
-----------------------------------------------------------------------------
(***************************************************************************)
(* The last publication can be taken back.                                 *)
(***************************************************************************)

\* Whether a reference dangles does not depend on the order of relations.
LEMMA ClosedContent ==
  ASSUME NEW nodes, NEW others, SameContent(nodes, others), Closed(others)
  PROVE  Closed(nodes)
<1>1. /\ DOMAIN nodes = DOMAIN others
      /\ \A n \in DOMAIN nodes : Range(nodes[n]) = Range(others[n])
  BY DEF SameContent
<1>2. \A n \in DOMAIN nodes : Ids(nodes[n]) = Ids(others[n])
  <2>1. ASSUME NEW list PROVE Ids(list) = {x.id : x \in Range(list)}
    BY DEF Ids, Range
  <2> QED
    BY <1>1, <2>1
<1>3. ASSUME NEW n \in DOMAIN nodes, NEW i \in DOMAIN nodes[n], NEW ref \in nodes[n][i].refs
      PROVE  Resolves(nodes, ref)
  <2>1. nodes[n][i] \in Range(others[n])
    BY <1>1 DEF Range
  <2>2. PICK j \in DOMAIN others[n] : others[n][j] = nodes[n][i]
    BY <2>1 DEF Range
  <2>3. Resolves(others, ref)
    BY <1>1, <1>3, <2>2 DEF Closed
  <2> QED
    BY <1>1, <1>2, <2>3 DEF Resolves
<1> QED
  BY <1>3 DEF Closed

\* Every entry of a stack holds operations.
Carries(stack) == \A i \in DOMAIN stack : IsOperations(stack[i].patch.operations)

\* The entry applies to the graph and leads back to a closed one.
TakesBack(g, skipped, entry) ==
  /\ entry.patch.base = g.revision
  /\ ~skipped => \E target : /\ Closed(target)
                             /\ LeadsBack(g.nodes, entry.patch.operations, target)

\* One of the stacks has the last publication on top.
TakenBack(g, skipped, undos, redos) ==
  \/ undos # <<>> /\ TakesBack(g, skipped, Last(undos))
  \/ redos # <<>> /\ TakesBack(g, skipped, Last(redos))

ReversibleInv ==
  /\ ValidNodes(graph.nodes)
  /\ InPreorder(graph.nodes)
  /\ Carries(undo)
  /\ Carries(redo)
  /\ graph.revision > InitialGraph.revision => TakenBack(graph, unindexed, undo, redo)

\* Every patch of a caller holds operations.
LEMMA PatchesCarryOperations ==
  ASSUME NEW patch \in Patches PROVE IsOperations(patch.operations)
<1>1. PICK base \in 0 .. MaxRevision, change \in Changes : patch = Patch(base, change)
  BY DEF Patches
<1>2. patch.operations = change
  BY <1>1 DEF Patch
<1>3. /\ change \in Seq(Range(change))
      /\ \A i \in DOMAIN change : IsOperation(change[i])
  BY WorkspaceAssumption
<1>4. DOMAIN change = 1 .. Len(change)
  BY <1>3
<1> QED
  BY <1>2, <1>3, <1>4 DEF IsOperations

\* The entry that a publication leaves takes it back.
LEMMA PublicationIsTakenBack ==
  ASSUME TypeOK, ValidNodes(graph.nodes), InPreorder(graph.nodes),
         NEW patch, Commits(patch), IsOperations(patch.operations),
         NEW entry, entry.patch = InversePatch(graph, patch)
  PROVE  LET next == Applied(graph, patch) IN
         /\ ValidNodes(next.nodes)
         /\ InPreorder(next.nodes)
         /\ IsOperations(entry.patch.operations)
         /\ TakesBack(next, ~StaysIndexed(graph.nodes, patch.operations), entry)
<1> DEFINE result == ApplyOperations(graph.nodes, patch.operations)
           next == Applied(graph, patch)
<1>1. result.accepted /\ ValidNodes(result.nodes)
  BY DEF Commits, Applies
<1>2. /\ next.nodes = result.nodes
      /\ next.revision = graph.revision + 1
      /\ entry.patch.base = graph.revision + 1
      /\ entry.patch.operations = result.inverse
  BY DEF Applied, InversePatch, Patch
<1>3. IsNodes(graph.nodes) /\ Closed(graph.nodes)
  BY DEF ValidNodes
<1> HIDE DEF next, result
<1>4. /\ InPreorder(result.nodes)
      /\ IsOperations(result.inverse)
      /\ StaysIndexed(graph.nodes, patch.operations)
           => LeadsBack(result.nodes, result.inverse, graph.nodes)
  BY <1>1, <1>3, PatchForward DEF result
<1>5. TakesBack(next, ~StaysIndexed(graph.nodes, patch.operations), entry)
  BY <1>2, <1>3, <1>4 DEF TakesBack
<1> QED
  BY <1>1, <1>2, <1>4, <1>5 DEF next

\* Pushing an entry with operations, and what is on top then.
LEMMA PushedCarries ==
  ASSUME NEW stack, stack \in Seq(Range(stack)), Carries(stack),
         NEW entry, IsOperations(entry.patch.operations)
  PROVE  /\ Carries(Append(stack, entry))
         /\ Append(stack, entry) # <<>>
         /\ Last(Append(stack, entry)) = entry
<1> DEFINE pushed == Append(stack, entry)
<1>1. /\ Len(pushed) = Len(stack) + 1
      /\ DOMAIN pushed = 1 .. Len(stack) + 1
      /\ DOMAIN stack = 1 .. Len(stack)
      /\ Len(stack) \in Nat
      /\ \A i \in DOMAIN stack : pushed[i] = stack[i]
      /\ pushed[Len(stack) + 1] = entry
  BY PushStack
<1> HIDE DEF pushed
<1>2. \A i \in DOMAIN pushed : i \in DOMAIN stack \/ i = Len(stack) + 1
  BY <1>1
<1>3. Carries(pushed)
  BY <1>1, <1>2 DEF Carries
<1>4. pushed # <<>>
  BY <1>1
<1>5. Last(pushed) = entry
  BY <1>1 DEF Last
<1> QED
  BY <1>3, <1>4, <1>5 DEF pushed

\* Popping one.
LEMMA PoppedCarries ==
  ASSUME NEW stack, stack \in Seq(Range(stack)), stack # <<>>, Carries(stack)
  PROVE  Carries(Front(stack)) /\ IsOperations(Last(stack).patch.operations)
<1>1. /\ Len(stack) \in Nat \ {0}
      /\ DOMAIN Front(stack) = 1 .. Len(stack) - 1
      /\ DOMAIN stack = 1 .. Len(stack)
      /\ \A i \in DOMAIN Front(stack) : Front(stack)[i] = stack[i]
      /\ Last(stack) = stack[Len(stack)]
  BY PopStack
<1>2. \A i \in DOMAIN Front(stack) : i \in DOMAIN stack
  BY <1>1
<1>3. Len(stack) \in DOMAIN stack
  BY <1>1
<1> QED
  BY <1>1, <1>2, <1>3 DEF Carries

LEMMA ReversibleStep == TypeOK /\ ReversibleInv /\ [Next]_vars => ReversibleInv'
<1> SUFFICES ASSUME TypeOK, ReversibleInv, [Next]_vars PROVE ReversibleInv'
  OBVIOUS
<1>1. /\ ValidNodes(graph.nodes) /\ InPreorder(graph.nodes)
      /\ Carries(undo) /\ Carries(redo)
      /\ undo \in Seq(Range(undo)) /\ redo \in Seq(Range(redo))
  BY DEF ReversibleInv, TypeOK, IsStack
<1>2. Carries(<<>>)
  BY DEF Carries
<1>3. ASSUME NEW patch \in Patches, NEW entry, Commits(patch),
             graph' = Applied(graph, patch),
             unindexed' = ~StaysIndexed(graph.nodes, patch.operations),
             entry.patch = InversePatch(graph, patch),
             undo' = Append(undo, entry), redo' = <<>>
      PROVE  ReversibleInv'
  <2>1. /\ ValidNodes(graph'.nodes) /\ InPreorder(graph'.nodes)
        /\ IsOperations(entry.patch.operations)
        /\ TakesBack(graph', unindexed', entry)
    BY <1>1, <1>3, PatchesCarryOperations, PublicationIsTakenBack
  <2>2. Carries(undo') /\ undo' # <<>> /\ Last(undo') = entry
    BY <1>1, <1>3, <2>1, PushedCarries
  <2> QED
    BY <1>2, <1>3, <2>1, <2>2 DEF ReversibleInv, TakenBack
<1>4. ASSUME NEW patch \in Patches, CommitPatch(patch) PROVE ReversibleInv'
  <2>1. GraphEntry(InversePatch(graph, patch)).patch = InversePatch(graph, patch)
    BY DEF GraphEntry
  <2> QED
    BY <1>3, <1>4, <2>1 DEF CommitPatch
<1>5. ASSUME NEW patch \in Patches, NEW added, NEW preferred,
             CommitCreation(patch, added, preferred)
      PROVE  ReversibleInv'
  <2>1. RootsEntry(InversePatch(graph, patch), roots).patch = InversePatch(graph, patch)
    BY DEF RootsEntry
  <2> QED
    BY <1>3, <1>5, <2>1 DEF CommitCreation
<1>6. ASSUME NEW entry PROVE InverseEntry(entry).patch = InversePatch(graph, entry.patch)
  BY DEF InverseEntry, GraphEntry, ViewsEntry
<1>7. CASE Undo
  <2> DEFINE entry == InverseEntry(Last(undo))
  <2>1. /\ undo # <<>> /\ Commits(Last(undo).patch)
        /\ graph' = Applied(graph, Last(undo).patch)
        /\ unindexed' = ~StaysIndexed(graph.nodes, Last(undo).patch.operations)
        /\ undo' = Front(undo)
        /\ redo' = Append(redo, entry)
    BY <1>7 DEF Undo, Restore
  <2>2. entry.patch = InversePatch(graph, Last(undo).patch)
    BY <1>6
  <2> HIDE DEF entry
  <2>3. Carries(undo') /\ IsOperations(Last(undo).patch.operations)
    BY <1>1, <2>1, PoppedCarries
  <2>4. /\ ValidNodes(graph'.nodes) /\ InPreorder(graph'.nodes)
        /\ IsOperations(entry.patch.operations)
        /\ TakesBack(graph', unindexed', entry)
    BY <1>1, <2>1, <2>2, <2>3, PublicationIsTakenBack
  <2>5. Carries(redo') /\ redo' # <<>> /\ Last(redo') = entry
    BY <1>1, <2>1, <2>4, PushedCarries
  <2> QED
    BY <2>3, <2>4, <2>5 DEF ReversibleInv, TakenBack
<1>8. CASE Redo
  <2> DEFINE entry == InverseEntry(Last(redo))
  <2>1. /\ redo # <<>> /\ Commits(Last(redo).patch)
        /\ graph' = Applied(graph, Last(redo).patch)
        /\ unindexed' = ~StaysIndexed(graph.nodes, Last(redo).patch.operations)
        /\ redo' = Front(redo)
        /\ undo' = Append(undo, entry)
    BY <1>8 DEF Redo, Restore
  <2>2. entry.patch = InversePatch(graph, Last(redo).patch)
    BY <1>6
  <2> HIDE DEF entry
  <2>3. Carries(redo') /\ IsOperations(Last(redo).patch.operations)
    BY <1>1, <2>1, PoppedCarries
  <2>4. /\ ValidNodes(graph'.nodes) /\ InPreorder(graph'.nodes)
        /\ IsOperations(entry.patch.operations)
        /\ TakesBack(graph', unindexed', entry)
    BY <1>1, <2>1, <2>2, <2>3, PublicationIsTakenBack
  <2>5. Carries(undo') /\ undo' # <<>> /\ Last(undo') = entry
    BY <1>1, <2>1, <2>4, PushedCarries
  <2> QED
    BY <2>3, <2>4, <2>5 DEF ReversibleInv, TakenBack
<1>9. CASE UNCHANGED <<graph, undo, redo, unindexed>>
  BY <1>9 DEF ReversibleInv
<1>10. ASSUME NEW view \in {Current, rendered}, NEW root, Request(view, root)
       PROVE  UNCHANGED <<graph, undo, redo, unindexed>>
  BY <1>10, RequestUpdates DEF UpdateViews
<1> QED
  BY <1>4, <1>5, <1>7, <1>8, <1>9, <1>10
  DEF Next, vars, OpenRoots, CloseProjectionRoot, Select, SelectScoped, Render

\* The last publication can be taken back, whatever was selected, opened or
\* closed since, for every document and every patch that keeps its graph
\* indexable (workspace-store.ts:212, 236, 249, 262-263).
THEOREM LastChangeCanBeTakenBack == Spec => []LastChangeIsReversible
<1>1. Init => ReversibleInv
  <2> SUFFICES ASSUME Init PROVE ReversibleInv
    OBVIOUS
  <2>1. graph = InitialGraph /\ undo = <<>> /\ redo = <<>>
    BY DEF Init
  <2>2. ~(InitialGraph.revision > InitialGraph.revision)
    BY WorkspaceAssumption
  <2> QED
    BY <2>1, <2>2, WorkspaceAssumption DEF ReversibleInv, Carries
<1>2. TypeOK /\ ReversibleInv => LastChangeIsReversible
  <2> SUFFICES ASSUME TypeOK, ReversibleInv,
                      graph.revision > InitialGraph.revision, ~unindexed
               PROVE  \/ undo # <<>> /\ Applies(graph, Last(undo).patch)
                      \/ redo # <<>> /\ Applies(graph, Last(redo).patch)
    BY DEF LastChangeIsReversible
  <2>1. /\ ValidNodes(graph.nodes) /\ InPreorder(graph.nodes)
        /\ Carries(undo) /\ Carries(redo)
        /\ TakenBack(graph, unindexed, undo, redo)
        /\ undo \in Seq(Range(undo)) /\ redo \in Seq(Range(redo))
    BY DEF ReversibleInv, TypeOK, IsStack
  <2>2. Indexed(graph.nodes)
    BY <2>1 DEF Indexed, ValidNodes
  <2>3. ASSUME NEW entry, TakesBack(graph, unindexed, entry),
               IsOperations(entry.patch.operations)
        PROVE  Applies(graph, entry.patch)
    <3> DEFINE result == ApplyOperations(graph.nodes, entry.patch.operations)
    <3>1. entry.patch.base = graph.revision
      BY <2>3 DEF TakesBack
    <3>2. PICK target : Closed(target) /\ LeadsBack(graph.nodes, entry.patch.operations, target)
      BY <2>3 DEF TakesBack
    <3>3. result.accepted /\ Indexed(result.nodes) /\ SameContent(result.nodes, target)
      BY <2>2, <2>3, <3>2, LedBack
    <3> HIDE DEF result
    <3>4. Closed(result.nodes)
      BY <3>2, <3>3, ClosedContent
    <3>5. ValidNodes(result.nodes)
      BY <3>3, <3>4 DEF Indexed, ValidNodes
    <3> QED
      BY <3>1, <3>3, <3>5 DEF Applies, result
  <2>4. ASSUME NEW stack, stack \in Seq(Range(stack)), Carries(stack), stack # <<>>,
               TakesBack(graph, unindexed, Last(stack))
        PROVE  Applies(graph, Last(stack).patch)
    BY <2>3, <2>4, PoppedCarries
  <2> QED
    BY <2>1, <2>4 DEF TakenBack
<1> QED
  BY <1>1, <1>2, ReversibleStep, TypeCorrect, PTL DEF Spec
=============================================================================
