------------------------- MODULE ClientListsProofs -------------------------
(***************************************************************************)
(* What filtering a list, moving one of its elements and joining lists do, *)
(* for lists of any elements and any length: the result is a list of the   *)
(* same elements, each from a place of its own.                            *)
(***************************************************************************)
EXTENDS ClientLists, SequenceTheorems, FiniteSetTheorems, WellFoundedInduction, TLAPS

LEMMA LeastNumber ==
  ASSUME NEW T \in SUBSET Nat, T # {}
  PROVE  \E n \in T : \A m \in T : n <= m
<1> DEFINE R == OpToRel(<, Nat)
<1>1. IsWellFoundedOn(R, Nat)
      BY NatLessThanWellFounded
<1>2. \A m, n \in Nat : m < n => <<m, n>> \in R
      BY DEF OpToRel
<1> HIDE DEF R
<1>3. PICK n \in T : \A m \in T : ~ (<<m, n>> \in R)
      BY <1>1, WFMin
<1>4. \A m \in T : ~ (m < n)
      BY <1>2, <1>3
<1> QED BY <1>4

-----------------------------------------------------------------------------
(* Filtering.  The element at place i becomes the one numbered with the    *)
(* elements that stay up to i.                                             *)

Upto(keep, i) == {j \in keep : j <= i}

LEMMA Numbered ==
  ASSUME NEW n \in Nat, NEW keep \in SUBSET (1..n)
  PROVE  /\ IsFiniteSet(keep) /\ Cardinality(keep) \in Nat
         /\ \A i \in keep : Cardinality(Upto(keep, i)) \in 1..Cardinality(keep)
         /\ \A i, j \in keep : i < j => Cardinality(Upto(keep, i)) < Cardinality(Upto(keep, j))
<1>1. IsFiniteSet(1..n)
      BY FS_Interval
<1>2. IsFiniteSet(keep)
      BY <1>1, FS_Subset
<1>3. Cardinality(keep) \in Nat
      BY <1>2, FS_CardinalityType
<1>4. ASSUME NEW i \in keep
      PROVE  /\ IsFiniteSet(Upto(keep, i)) /\ Cardinality(Upto(keep, i)) \in 1..Cardinality(keep)
             /\ i \in Upto(keep, i)
      <2>1. Upto(keep, i) \in SUBSET keep /\ i \in Upto(keep, i)
            BY DEF Upto
      <2>2. IsFiniteSet(Upto(keep, i)) /\ Cardinality(Upto(keep, i)) <= Cardinality(keep)
            BY <1>2, <2>1, FS_Subset
      <2>3. Cardinality(Upto(keep, i)) \in Nat /\ Cardinality(Upto(keep, i)) # 0
            BY <2>1, <2>2, FS_CardinalityType, FS_EmptySet
      <2> QED BY <1>3, <2>1, <2>2, <2>3
<1>5. ASSUME NEW i \in keep, NEW j \in keep, i < j
      PROVE  Cardinality(Upto(keep, i)) < Cardinality(Upto(keep, j))
      <2>1. Upto(keep, i) \in SUBSET Upto(keep, j) /\ j \notin Upto(keep, i)
            <3>1. i \in Int /\ j \in Int /\ \A m \in keep : m \in Int
                  OBVIOUS
            <3>2. ~ (j <= i) /\ \A m \in keep : m <= i => m <= j
                  BY <1>5, <3>1
            <3> QED BY <3>2 DEF Upto
      <2>2. /\ Cardinality(Upto(keep, i)) <= Cardinality(Upto(keep, j))
            /\ Cardinality(Upto(keep, i)) # Cardinality(Upto(keep, j))
            BY <1>4, <2>1, FS_Subset
      <2> QED BY <1>3, <1>4, <2>2
<1> QED BY <1>2, <1>3, <1>4, <1>5

LEMMA Places ==
  ASSUME NEW n \in Nat, NEW keep \in SUBSET (1..n), NEW k \in 1..Cardinality(keep)
  PROVE  \E i \in keep : Cardinality(Upto(keep, i)) = k
<1> DEFINE number == [i \in keep |-> Cardinality(Upto(keep, i))]
           c == Cardinality(keep)
<1>1. /\ IsFiniteSet(keep) /\ c \in Nat /\ number \in [keep -> 1..c]
      /\ \A i, j \in keep : i # j => number[i] # number[j]
      <2>1. /\ IsFiniteSet(keep) /\ c \in Nat /\ number \in [keep -> 1..c]
            /\ \A i, j \in keep : i < j => number[i] < number[j]
            BY Numbered
      <2> HIDE DEF number, c
      <2> QED BY <2>1
<1> HIDE DEF number
<1>2. number \in Injection(keep, 1..c)
      BY <1>1 DEF Injection, IsInjective
<1>3. IsFiniteSet(1..c) /\ Cardinality(1..c) = c
      BY <1>1, FS_Interval
<1>4. number \in Surjection(keep, 1..c)
      BY <1>2, <1>3, FS_Injection
<1>5. \E i \in keep : number[i] = k
      BY <1>4 DEF Surjection
<1> QED BY <1>5 DEF number

(* Every element of a filtered list is from a place that was kept, no two  *)
(* from the same, and none that was kept is missing.                       *)
FromPlaces(t, s, p, keep) ==
  /\ p \in [1..Len(t) -> keep] /\ \A k \in 1..Len(t) : t[k] = s[p[k]]
  /\ \A k, l \in 1..Len(t) : k # l => p[k] # p[l]
  /\ \A i \in keep : \E k \in 1..Len(t) : p[k] = i

(* The places, in the order of the list                                    *)
Ascending(t, p) == \A k, l \in 1..Len(t) : k < l => p[k] < p[l]

LEMMA FilteredList ==
  ASSUME NEW S, NEW s \in Seq(S), NEW keep \in SUBSET DOMAIN s
  PROVE  /\ Filtered(s, keep) \in Seq(S) /\ Len(Filtered(s, keep)) = Cardinality(keep)
         /\ DOMAIN Filtered(s, keep) = 1..Len(Filtered(s, keep))
         /\ \E p : FromPlaces(Filtered(s, keep), s, p, keep) /\ Ascending(Filtered(s, keep), p)
<1> DEFINE c == Cardinality(keep)
           place(k) == CHOOSE i \in keep : Cardinality({j \in keep : j <= i}) = k
           p == [k \in 1..c |-> place(k)]
<1>1. Len(s) \in Nat /\ keep \in SUBSET (1..Len(s)) /\ s \in [1..Len(s) -> S]
      BY LenProperties
<1>2. c \in Nat
      BY <1>1, Numbered
<1>3. ASSUME NEW k \in 1..c
      PROVE  p[k] \in keep /\ Cardinality(Upto(keep, p[k])) = k
      <2>1. \E i \in keep : Cardinality({j \in keep : j <= i}) = k
            BY <1>1, Places DEF Upto
      <2> QED BY <2>1 DEF Upto
<1>4. Filtered(s, keep) = [k \in 1..c |-> s[p[k]]]
      BY DEF Filtered
<1> HIDE DEF p
<1> DEFINE t == Filtered(s, keep)
<1>5. t \in [1..c -> S]
      BY <1>1, <1>3, <1>4
<1>6. t \in Seq(S) /\ Len(t) = c /\ DOMAIN t = 1..c
      BY <1>2, <1>5, LenProperties
<1>7. p \in [1..c -> keep]
      BY <1>3 DEF p
<1>8. ASSUME NEW i \in keep PROVE \E k \in 1..c : p[k] = i
      <2> DEFINE k == Cardinality(Upto(keep, i))
      <2>1. k \in 1..c /\ p[k] \in keep /\ Cardinality(Upto(keep, p[k])) = k
            BY <1>1, <1>3, Numbered
      <2>2. ~ (p[k] < i) /\ ~ (i < p[k])
            <3>1. \A l, m \in keep : l < m => Cardinality(Upto(keep, l)) < Cardinality(Upto(keep, m))
                  BY <1>1, Numbered
            <3>2. k \in Int /\ k = Cardinality(Upto(keep, i))
                  BY <2>1
            <3> HIDE DEF k
            <3> QED BY <2>1, <3>1, <3>2
      <2>3. p[k] = i
            BY <1>1, <2>1, <2>2
      <2> QED BY <2>1, <2>3
<1>9. FromPlaces(t, s, p, keep)
      <2>1. \A k \in 1..c : t[k] = s[p[k]]
            BY <1>4
      <2>2. \A k, l \in 1..c : k # l => p[k] # p[l]
            BY <1>3
      <2> HIDE DEF t
      <2> QED BY <1>6, <1>7, <1>8, <2>1, <2>2 DEF FromPlaces
<1>10. ASSUME NEW k \in 1..c, NEW l \in 1..c, k < l PROVE p[k] < p[l]
       <2>1. p[k] \in keep /\ p[l] \in keep /\ p[k] \in Int /\ p[l] \in Int
             BY <1>1, <1>3
       <2>2. p[k] # p[l]
             BY <1>3, <1>10
       <2>3. p[l] < p[k] => Cardinality(Upto(keep, p[l])) < Cardinality(Upto(keep, p[k]))
             BY <1>1, <2>1, Numbered
       <2>4. ~ (p[l] < p[k])
             BY <1>3, <1>10, <2>3
       <2> QED BY <2>1, <2>2, <2>4
<1>11. Ascending(t, p)
       <2> HIDE DEF t
       <2> QED BY <1>6, <1>10 DEF Ascending
<1> QED BY <1>6, <1>9, <1>11

(* A list from which nothing is taken stays as it was.                     *)
LEMMA FilteredWhole ==
  ASSUME NEW S, NEW s \in Seq(S) PROVE Filtered(s, DOMAIN s) = s
<1> DEFINE n == Len(s)
<1>1. n \in Nat /\ DOMAIN s = 1..n /\ s \in [1..n -> S]
      BY LenProperties
<1>2. ASSUME NEW i \in 1..n PROVE Cardinality({j \in 1..n : j <= i}) = i
      <2>1. {j \in 1..n : j <= i} = 1..i
            BY <1>1
      <2>2. Cardinality(1..i) = i
            BY <1>1, FS_Interval
      <2> QED BY <2>1, <2>2
<1>3. Cardinality(1..n) = n
      BY <1>1, FS_Interval
<1>4. ASSUME NEW k \in 1..n
      PROVE  (CHOOSE i \in 1..n : Cardinality({j \in 1..n : j <= i}) = k) = k
      BY <1>2
<1> HIDE DEF n
<1>5. Filtered(s, DOMAIN s) = [k \in 1..n |-> s[k]]
      BY <1>1, <1>3, <1>4 DEF Filtered
<1> QED BY <1>1, <1>5

-----------------------------------------------------------------------------
(* Moving an element                                                       *)

(* The place that the element at place k of the moved list comes from      *)
Origin(i, j, k) == IF k = j THEN i
                   ELSE LET m == IF k < j THEN k ELSE k - 1 IN IF m < i THEN m ELSE m + 1

LEMMA Origins ==
  ASSUME NEW n \in Nat, NEW i \in 1..n, NEW j \in 1..n
  PROVE  /\ \A k \in 1..n : Origin(i, j, k) \in 1..n
         /\ \A k, l \in 1..n : k # l => Origin(i, j, k) # Origin(i, j, l)
         /\ \A m \in 1..n : \E k \in 1..n : Origin(i, j, k) = m
<1>1. \A k \in 1..n : Origin(i, j, k) \in 1..n
      BY DEF Origin
<1>2. \A k, l \in 1..n : k # l => Origin(i, j, k) # Origin(i, j, l)
      BY DEF Origin
<1>3. ASSUME NEW m \in 1..n PROVE \E k \in 1..n : Origin(i, j, k) = m
      <2> DEFINE o == IF m < i THEN m ELSE m - 1
                 k == IF m = i THEN j ELSE IF o < j THEN o ELSE o + 1
      <2>1. k \in 1..n /\ Origin(i, j, k) = m
            BY DEF Origin
      <2> QED BY <2>1
<1> QED BY <1>1, <1>2, <1>3

LEMMA MovedList ==
  ASSUME NEW S, NEW s \in Seq(S), NEW i \in DOMAIN s, NEW j \in DOMAIN s
  PROVE  /\ Moved(s, i, j) \in Seq(S) /\ Len(Moved(s, i, j)) = Len(s)
         /\ DOMAIN Moved(s, i, j) = DOMAIN s
         /\ \A k \in DOMAIN s : Moved(s, i, j)[k] = s[Origin(i, j, k)]
         /\ \E p : FromPlaces(Moved(s, i, j), s, p, DOMAIN s)
<1> DEFINE n == Len(s)
           a == SubSeq(s, 1, i-1)
           b == SubSeq(s, i+1, n)
           r == RemoveAt(s, i)
           d == SubSeq(r, 1, j-1)
           f == SubSeq(r, j, Len(r))
           e == s[i]
           t == Moved(s, i, j)
<1>1. n \in Nat /\ DOMAIN s = 1..n /\ s \in [1..n -> S] /\ i \in 1..n /\ j \in 1..n /\ e \in S
      BY LenProperties
<1>2. /\ a \in Seq(S) /\ Len(a) = i-1 /\ \A k \in 1..i-1 : a[k] = s[k]
      BY <1>1, SubSeqProperties
<1>3. /\ b \in Seq(S) /\ Len(b) = n-i /\ \A k \in 1..n-i : b[k] = s[i+k]
      <2>1. \A k \in i+1..n : s[k] \in S
            BY <1>1
      <2>2. /\ b \in Seq(S) /\ Len(b) = (IF i+1 <= n THEN n-(i+1)+1 ELSE 0)
            /\ \A k \in 1..n-(i+1)+1 : b[k] = s[(i+1)+k-1]
            BY <1>1, <2>1, SubSeqProperties
      <2> QED BY <1>1, <2>2
<1>4. r = a \o b
      BY DEF RemoveAt
<1> HIDE DEF a, b
<1>5. /\ r \in Seq(S) /\ Len(r) = n-1
      /\ \A k \in 1..n-1 : r[k] = IF k < i THEN s[k] ELSE s[k+1]
      <2> HIDE DEF r
      <2>1. /\ a \o b \in Seq(S) /\ Len(a \o b) = Len(a) + Len(b)
            /\ \A k \in 1..Len(a)+Len(b) : (a \o b)[k] = IF k <= Len(a) THEN a[k] ELSE b[k - Len(a)]
            BY <1>2, <1>3, ConcatProperties
      <2>2. Len(a) = i-1 /\ Len(b) = n-i /\ Len(a) + Len(b) = n-1
            BY <1>1, <1>2, <1>3
      <2>3. ASSUME NEW k \in 1..n-1 PROVE r[k] = IF k < i THEN s[k] ELSE s[k+1]
            <3>1. r[k] = IF k <= i-1 THEN a[k] ELSE b[k - (i-1)]
                  BY <1>4, <2>1, <2>2
            <3>2. CASE k < i
                  BY <1>1, <1>2, <3>1, <3>2
            <3>3. CASE ~ (k < i)
                  <4>1. r[k] = b[k - (i-1)] /\ k - (i-1) \in 1..n-i
                        BY <1>1, <3>1, <3>3
                  <4>2. r[k] = s[i + (k - (i-1))] /\ i + (k - (i-1)) = k+1
                        BY <1>1, <1>3, <4>1
                  <4> QED BY <3>3, <4>2
            <3> QED BY <3>2, <3>3
      <2> QED BY <1>4, <2>1, <2>2, <2>3
<1> HIDE DEF r
<1>6. r \in [1..n-1 -> S]
      BY <1>1, <1>5, LenProperties
<1>7. /\ d \in Seq(S) /\ Len(d) = j-1 /\ \A k \in 1..j-1 : d[k] = r[k]
      BY <1>1, <1>6, SubSeqProperties
<1>8. /\ f \in Seq(S) /\ Len(f) = n-j /\ \A k \in 1..n-j : f[k] = r[j+k-1]
      <2>1. \A k \in j..n-1 : r[k] \in S
            BY <1>1, <1>6
      <2>2. f = SubSeq(r, j, n-1)
            BY <1>5
      <2>3. /\ f \in Seq(S) /\ Len(f) = (IF j <= n-1 THEN (n-1)-j+1 ELSE 0)
            /\ \A k \in 1..(n-1)-j+1 : f[k] = r[j+k-1]
            BY <1>1, <2>1, <2>2, SubSeqProperties
      <2>4. (n-1)-j+1 = n-j /\ (j <= n-1 <=> j # n)
            BY <1>1
      <2> HIDE DEF f
      <2> QED BY <1>1, <2>3, <2>4
<1>9. t = (d \o <<e>>) \o f
      BY DEF Moved, InsertAt, r
<1> HIDE DEF d, f, e
<1>10. /\ d \o <<e>> \in Seq(S) /\ Len(d \o <<e>>) = j
       /\ \A k \in 1..j : (d \o <<e>>)[k] = IF k < j THEN d[k] ELSE e
       <2>1. <<e>> \in Seq(S) /\ Len(<<e>>) = 1 /\ <<e>>[1] = e
             BY <1>1
       <2>2. /\ d \o <<e>> \in Seq(S) /\ Len(d \o <<e>>) = Len(d) + 1
             /\ \A k \in 1..Len(d)+1 : (d \o <<e>>)[k] = IF k <= Len(d) THEN d[k] ELSE <<e>>[k - Len(d)]
             BY <1>7, <2>1, ConcatProperties
       <2> QED BY <1>1, <1>7, <2>1, <2>2
<1>11. /\ t \in Seq(S) /\ Len(t) = n
       /\ \A k \in 1..n : t[k] = IF k < j THEN d[k] ELSE IF k = j THEN e ELSE f[k-j]
       <2> DEFINE g == d \o <<e>>
       <2>1. g \in Seq(S) /\ Len(g) = j
             BY <1>10
       <2>2. \A k \in 1..j : g[k] = IF k < j THEN d[k] ELSE e
             BY <1>10
       <2>3. t = g \o f
             BY <1>9
       <2> HIDE DEF g, t
       <2> HIDE DEF g
       <2>4. /\ g \o f \in Seq(S) /\ Len(g \o f) = Len(g) + Len(f)
             /\ \A k \in 1..Len(g)+Len(f) : (g \o f)[k] = IF k <= Len(g) THEN g[k] ELSE f[k-Len(g)]
             BY <1>8, <2>1, ConcatProperties
       <2>5. Len(g) = j /\ Len(g) + Len(f) = n
             BY <1>1, <1>8, <2>1
       <2> QED BY <1>1, <2>2, <2>3, <2>4, <2>5
<1>12. \A k \in 1..n : t[k] = s[Origin(i, j, k)]
       <2> SUFFICES ASSUME NEW k \in 1..n PROVE t[k] = s[Origin(i, j, k)]
           OBVIOUS
       <2>1. CASE k < j
             <3>1. t[k] = r[k] /\ k \in 1..n-1
                   BY <1>1, <1>7, <1>11, <2>1
             <3> QED BY <1>1, <1>5, <2>1, <3>1 DEF Origin
       <2>2. CASE k = j
             BY <1>11, <2>2 DEF Origin, e
       <2>3. CASE k > j
             <3>1. t[k] = f[k-j] /\ k-j \in 1..n-j
                   BY <1>1, <1>11, <2>3
             <3>2. f[k-j] = r[k-1] /\ k-1 \in 1..n-1
                   BY <1>1, <1>8, <2>3, <3>1
             <3> QED BY <1>1, <1>5, <2>3, <3>1, <3>2 DEF Origin
       <2> QED BY <1>1, <2>1, <2>2, <2>3
<1>13. DOMAIN t = 1..n
       BY <1>11, LenProperties
<1> HIDE DEF t
<1> DEFINE p == [k \in 1..n |-> Origin(i, j, k)]
<1>14. FromPlaces(t, s, p, DOMAIN s)
       <2>1. /\ \A k \in 1..n : Origin(i, j, k) \in 1..n
             /\ \A k, l \in 1..n : k # l => Origin(i, j, k) # Origin(i, j, l)
             /\ \A m \in 1..n : \E k \in 1..n : Origin(i, j, k) = m
             BY <1>1, Origins
       <2>2. \A k \in 1..n : p[k] = Origin(i, j, k)
             OBVIOUS
       <2>3. p \in [1..n -> 1..n]
             BY <2>1
       <2> HIDE DEF p
       <2>4. \A k, l \in 1..n : k # l => p[k] # p[l]
             BY <2>1, <2>2
       <2>5. \A m \in 1..n : \E k \in 1..n : p[k] = m
             BY <2>1, <2>2
       <2>6. \A k \in 1..n : t[k] = s[p[k]]
             BY <1>12, <2>2
       <2> QED BY <1>1, <1>11, <2>3, <2>4, <2>5, <2>6 DEF FromPlaces
<1> HIDE DEF p
<1>15. \E o : FromPlaces(t, s, o, DOMAIN s)
       BY <1>14
<1> QED BY <1>1, <1>11, <1>12, <1>13, <1>15 DEF t

-----------------------------------------------------------------------------
(* Changing the elements in place, and adding one                          *)

LEMMA MappedList ==
  ASSUME NEW S, NEW T, NEW s \in Seq(S), NEW t, DOMAIN t = DOMAIN s, t = [i \in DOMAIN s |-> t[i]],
         \A i \in DOMAIN s : t[i] \in T
  PROVE  t \in Seq(T) /\ Len(t) = Len(s)
<1>1. Len(s) \in Nat /\ DOMAIN s = 1..Len(s)
      BY LenProperties
<1>2. t \in [1..Len(s) -> T]
      BY <1>1
<1>3. t \in Seq(T)
      BY <1>1, <1>2
<1>4. Len(t) \in Nat /\ 1..Len(t) = 1..Len(s)
      BY <1>1, <1>3, LenProperties
<1> QED BY <1>1, <1>3, <1>4

LEMMA AppendedList ==
  ASSUME NEW S, NEW s \in Seq(S), NEW e \in S
  PROVE  /\ Append(s, e) \in Seq(S) /\ DOMAIN s \subseteq DOMAIN Append(s, e)
         /\ \A i \in DOMAIN s : Append(s, e)[i] = s[i]
         /\ \A i \in DOMAIN Append(s, e) : i \notin DOMAIN s => Append(s, e)[i] = e
         /\ \A i, j \in DOMAIN Append(s, e) : i \notin DOMAIN s /\ j \notin DOMAIN s => i = j
<1> DEFINE t == Append(s, e)
<1>1. /\ t \in Seq(S) /\ Len(t) = Len(s) + 1 /\ t[Len(s) + 1] = e
      /\ \A i \in 1..Len(s) : t[i] = s[i]
      BY AppendProperties
<1> HIDE DEF t
<1>2. Len(s) \in Nat /\ DOMAIN s = 1..Len(s) /\ DOMAIN t = 1..(Len(s) + 1)
      BY <1>1, LenProperties
<1>3. \A i \in DOMAIN t : i \notin DOMAIN s => i = Len(s) + 1
      BY <1>2
<1>4. DOMAIN s \subseteq DOMAIN t
      BY <1>2
<1> QED BY <1>1, <1>2, <1>3, <1>4 DEF t

-----------------------------------------------------------------------------
(* Joining lists                                                           *)

LEMMA FlattenExists ==
  ASSUME NEW seqs, NEW n \in Nat
  PROVE  \E f : f = [i \in 1..n |-> IF i = 1 THEN seqs[i] ELSE f[i-1] \o seqs[i]]
<1> DEFINE Is(f, m) == f = [i \in 1..m |-> IF i = 1 THEN seqs[i] ELSE f[i-1] \o seqs[i]]
           None == {m \in Nat : ~ \E f : Is(f, m)}
<1>1. ASSUME None # {} PROVE FALSE
      <2>1. PICK m \in None : \A o \in None : m <= o
            <3> HIDE DEF None
            <3>1. None \in SUBSET Nat
                  BY DEF None
            <3> QED BY <1>1, <3>1, LeastNumber
      <2>2. CASE m = 0
            <3>1. Is(<<>>, 0)
                  OBVIOUS
            <3> QED BY <2>1, <2>2, <3>1
      <2>3. CASE m # 0
            <3>1. m-1 \in Nat /\ m-1 \notin None
                  <4>1. m \in Nat /\ m-1 \in Nat /\ ~ (m <= m-1)
                        BY <2>3
                  <4> HIDE DEF None
                  <4> QED BY <2>1, <4>1
            <3>2. PICK f : Is(f, m-1)
                  BY <3>1
            <3> DEFINE g == [i \in 1..m |-> IF i < m THEN f[i]
                                            ELSE IF i = 1 THEN seqs[i] ELSE f[i-1] \o seqs[i]]
            <3>3. ASSUME NEW i \in 1..m
                  PROVE  g[i] = IF i = 1 THEN seqs[i] ELSE g[i-1] \o seqs[i]
                  <4>1. CASE i < m
                        <5>1. i \in 1..m-1 /\ g[i] = f[i] /\ (i # 1 => i-1 \in 1..m /\ g[i-1] = f[i-1])
                              BY <2>1, <4>1
                        <5>2. f[i] = IF i = 1 THEN seqs[i] ELSE f[i-1] \o seqs[i]
                              BY <3>2, <5>1
                        <5> QED BY <5>1, <5>2
                  <4>2. CASE i = m
                        <5>1. i # 1 => i-1 \in 1..m /\ g[i-1] = f[i-1]
                              BY <2>1, <4>2
                        <5> QED BY <4>2, <5>1
                  <4> QED BY <2>1, <4>1, <4>2
            <3>4. Is(g, m)
                  <4>1. DOMAIN g = 1..m /\ g = [i \in 1..m |-> g[i]]
                        OBVIOUS
                  <4> HIDE DEF g
                  <4> QED BY <3>3, <4>1
            <3> QED BY <2>1, <3>4
      <2> QED BY <2>2, <2>3
<1> QED BY <1>1

LEMMA FlattenType ==
  ASSUME NEW S, NEW seqs \in Seq(Seq(S)) PROVE FlattenSeq(seqs) \in Seq(S)
<1> DEFINE n == Len(seqs)
           Is(f) == f = [i \in 1..n |-> IF i = 1 THEN seqs[i] ELSE f[i-1] \o seqs[i]]
           flatten == CHOOSE f : Is(f)
<1>1. n \in Nat /\ seqs \in [1..n -> Seq(S)]
      BY LenProperties
<1>2. CASE n = 0
      <2>1. FlattenSeq(seqs) = seqs /\ seqs = <<>>
            BY <1>1, <1>2 DEF FlattenSeq
      <2> QED BY <2>1
<1>3. CASE n # 0
      <2>1. Is(flatten)
            <3>1. \E f : Is(f)
                  BY <1>1, FlattenExists
            <3> QED BY <3>1
      <2>2. FlattenSeq(seqs) = flatten[n]
            BY <1>3 DEF FlattenSeq
      <2>3. \A i \in 1..n : flatten[i] = IF i = 1 THEN seqs[i] ELSE flatten[i-1] \o seqs[i]
            BY <2>1
      <2> HIDE DEF flatten
      <2> DEFINE Wrong == {i \in 1..n : flatten[i] \notin Seq(S)}
      <2>4. ASSUME Wrong # {} PROVE FALSE
            <3>1. PICK i \in Wrong : \A j \in Wrong : i <= j
                  <4>1. Wrong \in SUBSET Nat
                        OBVIOUS
                  <4> HIDE DEF Wrong
                  <4> QED BY <2>4, <4>1, LeastNumber
            <3>2. i \in 1..n /\ seqs[i] \in Seq(S)
                  BY <1>1
            <3>3. CASE i = 1
                  BY <2>3, <3>1, <3>2, <3>3
            <3>4. CASE i # 1
                  <4>1. i-1 \in 1..n /\ flatten[i-1] \in Seq(S)
                        BY <1>1, <3>1, <3>4
                  <4>2. flatten[i-1] \o seqs[i] \in Seq(S)
                        BY <3>2, <4>1, ConcatProperties
                  <4> QED BY <2>3, <3>1, <3>2, <3>4, <4>2
            <3> QED BY <3>3, <3>4
      <2> QED BY <1>1, <1>3, <2>2, <2>4
<1> QED BY <1>2, <1>3

-----------------------------------------------------------------------------
(* Lists of all elements of a set, sorted                                  *)

(* The lists of a finite set are those that have each of its elements once.*)
LEMMA ListsOfSet ==
  ASSUME NEW S, IsFiniteSet(S), NEW s
  PROVE  s \in SetToSeqs(S) <=>
           /\ s \in Seq(S) /\ \A i, j \in DOMAIN s : i # j => s[i] # s[j]
           /\ \A x \in S : \E i \in DOMAIN s : s[i] = x
<1> DEFINE c == Cardinality(S)
<1>1. c \in Nat /\ IsFiniteSet(1..c) /\ Cardinality(1..c) = c
      <2>1. c \in Nat
            BY FS_CardinalityType
      <2> HIDE DEF c
      <2>2. 1 \in Int /\ c \in Int
            BY <2>1
      <2>3. IsFiniteSet(1..c) /\ Cardinality(1..c) = IF 1 > c THEN 0 ELSE c - 1 + 1
            BY <2>2, FS_Interval
      <2> QED BY <2>1, <2>3
<1>2. SetToSeqs(S) = {f \in [1..c -> S] : \A i, j \in 1..c : i # j => f[i] # f[j]}
      BY DEF SetToSeqs
<1>3. ASSUME s \in SetToSeqs(S)
      PROVE  /\ s \in Seq(S) /\ \A i, j \in DOMAIN s : i # j => s[i] # s[j]
             /\ \A x \in S : \E i \in DOMAIN s : s[i] = x
      <2>1. s \in [1..c -> S] /\ \A i, j \in 1..c : i # j => s[i] # s[j]
            BY <1>2, <1>3
      <2>2. s \in Injection(1..c, S)
            BY <2>1 DEF Injection, IsInjective
      <2>3. s \in Surjection(1..c, S)
            BY <1>1, <2>2, FS_Injection
      <2> HIDE DEF c
      <2> QED BY <1>1, <2>1, <2>3 DEF Surjection
<1>4. ASSUME s \in Seq(S), \A i, j \in DOMAIN s : i # j => s[i] # s[j],
             \A x \in S : \E i \in DOMAIN s : s[i] = x
      PROVE  s \in SetToSeqs(S)
      <2> DEFINE n == Len(s)
      <2>1. n \in Nat /\ DOMAIN s = 1..n /\ s \in [1..n -> S]
            BY <1>4, LenProperties
      <2> HIDE DEF n
      <2>2. s \in Bijection(1..n, S)
            BY <1>4, <2>1 DEF Bijection, Injection, IsInjective, Surjection
      <2>3. ExistsBijection(1..n, S)
            BY <2>2 DEF ExistsBijection
      <2>4. c = n
            BY <2>1, <2>3, FS_CountingElements
      <2> HIDE DEF c
      <2> QED BY <1>2, <1>4, <2>1, <2>4
<1> QED BY <1>3, <1>4

InOrder(s, order) == \A i, j \in DOMAIN s : i < j => order[s[i]] <= order[s[j]]

(* A finite set can be sorted.                                             *)
LEMMA SortedExists ==
  ASSUME NEW S, IsFiniteSet(S), NEW order \in [S -> Nat]
  PROVE  \E s \in SetToSeqs(S) : InOrder(s, order)
<1> DEFINE Sorts(T) == \E s \in SetToSeqs(T) : InOrder(s, order)
           Sizes == {n \in Nat : \E T \in SUBSET S : Cardinality(T) = n /\ ~ Sorts(T)}
<1>1. \A T \in SUBSET S : IsFiniteSet(T) /\ Cardinality(T) \in Nat
      BY FS_Subset, FS_CardinalityType
<1>2. ASSUME Sizes # {} PROVE FALSE
      <2>1. PICK n \in Sizes : \A m \in Sizes : n <= m
            <3> HIDE DEF Sizes
            <3>1. Sizes \in SUBSET Nat
                  BY DEF Sizes
            <3> QED BY <1>2, <3>1, LeastNumber
      <2>2. PICK T \in SUBSET S : Cardinality(T) = n /\ ~ Sorts(T)
            OBVIOUS
      <2>3. IsFiniteSet(T) /\ n \in Nat
            BY <1>1
      <2>4. CASE T = {}
            <3>1. <<>> \in SetToSeqs(T)
                  <4>1. <<>> \in Seq(T) /\ DOMAIN <<>> = {}
                        OBVIOUS
                  <4> QED BY <2>3, <2>4, <4>1, ListsOfSet
            <3>2. InOrder(<<>>, order)
                  BY DEF InOrder
            <3> QED BY <2>2, <3>1, <3>2
      <2>5. CASE T # {}
            <3> DEFINE orders == {order[x] : x \in T}
            <3>1. \E o \in orders : \A q \in orders : o <= q
                  <4>1. orders \in SUBSET Nat /\ orders # {}
                        BY <2>5
                  <4> HIDE DEF orders
                  <4> QED BY <4>1, LeastNumber
            <3>2. PICK e \in T : \A x \in T : order[e] <= order[x]
                  BY <3>1
            <3> DEFINE R == T \ {e}
            <3>3. R \in SUBSET S /\ IsFiniteSet(R) /\ Cardinality(R) = n - 1 /\ Cardinality(R) \in Nat
                  BY <1>1, <2>2, <2>3, FS_RemoveElement
            <3>4. Sorts(R)
                  <4>1. Cardinality(R) \notin Sizes
                        <5> HIDE DEF Sizes, R
                        <5> QED BY <2>1, <2>3, <3>3
                  <4> QED BY <3>3, <4>1
            <3>5. PICK r \in SetToSeqs(R) : InOrder(r, order)
                  BY <3>4
            <3> HIDE DEF Sizes, R
            <3>6. /\ r \in Seq(R) /\ \A i, j \in DOMAIN r : i # j => r[i] # r[j]
                  /\ \A x \in R : \E i \in DOMAIN r : r[i] = x
                  BY <3>3, <3>5, ListsOfSet
            <3>61. e \notin R /\ \A x \in T : x # e => x \in R
                  BY DEF R
            <3>62. \A x \in R : x \in T
                  BY DEF R
            <3>7. Len(r) \in Nat /\ DOMAIN r = 1..Len(r) /\ \A i \in 1..Len(r) : r[i] \in R
                  BY <3>6, LenProperties
            <3> DEFINE s == [i \in 1..Len(r) + 1 |-> IF i = 1 THEN e ELSE r[i - 1]]
            <3>8. DOMAIN s = 1..Len(r) + 1 /\ s[1] = e /\ \A i \in 2..Len(r) + 1 : s[i] = r[i - 1]
                  BY <3>7
            <3>9. \A i \in 2..Len(r) + 1 : i - 1 \in 1..Len(r)
                  BY <3>7
            <3>10. \A i \in 1..Len(r) + 1 : i = 1 \/ i \in 2..Len(r) + 1
                   BY <3>7
            <3>11. s \in Seq(T)
                  <4>1. s \in [1..Len(r) + 1 -> T]
                        BY <3>62, <3>7, <3>8, <3>9, <3>10
                  <4>2. Len(r) + 1 \in Nat
                        BY <3>7
                  <4> HIDE DEF s
                  <4> QED BY <4>1, <4>2
            <3> HIDE DEF s
            <3>12. ASSUME NEW i \in DOMAIN s, NEW j \in DOMAIN s, i # j PROVE s[i] # s[j]
                  <4>1. CASE i = 1
                        BY <3>61, <3>7, <3>8, <3>9, <3>10, <3>12, <4>1
                  <4>2. CASE j = 1
                        BY <3>61, <3>7, <3>8, <3>9, <3>10, <3>12, <4>2
                  <4>3. CASE i # 1 /\ j # 1
                        <5>1. i \in 2..Len(r) + 1 /\ j \in 2..Len(r) + 1 /\ i - 1 # j - 1
                              BY <3>7, <3>8, <3>10, <3>12, <4>3
                        <5>2. s[i] = r[i - 1] /\ i - 1 \in DOMAIN r /\ s[j] = r[j - 1] /\ j - 1 \in DOMAIN r
                              BY <3>7, <3>8, <3>9, <5>1
                        <5>3. r[i - 1] # r[j - 1]
                              BY <3>6, <5>1, <5>2
                        <5> QED BY <5>2, <5>3
                  <4> QED BY <4>1, <4>2, <4>3
            <3>13. ASSUME NEW x \in T PROVE \E i \in DOMAIN s : s[i] = x
                  <4>1. CASE x = e
                        <5>1. 1 \in 1..Len(r) + 1
                              BY <3>7
                        <5> QED BY <3>8, <4>1, <5>1
                  <4>2. CASE x # e
                        <5>1. PICK k \in 1..Len(r) : r[k] = x
                              BY <3>6, <3>61, <3>7, <4>2
                        <5>2. k + 1 \in 2..Len(r) + 1 /\ k + 1 \in 1..Len(r) + 1 /\ (k + 1) - 1 = k
                              BY <3>7
                        <5>3. s[k + 1] = x
                              BY <3>8, <5>1, <5>2
                        <5> QED BY <3>8, <5>2, <5>3
                  <4> QED BY <4>1, <4>2
            <3>14. s \in SetToSeqs(T)
                  BY <2>3, <3>11, <3>12, <3>13, ListsOfSet
            <3>15. InOrder(s, order)
                  <4> SUFFICES ASSUME NEW i \in DOMAIN s, NEW j \in DOMAIN s, i < j
                               PROVE  order[s[i]] <= order[s[j]]
                      BY DEF InOrder
                  <4>1. j \in 2..Len(r) + 1
                        BY <3>7, <3>8
                  <4>2. s[j] = r[j - 1] /\ j - 1 \in 1..Len(r) /\ s[j] \in T
                        BY <3>62, <3>7, <3>8, <3>9, <4>1
                  <4>3. CASE i = 1
                        BY <3>2, <3>8, <4>2, <4>3
                  <4>4. CASE i # 1
                        <5>1. i \in 2..Len(r) + 1 /\ i - 1 < j - 1
                              BY <3>7, <3>8, <3>10, <4>1, <4>4
                        <5>2. s[i] = r[i - 1] /\ i - 1 \in 1..Len(r)
                              BY <3>8, <3>9, <5>1
                        <5> QED BY <3>5, <3>7, <4>2, <5>1, <5>2 DEF InOrder
                  <4> QED BY <4>3, <4>4
            <3> QED BY <2>2, <3>14, <3>15
      <2> QED BY <2>4, <2>5
<1>3. S \in SUBSET S /\ Cardinality(S) \in Nat
      BY <1>1
<1>4. Sorts(S)
      BY <1>2, <1>3
<1> QED BY <1>4

(* Numbers that ascend through all of 1..n count it.                       *)
Climbs(f, m, n) ==
  /\ f \in [1..m -> 1..n] /\ \A k, l \in 1..m : k < l => f[k] < f[l]
  /\ \A i \in 1..n : \E k \in 1..m : f[k] = i

LEMMA AscendingCounts ==
  ASSUME NEW m \in Nat, NEW n \in Nat, NEW f, Climbs(f, m, n)
  PROVE  m = n /\ \A k \in 1..m : f[k] = k
<1> USE DEF Climbs
<1> DEFINE Off == {k \in 1..m : f[k] # k}
<1>1. ASSUME Off # {} PROVE FALSE
      <2>1. PICK k \in Off : \A l \in Off : k <= l
            <3>1. Off \in SUBSET Nat
                  OBVIOUS
            <3> HIDE DEF Off
            <3> QED BY <1>1, <3>1, LeastNumber
      <2>2. k \in 1..m /\ f[k] # k /\ f[k] \in 1..n
            OBVIOUS
      <2>3. \A l \in 1..m : l < k => f[l] = l
            BY <2>1
      <2> HIDE DEF Off
      <2>4. CASE f[k] < k
            <3>1. f[k] \in 1..m /\ f[f[k]] = f[k]
                  BY <2>2, <2>3, <2>4
            <3>2. f[f[k]] < f[k]
                  BY <2>2, <2>4, <3>1
            <3> QED BY <2>2, <3>1, <3>2
      <2>5. CASE k < f[k]
            <3>1. k \in 1..n
                  BY <2>2, <2>5
            <3>2. PICK l \in 1..m : f[l] = k
                  BY <3>1
            <3>3. CASE l < k
                  BY <2>3, <3>2, <3>3
            <3>4. CASE k < l
                  <4>1. f[k] < f[l]
                        BY <2>2, <3>4
                  <4> QED BY <2>2, <2>5, <3>2, <4>1
            <3> QED BY <2>2, <3>2, <3>3, <3>4
      <2> QED BY <2>2, <2>4, <2>5
<1>2. \A k \in 1..m : f[k] = k
      BY <1>1
<1>3. m = n
      <2>1. CASE m < n
            <3>1. n \in 1..n
                  BY <2>1
            <3> QED BY <1>2, <2>1, <3>1
      <2>2. CASE n < m
            <3>1. m \in 1..m
                  BY <2>2
            <3>2. f[m] \in 1..n /\ f[m] = m
                  BY <1>2, <3>1
            <3> QED BY <2>2, <3>2
      <2> QED BY <2>1, <2>2
<1> QED BY <1>2, <1>3

-----------------------------------------------------------------------------
(* Lists of entries that are known by their ids: every list of a set of    *)
(* them has each id once, with its entry.                                  *)
LEMMA ListsOfEntries ==
  ASSUME NEW D, IsFiniteSet(D), NEW entry, DOMAIN entry = D, \A t \in D : entry[t].id = t, NEW s
  PROVE  LET S == {entry[t] : t \in D} IN
         /\ IsFiniteSet(S)
         /\ s \in SetToSeqs(S) <=> /\ s \in Seq(S) /\ \A i, j \in DOMAIN s : s[i].id = s[j].id => i = j
                                   /\ {s[i].id : i \in DOMAIN s} = D
                                   /\ \A i \in DOMAIN s : s[i] = entry[s[i].id]
<1> DEFINE S == {entry[t] : t \in D}
           f == [t \in D |-> entry[t]]
<1>1. f \in Surjection(D, S)
      BY DEF Surjection
<1>2. IsFiniteSet(S)
      <2> HIDE DEF f, S
      <2> QED BY <1>1, FS_Surjection
<1>3. \A t \in D : entry[t] \in S /\ entry[t].id = t
      OBVIOUS
<1>4. \A x \in S : x.id \in D /\ x = entry[x.id]
      OBVIOUS
<1> HIDE DEF S, f
<1>5. s \in SetToSeqs(S) <=> /\ s \in Seq(S) /\ \A i, j \in DOMAIN s : i # j => s[i] # s[j]
                             /\ \A x \in S : \E i \in DOMAIN s : s[i] = x
      BY <1>2, ListsOfSet
<1>6. ASSUME s \in Seq(S) PROVE \A i \in DOMAIN s : s[i] \in S
      BY <1>6, LenProperties
<1>7. ASSUME s \in SetToSeqs(S)
      PROVE  /\ \A i, j \in DOMAIN s : s[i].id = s[j].id => i = j
             /\ {s[i].id : i \in DOMAIN s} = D
             /\ \A i \in DOMAIN s : s[i] = entry[s[i].id]
      <2>1. \A i \in DOMAIN s : s[i] \in S
            BY <1>5, <1>6, <1>7
      <2>2. ASSUME NEW t \in D PROVE \E i \in DOMAIN s : s[i].id = t
            <3>1. PICK i \in DOMAIN s : s[i] = entry[t]
                  BY <1>3, <1>5, <1>7
            <3> QED BY <1>3, <3>1
      <2>3. \A i \in DOMAIN s : s[i].id \in D
            BY <1>4, <2>1
      <2> QED BY <1>4, <1>5, <1>7, <2>1, <2>2, <2>3
<1>8. ASSUME s \in Seq(S), \A i, j \in DOMAIN s : s[i].id = s[j].id => i = j,
             {s[i].id : i \in DOMAIN s} = D
      PROVE  s \in SetToSeqs(S)
      <2>1. ASSUME NEW x \in S PROVE \E i \in DOMAIN s : s[i] = x
            <3>1. PICK i \in DOMAIN s : s[i].id = x.id
                  BY <1>4, <1>8
            <3>2. s[i] \in S
                  BY <1>6, <1>8
            <3> QED BY <1>4, <3>1, <3>2
      <2> QED BY <1>5, <1>8, <2>1
<1> QED BY <1>2, <1>5, <1>7, <1>8 DEF S

SameElements(s, t) ==
  /\ \A i \in DOMAIN s : \E n \in DOMAIN t : s[i] = t[n]
  /\ \A n \in DOMAIN t : \E i \in DOMAIN s : s[i] = t[n]
NoneTwice(s) == \A i, j \in DOMAIN s : s[i] = s[j] => i = j
Rises(s, order) == \A i, j \in DOMAIN s : i < j => order[s[i]] < order[s[j]]

(* Two lists of the same elements are the same if the order never falls    *)
(* along the one, which has none twice, and rises along the other.         *)
LEMMA SortedUnique ==
  ASSUME NEW S, NEW s \in Seq(S), NEW t \in Seq(S), NEW order, \A x \in S : order[x] \in Nat,
         SameElements(s, t), NoneTwice(s), InOrder(s, order), Rises(t, order)
  PROVE  s = t
<1>1. /\ DOMAIN s = 1..Len(s) /\ Len(s) \in Nat /\ s \in [1..Len(s) -> S]
      /\ DOMAIN t = 1..Len(t) /\ Len(t) \in Nat /\ t \in [1..Len(t) -> S]
      BY LenProperties
<1>2. /\ \A k \in 1..Len(s) : \E l \in 1..Len(t) : s[k] = t[l]
      /\ \A l \in 1..Len(t) : \E k \in 1..Len(s) : s[k] = t[l]
      /\ \A k, l \in 1..Len(s) : s[k] = s[l] => k = l
      /\ \A k, l \in 1..Len(s) : k < l => order[s[k]] <= order[s[l]]
      /\ \A k, l \in 1..Len(t) : k < l => order[t[k]] < order[t[l]]
      BY <1>1 DEF SameElements, NoneTwice, InOrder, Rises
<1>3. /\ \A k \in 1..Len(s) : order[s[k]] \in Nat
      /\ \A k \in 1..Len(t) : order[t[k]] \in Nat
      BY <1>1
<1> DEFINE place == [k \in 1..Len(s) |-> CHOOSE l \in 1..Len(t) : s[k] = t[l]]
<1>4. place \in [1..Len(s) -> 1..Len(t)] /\ \A k \in 1..Len(s) : s[k] = t[place[k]]
      <2>1. \A k \in 1..Len(s) : place[k] \in 1..Len(t) /\ s[k] = t[place[k]]
            BY <1>2
      <2> QED BY <2>1
<1> HIDE DEF place
<1>5. ASSUME NEW k \in 1..Len(s), NEW l \in 1..Len(s), k < l PROVE place[k] < place[l]
      <2>1. place[k] \in 1..Len(t) /\ place[l] \in 1..Len(t) /\ s[k] = t[place[k]] /\ s[l] = t[place[l]]
            BY <1>4
      <2>6. order[s[k]] <= order[s[l]]
            BY <1>2, <1>5
      <2>2. order[t[place[k]]] <= order[t[place[l]]]
            BY <2>1, <2>6
      <2>3. place[k] # place[l]
            <3>1. k # l
                  BY <1>5
            <3> QED BY <1>2, <2>1, <3>1
      <2>4. ASSUME place[l] < place[k] PROVE FALSE
            <3>1. order[t[place[l]]] < order[t[place[k]]]
                  BY <1>2, <2>1, <2>4
            <3>2. order[t[place[l]]] \in Nat /\ order[t[place[k]]] \in Nat
                  BY <1>3, <2>1
            <3> QED BY <2>2, <3>1, <3>2
      <2>5. place[k] \in Int /\ place[l] \in Int
            BY <2>1
      <2> QED BY <2>3, <2>4, <2>5
<1>6. ASSUME NEW l \in 1..Len(t) PROVE \E k \in 1..Len(s) : place[k] = l
      <2>1. PICK k \in 1..Len(s) : s[k] = t[l]
            BY <1>2
      <2>2. place[k] \in 1..Len(t) /\ t[place[k]] = t[l]
            BY <1>4, <2>1
      <2>3. ASSUME NEW a \in 1..Len(t), NEW b \in 1..Len(t), t[a] = t[b], a < b PROVE FALSE
            <3>1. order[t[a]] < order[t[b]] /\ order[t[a]] \in Nat
                  BY <1>2, <1>3, <2>3
            <3> QED BY <2>3, <3>1
      <2>4. place[k] \in Int /\ l \in Int
            BY <2>2
      <2>5. place[k] = l
            BY <2>2, <2>3, <2>4
      <2> QED BY <2>5
<1>7. Len(s) = Len(t) /\ \A k \in 1..Len(s) : place[k] = k
      <2>1. Climbs(place, Len(s), Len(t))
            BY <1>4, <1>5, <1>6 DEF Climbs
      <2>2. Len(s) \in Nat /\ Len(t) \in Nat
            BY <1>1
      <2> QED BY <2>1, <2>2, AscendingCounts
<1>8. \A k \in 1..Len(s) : s[k] = t[k]
      BY <1>4, <1>7
<1> QED BY <1>1, <1>7, <1>8
=============================================================================
