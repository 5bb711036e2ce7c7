-------------------------- MODULE DealWorkflowProofs --------------------------
(***************************************************************************)
(* The committee's record is one history that only grows, however clients  *)
(* date what they send, for every number of deals, overlays, rows and      *)
(* process deaths: proofs about DealWorkflow.                              *)
(***************************************************************************)
EXTENDS DealWorkflow, SequenceTheorems, FiniteSetTheorems, TLAPS

-----------------------------------------------------------------------------
(***************************************************************************)
(* A row's id and its parts.                                               *)
(***************************************************************************)
LEMMA ChainParts ==
    ASSUME NEW B, NEW id \in Chains(B)
    PROVE  /\ Prev(id) \in Seq(B)
           /\ Len(id) \in Nat \ {0}
           /\ Len(Prev(id)) = Len(id) - 1
           /\ Body(id) \in B
<1>1. id \in Seq(B) /\ Len(id) \in Nat \ {0}
  BY EmptySeq DEF Chains
<1>2. \A i \in 1 .. Len(id) - 1 : id[i] \in B
  BY <1>1, ElementOfSeq
<1>3. /\ SubSeq(id, 1, Len(id) - 1) \in Seq(B)
      /\ Len(SubSeq(id, 1, Len(id) - 1)) = Len(id) - 1
  <2> DEFINE n == Len(id) - 1
  <2>1. n \in Nat /\ \A i \in 1 .. n : id[i] \in B
    BY <1>1, <1>2
  <2> HIDE DEF n
  <2>2. /\ SubSeq(id, 1, n) \in Seq(B)
        /\ Len(SubSeq(id, 1, n)) = IF 1 <= n THEN n - 1 + 1 ELSE 0
    BY <2>1, SubSeqProperties
  <2>3. SubSeq(id, 1, n) \in Seq(B) /\ Len(SubSeq(id, 1, n)) = n
    BY <2>1, <2>2
  <2>. QED
    BY <2>3 DEF n
<1>4. id[Len(id)] \in B
  BY <1>1, ElementOfSeq
<1>. QED
  BY <1>1, <1>3, <1>4 DEF Prev, Body, Front, Last

LEMMA PrefixParts ==
    ASSUME NEW B, NEW c \in Seq(B), NEW n \in 1 .. Len(c)
    PROVE  /\ SubSeq(c, 1, n) \in Chains(B)
           /\ Len(SubSeq(c, 1, n)) = n
           /\ Prev(SubSeq(c, 1, n)) = SubSeq(c, 1, n - 1)
           /\ Body(SubSeq(c, 1, n)) = c[n]
           /\ \A m \in 1 .. n : SubSeq(SubSeq(c, 1, n), 1, m) = SubSeq(c, 1, m)
<1> DEFINE id == SubSeq(c, 1, n)
<1>1. Len(c) \in Nat /\ \A i \in 1 .. n : c[i] \in B
  BY ElementOfSeq, LenProperties
<1>2. /\ id \in Seq(B) /\ Len(id) = n
      /\ \A i \in 1 .. n : id[i] = c[i]
  BY <1>1, SubSeqProperties
<1>3. id \in Chains(B)
  BY <1>2, EmptySeq DEF Chains
<1>4. ASSUME NEW m \in 0 .. n
      PROVE  SubSeq(id, 1, m) = SubSeq(c, 1, m)
  <2>1. /\ SubSeq(id, 1, m) \in Seq(B) /\ Len(SubSeq(id, 1, m)) = m
        /\ \A i \in 1 .. m : SubSeq(id, 1, m)[i] = id[i]
    BY <1>1, <1>2, SubSeqProperties
  <2>2. /\ SubSeq(c, 1, m) \in Seq(B) /\ Len(SubSeq(c, 1, m)) = m
        /\ \A i \in 1 .. m : SubSeq(c, 1, m)[i] = c[i]
    BY <1>1, SubSeqProperties
  <2>. QED
    BY <1>2, <2>1, <2>2, SeqEqual
<1>5. Prev(id) = SubSeq(c, 1, n - 1)
  BY <1>1, <1>2, <1>4 DEF Prev, Front
<1>6. Body(id) = c[n]
  BY <1>1, <1>2 DEF Body, Last
<1>. QED
  BY <1>2, <1>3, <1>4, <1>5, <1>6

LEMMA AppendParts ==
    ASSUME NEW B, NEW s \in Seq(B), NEW b \in B
    PROVE  /\ Append(s, b) \in Chains(B)
           /\ Prev(Append(s, b)) = s
           /\ Body(Append(s, b)) = b
           /\ \A n \in 1 .. Len(s) : SubSeq(Append(s, b), 1, n) = SubSeq(s, 1, n)
           /\ SubSeq(Append(s, b), 1, Len(s) + 1) = Append(s, b)
<1> DEFINE id == Append(s, b)
<1>1. /\ id \in Seq(B) /\ id # <<>> /\ Len(id) = Len(s) + 1
      /\ \A i \in 1 .. Len(s) : id[i] = s[i]
      /\ id[Len(s) + 1] = b
      /\ Len(s) \in Nat
  BY AppendProperties, LenProperties
<1>2. ASSUME NEW n \in 0 .. Len(s)
      PROVE  SubSeq(id, 1, n) = SubSeq(s, 1, n)
  <2>1. \A i \in 1 .. n : id[i] \in B /\ s[i] \in B
    BY <1>1, ElementOfSeq
  <2>2. /\ SubSeq(id, 1, n) \in Seq(B) /\ Len(SubSeq(id, 1, n)) = n
        /\ \A i \in 1 .. n : SubSeq(id, 1, n)[i] = id[i]
    BY <1>1, <2>1, SubSeqProperties
  <2>3. /\ SubSeq(s, 1, n) \in Seq(B) /\ Len(SubSeq(s, 1, n)) = n
        /\ \A i \in 1 .. n : SubSeq(s, 1, n)[i] = s[i]
    BY <1>1, <2>1, SubSeqProperties
  <2>. QED
    BY <1>1, <2>2, <2>3, SeqEqual
<1>3. Prev(id) = s
  BY <1>1, <1>2, SubSeqFull DEF Prev, Front
<1>4. Body(id) = b
  BY <1>1 DEF Body, Last
<1>5. SubSeq(id, 1, Len(s) + 1) = id
  BY <1>1, SubSeqFull
<1>. QED
  BY <1>1, <1>2, <1>3, <1>4, <1>5 DEF Chains

-----------------------------------------------------------------------------
(***************************************************************************)
(* An id that is not among the rows is put at one place of them, after all *)
(* when none is dated later.                                               *)
(***************************************************************************)
InsertedAt(new, rows, id, p) ==
    /\ p \in 1 .. Len(rows) + 1
    /\ Len(new) = Len(rows) + 1
    /\ \A i \in 1 .. Len(rows) + 1 :
         new[i] = IF i < p THEN rows[i] ELSE IF i = p THEN id ELSE rows[i - 1]

LEMMA InsertAtPlace ==
    ASSUME NEW T, NEW rows \in Seq(T), NEW id \in T, NEW p \in 1 .. Len(rows) + 1
    PROVE  /\ InsertAt(rows, p, id) \in Seq(T)
           /\ InsertedAt(InsertAt(rows, p, id), rows, id, p)
<1> DEFINE a == SubSeq(rows, 1, p - 1)
           z == SubSeq(rows, p, Len(rows))
<1>1. Len(rows) \in Nat /\ \A i \in 1 .. Len(rows) : rows[i] \in T
  BY LenProperties, ElementOfSeq
<1>2. /\ a \in Seq(T) /\ Len(a) = p - 1
      /\ \A i \in 1 .. p - 1 : a[i] = rows[i]
  <2>1. \A i \in 1 .. p - 1 : rows[i] \in T
    BY <1>1
  <2>2. /\ a \in Seq(T) /\ Len(a) = IF 1 <= p - 1 THEN p - 1 - 1 + 1 ELSE 0
        /\ \A i \in 1 .. p - 1 - 1 + 1 : a[i] = rows[1 + i - 1]
    BY <1>1, <2>1, SubSeqProperties
  <2>. QED
    BY <1>1, <2>2
<1>3. /\ z \in Seq(T) /\ Len(z) = Len(rows) - p + 1
      /\ \A i \in 1 .. Len(rows) - p + 1 : z[i] = rows[p + i - 1]
  <2>1. \A i \in p .. Len(rows) : rows[i] \in T
    BY <1>1
  <2>2. /\ z \in Seq(T) /\ Len(z) = IF p <= Len(rows) THEN Len(rows) - p + 1 ELSE 0
        /\ \A i \in 1 .. Len(rows) - p + 1 : z[i] = rows[p + i - 1]
    BY <1>1, <2>1, SubSeqProperties
  <2>. QED
    BY <1>1, <2>2
<1> HIDE DEF a, z
<1>4. <<id>> \in Seq(T) /\ Len(<<id>>) = 1 /\ <<id>>[1] = id
  OBVIOUS
<1>5. /\ a \o <<id>> \in Seq(T) /\ Len(a \o <<id>>) = p
      /\ \A i \in 1 .. p : (a \o <<id>>)[i] = IF i <= p - 1 THEN rows[i] ELSE id
  <2>1. /\ a \o <<id>> \in Seq(T) /\ Len(a \o <<id>>) = Len(a) + Len(<<id>>)
        /\ \A i \in 1 .. Len(a) + Len(<<id>>) : (a \o <<id>>)[i] =
             IF i <= Len(a) THEN a[i] ELSE <<id>>[i - Len(a)]
    BY <1>2, <1>4, ConcatProperties
  <2>2. Len(a) + Len(<<id>>) = p
    BY <1>1, <1>2, <1>4
  <2>3. ASSUME NEW i \in 1 .. p
        PROVE  (a \o <<id>>)[i] = IF i <= p - 1 THEN rows[i] ELSE id
    <3>1. CASE i <= p - 1
      BY <1>1, <1>2, <2>1, <2>2, <3>1
    <3>2. CASE i = p
      <4>1. i - Len(a) = 1 /\ ~(i <= Len(a))
        BY <1>1, <1>2, <3>2
      <4>. QED
        BY <1>1, <1>4, <2>1, <2>2, <3>2, <4>1
    <3>3. i <= p - 1 \/ i = p
      BY <1>1
    <3>. QED
      BY <3>1, <3>2, <3>3
  <2>. QED
    BY <2>1, <2>2, <2>3
<1>6. /\ (a \o <<id>>) \o z \in Seq(T)
      /\ Len((a \o <<id>>) \o z) = p + Len(z)
      /\ \A i \in 1 .. p + Len(z) : ((a \o <<id>>) \o z)[i] =
           IF i <= p THEN (a \o <<id>>)[i] ELSE z[i - p]
  <2> DEFINE b == a \o <<id>>
  <2>1. b \in Seq(T) /\ Len(b) = p
    BY <1>5
  <2> HIDE DEF b
  <2>2. /\ b \o z \in Seq(T)
        /\ Len(b \o z) = Len(b) + Len(z)
        /\ \A i \in 1 .. Len(b) + Len(z) : (b \o z)[i] =
             IF i <= Len(b) THEN b[i] ELSE z[i - Len(b)]
    BY <1>3, <2>1, ConcatProperties
  <2>3. /\ b \o z \in Seq(T)
        /\ Len(b \o z) = p + Len(z)
        /\ \A i \in 1 .. p + Len(z) : (b \o z)[i] =
             IF i <= p THEN b[i] ELSE z[i - p]
    BY <2>1, <2>2
  <2>. QED
    BY <2>3 DEF b
<1>7. InsertAt(rows, p, id) = (a \o <<id>>) \o z
  BY DEF InsertAt, a, z
<1>8. p + Len(z) = Len(rows) + 1
  BY <1>1, <1>3
<1>9. ASSUME NEW i \in 1 .. Len(rows) + 1
      PROVE  ((a \o <<id>>) \o z)[i] =
               IF i < p THEN rows[i] ELSE IF i = p THEN id ELSE rows[i - 1]
  <2>1. CASE i <= p
    BY <1>1, <1>5, <1>6, <1>8, <2>1
  <2>2. CASE p < i
    <3>1. i - p \in 1 .. Len(rows) - p + 1 /\ p + (i - p) - 1 = i - 1
      BY <1>1, <2>2
    <3>. QED
      BY <1>1, <1>3, <1>6, <1>8, <2>2, <3>1
  <2>3. i <= p \/ p < i
    BY <1>1
  <2>. QED
    BY <2>1, <2>2, <2>3
<1>. QED
  BY <1>6, <1>7, <1>8, <1>9 DEF InsertedAt

LEMMA InsertPlaces ==
    ASSUME NEW B, NEW rows \in Seq(Chains(B)), NEW id \in Chains(B),
           id \notin ToSet(rows)
    PROVE  /\ insert(rows, id) \in Seq(Chains(B))
           /\ \E p \in 1 .. Len(rows) + 1 : InsertedAt(insert(rows, id), rows, id, p)
           /\ (\A i \in DOMAIN rows : Body(rows[i]).at <= Body(id).at) =>
                InsertedAt(insert(rows, id), rows, id, Len(rows) + 1)
<1> DEFINE earlier == {i \in DOMAIN rows : Body(rows[i]).at <= Body(id).at}
           p == Cardinality(earlier) + 1
<1>1. Len(rows) \in Nat /\ DOMAIN rows = 1 .. Len(rows)
  BY LenProperties
<1>2. IsFiniteSet(1 .. Len(rows)) /\ Cardinality(1 .. Len(rows)) = Len(rows)
  BY <1>1, FS_Interval
<1>3. earlier \subseteq 1 .. Len(rows)
  BY <1>1
<1> HIDE DEF earlier
<1>4. Cardinality(earlier) \in Nat /\ Cardinality(earlier) <= Len(rows)
  BY <1>2, <1>3, FS_Subset, FS_CardinalityType
<1>5. p \in 1 .. Len(rows) + 1
  BY <1>1, <1>4
<1>6. insert(rows, id) = InsertAt(rows, p, id)
  BY DEF insert, earlier
<1>7. ASSUME \A i \in DOMAIN rows : Body(rows[i]).at <= Body(id).at
      PROVE  p = Len(rows) + 1
  BY <1>1, <1>2, <1>7 DEF earlier
<1>. QED
  BY <1>5, <1>6, <1>7, InsertAtPlace

LEMMA InsertAdds ==
    ASSUME NEW B, NEW rows \in Seq(Chains(B)), NEW id \in Chains(B)
    PROVE  /\ insert(rows, id) \in Seq(Chains(B))
           /\ ToSet(insert(rows, id)) = ToSet(rows) \cup {id}
<1>1. CASE id \in ToSet(rows)
  BY <1>1 DEF insert
<1>2. CASE id \notin ToSet(rows)
  <2> DEFINE new == insert(rows, id)
  <2>1. PICK p \in 1 .. Len(rows) + 1 : InsertedAt(new, rows, id, p)
    BY <1>2, InsertPlaces
  <2>2. new \in Seq(Chains(B))
    BY <1>2, InsertPlaces
  <2> HIDE DEF new
  <2>3. /\ Len(rows) \in Nat /\ DOMAIN rows = 1 .. Len(rows)
        /\ DOMAIN new = 1 .. Len(rows) + 1
    BY <2>1, <2>2, LenProperties DEF InsertedAt
  <2>4. ToSet(new) \subseteq ToSet(rows) \cup {id}
    <3> SUFFICES ASSUME NEW i \in 1 .. Len(rows) + 1
                 PROVE  new[i] \in ToSet(rows) \cup {id}
      BY <2>3 DEF ToSet
    <3>1. CASE i < p
      BY <2>1, <2>3, <3>1 DEF InsertedAt, ToSet
    <3>2. CASE i = p
      BY <2>1, <2>3, <3>2 DEF InsertedAt
    <3>3. CASE i > p
      <4>1. i - 1 \in DOMAIN rows /\ new[i] = rows[i - 1]
        BY <2>1, <2>3, <3>3 DEF InsertedAt
      <4>. QED
        BY <4>1 DEF ToSet
    <3>. QED
      BY <2>3, <3>1, <3>2, <3>3
  <2>5. id \in ToSet(new)
    <3>1. new[p] = id /\ p \in DOMAIN new
      BY <2>1, <2>3 DEF InsertedAt
    <3>. QED
      BY <3>1 DEF ToSet
  <2>6. ASSUME NEW j \in DOMAIN rows PROVE rows[j] \in ToSet(new)
    <3>1. CASE j < p
      <4>1. new[j] = rows[j] /\ j \in DOMAIN new
        BY <2>1, <2>3, <3>1 DEF InsertedAt
      <4>. QED
        BY <4>1 DEF ToSet
    <3>2. CASE j >= p
      <4>1. new[j + 1] = rows[j] /\ j + 1 \in DOMAIN new
        BY <2>1, <2>3, <3>2 DEF InsertedAt
      <4>. QED
        BY <4>1 DEF ToSet
    <3>. QED
      BY <2>3, <3>1, <3>2
  <2>. QED
    BY <2>2, <2>4, <2>5, <2>6 DEF new, ToSet
<1>. QED
  BY <1>1, <1>2

-----------------------------------------------------------------------------
(***************************************************************************)
(* The rows, in whatever order they are read, are the ids of one chain.    *)
(***************************************************************************)
PrefixesOf(c) == {SubSeq(c, 1, n) : n \in 1 .. Len(c)}

Orders(rows, c) ==
    /\ ToSet(rows) = PrefixesOf(c)
    /\ Len(rows) = Len(c)
    /\ \A i, j \in DOMAIN rows : rows[i] = rows[j] => i = j

LEMMA RowsOfChain ==
    ASSUME NEW B, NEW c \in Seq(B), NEW rows \in Seq(Chains(B)), Orders(rows, c)
    PROVE  /\ \A j \in DOMAIN rows : \E n \in 1 .. Len(c) : rows[j] = SubSeq(c, 1, n)
           /\ \A n \in 1 .. Len(c) : \E j \in DOMAIN rows : rows[j] = SubSeq(c, 1, n)
           /\ DOMAIN rows = 1 .. Len(rows)
           /\ Len(c) \in Nat /\ Len(rows) = Len(c)
<1>1. DOMAIN rows = 1 .. Len(rows) /\ Len(c) \in Nat /\ Len(rows) = Len(c)
  BY LenProperties DEF Orders
<1>2. {rows[i] : i \in DOMAIN rows} = {SubSeq(c, 1, n) : n \in 1 .. Len(c)}
  BY DEF Orders, PrefixesOf, ToSet
<1>3. \A j \in DOMAIN rows : \E n \in 1 .. Len(c) : rows[j] = SubSeq(c, 1, n)
  BY ONLY <1>2
<1>4. \A n \in 1 .. Len(c) : \E j \in DOMAIN rows : rows[j] = SubSeq(c, 1, n)
  BY ONLY <1>2
<1>. QED
  BY <1>1, <1>3, <1>4

LEMMA PrefixesDiffer ==
    ASSUME NEW B, NEW c \in Seq(B), NEW m \in 0 .. Len(c), NEW n \in 0 .. Len(c),
           SubSeq(c, 1, m) = SubSeq(c, 1, n)
    PROVE  m = n
<1>1. ASSUME NEW k \in 0 .. Len(c) PROVE Len(SubSeq(c, 1, k)) = k
  <2>1. CASE k = 0
    BY <2>1, SubSeqEmpty
  <2>2. CASE k \in 1 .. Len(c)
    BY <2>2, PrefixParts
  <2>. QED
    BY <2>1, <2>2, LenProperties
<1>. QED
  BY <1>1

(***************************************************************************)
(* The walk of such rows reaches all of them.                              *)
(***************************************************************************)
LEMMA WalkOfChain ==
    ASSUME NEW B, NEW c \in Seq(B), NEW rows \in Seq(Chains(B)), Orders(rows, c)
    PROVE  Walk(rows) = c
<1> DEFINE Ends(id) == \A j \in DOMAIN rows : Prev(rows[j]) # id
           Made(id) == \A n \in 1 .. Len(id) : Counts(rows, SubSeq(id, 1, n))
<1>1. /\ \A j \in DOMAIN rows : \E n \in 1 .. Len(c) : rows[j] = SubSeq(c, 1, n)
      /\ \A n \in 1 .. Len(c) : \E j \in DOMAIN rows : rows[j] = SubSeq(c, 1, n)
      /\ DOMAIN rows = 1 .. Len(rows)
      /\ Len(c) \in Nat /\ Len(rows) = Len(c)
  BY RowsOfChain
<1>0. Len(c) \in Nat
  BY LenProperties
<1>2. SubSeq(c, 1, Len(c)) = c /\ SubSeq(c, 1, 0) = <<>>
  BY SubSeqFull, SubSeqEmpty
<1>3. c \in {<<>>} \cup ToSet(rows)
  <2>1. CASE Len(c) = 0
    BY <1>2, <2>1
  <2>2. CASE Len(c) # 0
    <3>1. PICK j \in DOMAIN rows : rows[j] = SubSeq(c, 1, Len(c))
      BY <1>1, <2>2
    <3>. QED
      BY <1>2, <3>1 DEF ToSet
  <2>. QED
    BY <2>1, <2>2
<1>4. ASSUME NEW j \in DOMAIN rows, NEW n \in 1 .. Len(c), rows[j] = SubSeq(c, 1, n)
      PROVE  Prev(rows[j]) = SubSeq(c, 1, n - 1)
  BY <1>4, PrefixParts
<1>5. Ends(c)
  <2> SUFFICES ASSUME NEW j \in DOMAIN rows, Prev(rows[j]) = c
               PROVE  FALSE
    OBVIOUS
  <2>1. PICK n \in 1 .. Len(c) : rows[j] = SubSeq(c, 1, n)
    BY <1>1
  <2>2. SubSeq(c, 1, n - 1) = SubSeq(c, 1, Len(c))
    BY <1>2, <1>4, <2>1
  <2>3. n - 1 \in 0 .. Len(c) /\ Len(c) \in 0 .. Len(c) /\ n - 1 # Len(c)
    BY <1>0
  <2>. QED
    BY <2>2, <2>3, PrefixesDiffer
<1>6. ASSUME NEW n \in 1 .. Len(c) PROVE Counts(rows, SubSeq(c, 1, n))
  <2>1. PICK i \in DOMAIN rows : rows[i] = SubSeq(c, 1, n)
    BY <1>1
  <2>2. ASSUME NEW j \in 1 .. i - 1, Prev(rows[j]) = Prev(SubSeq(c, 1, n))
        PROVE  FALSE
    <3>1. j \in DOMAIN rows /\ j # i
      BY <1>1
    <3>2. PICK m \in 1 .. Len(c) : rows[j] = SubSeq(c, 1, m)
      BY <1>1, <3>1
    <3>3. SubSeq(c, 1, m - 1) = SubSeq(c, 1, n - 1)
      BY <1>4, <2>1, <2>2, <3>1, <3>2
    <3>4. m - 1 \in 0 .. Len(c) /\ n - 1 \in 0 .. Len(c)
      BY <1>0
    <3>5. m - 1 = n - 1
      BY <3>3, <3>4, PrefixesDiffer
    <3>6. m = n
      BY <1>1, <3>5
    <3>. QED
      BY <2>1, <3>1, <3>2, <3>6 DEF Orders
  <2>. QED
    BY <2>1, <2>2 DEF Counts
<1>7. Made(c)
  BY <1>6
<1>8. ASSUME NEW id \in {<<>>} \cup ToSet(rows), Ends(id) PROVE id = c
  <2>1. PICK n \in 0 .. Len(c) : id = SubSeq(c, 1, n)
    <3>1. CASE id = <<>>
      BY <1>0, <1>2, <3>1
    <3>2. CASE id \in ToSet(rows)
      <4>1. PICK j \in DOMAIN rows : id = rows[j]
        BY <3>2 DEF ToSet
      <4>2. PICK n \in 1 .. Len(c) : rows[j] = SubSeq(c, 1, n)
        BY <1>1
      <4>. QED
        BY <1>0, <4>1, <4>2
    <3>. QED
      BY <3>1, <3>2
  <2>2. CASE n = Len(c)
    BY <1>2, <2>1, <2>2
  <2>3. CASE n # Len(c)
    <3>1. n + 1 \in 1 .. Len(c) /\ (n + 1) - 1 = n
      BY <1>0, <2>3
    <3>2. PICK j \in DOMAIN rows : rows[j] = SubSeq(c, 1, n + 1)
      BY <1>1, <3>1
    <3>3. Prev(rows[j]) = id
      BY <1>4, <2>1, <3>1, <3>2
    <3>. QED
      BY <1>8, <3>3
  <2>. QED
    BY <2>2, <2>3
<1>9. Walk(rows) = CHOOSE id \in {<<>>} \cup ToSet(rows) : Ends(id) /\ Made(id)
  BY DEF Walk
<1> HIDE DEF Ends, Made
<1>. QED
  BY <1>3, <1>5, <1>7, <1>8, <1>9

(***************************************************************************)
(* The last of them is the only one that nothing refers to.                *)
(***************************************************************************)
LEMMA TailOfChain ==
    ASSUME NEW B, NEW c \in Seq(B), NEW rows \in Seq(Chains(B)), Orders(rows, c)
    PROVE  chainTail(rows) = c
<1> DEFINE loose == {i \in DOMAIN rows : \A j \in DOMAIN rows : Prev(rows[j]) # rows[i]}
<1>1. /\ \A j \in DOMAIN rows : \E n \in 1 .. Len(c) : rows[j] = SubSeq(c, 1, n)
      /\ \A n \in 1 .. Len(c) : \E j \in DOMAIN rows : rows[j] = SubSeq(c, 1, n)
      /\ DOMAIN rows = 1 .. Len(rows)
      /\ Len(c) \in Nat /\ Len(rows) = Len(c)
  BY RowsOfChain
<1>0. Len(c) \in Nat
  BY LenProperties
<1>2. SubSeq(c, 1, Len(c)) = c
  BY SubSeqFull
<1>3. ASSUME NEW j \in DOMAIN rows, NEW n \in 1 .. Len(c), rows[j] = SubSeq(c, 1, n)
      PROVE  Prev(rows[j]) = SubSeq(c, 1, n - 1)
  BY <1>3, PrefixParts
<1>4. CASE Len(c) = 0
  <2>1. c = <<>> /\ DOMAIN rows = {}
    BY <1>1, <1>2, <1>4, SubSeqEmpty
  <2>. QED
    BY <2>1 DEF chainTail
<1>5. CASE Len(c) # 0
  <2>1. PICK last \in DOMAIN rows : rows[last] = c
    BY <1>1, <1>2, <1>5
  <2>2. last \in loose
    <3> SUFFICES ASSUME NEW j \in DOMAIN rows, Prev(rows[j]) = c
                 PROVE  FALSE
      BY <2>1
    <3>1. PICK n \in 1 .. Len(c) : rows[j] = SubSeq(c, 1, n)
      BY <1>1
    <3>2. SubSeq(c, 1, n - 1) = SubSeq(c, 1, Len(c))
      BY <1>2, <1>3, <3>1
    <3>3. n - 1 \in 0 .. Len(c) /\ Len(c) \in 0 .. Len(c) /\ n - 1 # Len(c)
      BY <1>0
    <3>. QED
      BY <3>2, <3>3, PrefixesDiffer
  <2>3. ASSUME NEW i \in loose PROVE i = last
    <3>1. PICK n \in 1 .. Len(c) : rows[i] = SubSeq(c, 1, n)
      BY <1>1
    <3>2. CASE n = Len(c)
      BY <1>2, <2>1, <3>1, <3>2 DEF Orders
    <3>3. CASE n # Len(c)
      <4>1. n + 1 \in 1 .. Len(c) /\ (n + 1) - 1 = n
        BY <1>0, <3>3
      <4>2. PICK j \in DOMAIN rows : rows[j] = SubSeq(c, 1, n + 1)
        BY <1>1, <4>1
      <4>3. Prev(rows[j]) = rows[i]
        BY <1>3, <3>1, <4>1, <4>2
      <4>. QED
        BY <4>3
    <3>. QED
      BY <3>2, <3>3
  <2>4. loose = {last}
    BY <2>2, <2>3
  <2>5. last \in Int
    BY <1>1
  <2> HIDE DEF loose
  <2>6. Min(loose) = last
    BY <2>4, <2>5 DEF Min
  <2>7. chainTail(rows) = IF loose = {} THEN <<>> ELSE rows[Min(loose)]
    BY DEF chainTail, loose
  <2>. QED
    BY <2>1, <2>2, <2>6, <2>7
<1>. QED
  BY <1>4, <1>5


(***************************************************************************)
(* An action that follows the last of them makes the chain longer by one,  *)
(* wherever its date puts it among the rows.                               *)
(***************************************************************************)
LEMMA AppendsToChain ==
    ASSUME NEW B, NEW c \in Seq(B), NEW rows \in Seq(Chains(B)), Orders(rows, c),
           NEW b \in B
    PROVE  /\ Append(c, b) \in Chains(B)
           /\ Append(c, b) \notin ToSet(rows)
           /\ insert(rows, Append(c, b)) \in Seq(Chains(B))
           /\ Orders(insert(rows, Append(c, b)), Append(c, b))
<1> DEFINE id == Append(c, b)
           new == insert(rows, id)
<1>0. /\ Len(c) \in Nat /\ Len(rows) = Len(c)
      /\ DOMAIN rows = 1 .. Len(c)
  BY LenProperties DEF Orders
<1>1. /\ id \in Chains(B) /\ Len(id) = Len(c) + 1
      /\ \A n \in 1 .. Len(c) : SubSeq(id, 1, n) = SubSeq(c, 1, n)
      /\ SubSeq(id, 1, Len(c) + 1) = id
  BY AppendParts, AppendProperties
<1> HIDE DEF id
<1>2. id \notin ToSet(rows)
  <2> SUFFICES ASSUME NEW j \in DOMAIN rows, rows[j] = id
               PROVE  FALSE
    BY DEF ToSet
  <2>1. PICK n \in 1 .. Len(c) : rows[j] = SubSeq(c, 1, n)
    BY RowsOfChain
  <2>2. Len(SubSeq(c, 1, n)) = n
    BY PrefixParts
  <2>. QED
    BY <1>0, <1>1, <2>1, <2>2
<1>3. new \in Seq(Chains(B)) /\ ToSet(new) = ToSet(rows) \cup {id}
  BY <1>1, InsertAdds
<1>4. PICK p \in 1 .. Len(rows) + 1 : InsertedAt(new, rows, id, p)
  BY <1>1, <1>2, InsertPlaces
<1> HIDE DEF new
<1>5. PrefixesOf(id) = PrefixesOf(c) \cup {id}
  <2>1. ASSUME NEW n \in 1 .. Len(id) PROVE SubSeq(id, 1, n) \in PrefixesOf(c) \cup {id}
    <3>1. CASE n = Len(c) + 1
      BY <1>1, <3>1
    <3>2. CASE n \in 1 .. Len(c)
      BY <1>1, <3>2 DEF PrefixesOf
    <3>. QED
      BY <1>0, <1>1, <3>1, <3>2
  <2>2. ASSUME NEW n \in 1 .. Len(c) PROVE SubSeq(c, 1, n) \in PrefixesOf(id)
    <3>1. n \in 1 .. Len(id) /\ SubSeq(c, 1, n) = SubSeq(id, 1, n)
      BY <1>0, <1>1
    <3>. QED
      BY <3>1 DEF PrefixesOf
  <2>3. id \in PrefixesOf(id)
    <3>1. Len(c) + 1 \in 1 .. Len(id)
      BY <1>0, <1>1
    <3>. QED
      BY <1>1, <3>1 DEF PrefixesOf
  <2>. QED
    BY <2>1, <2>2, <2>3 DEF PrefixesOf
<1>6. Len(new) = Len(id) /\ DOMAIN new = 1 .. Len(c) + 1
  BY <1>0, <1>1, <1>3, <1>4, LenProperties DEF InsertedAt
<1>7. ASSUME NEW i \in DOMAIN new, NEW j \in DOMAIN new, new[i] = new[j]
      PROVE  i = j
  <2> DEFINE old(k) == IF k < p THEN k ELSE k - 1
  <2>1. ASSUME NEW k \in DOMAIN new, k # p
        PROVE  /\ old(k) \in DOMAIN rows /\ new[k] = rows[old(k)]
               /\ new[k] # id
    <3>1. k \in 1 .. Len(c) + 1 /\ p \in 1 .. Len(c) + 1
      BY <1>0, <1>6
    <3>2. old(k) \in 1 .. Len(c)
      BY <1>0, <2>1, <3>1
    <3>3. new[k] = rows[old(k)]
      BY <1>0, <1>4, <2>1, <3>1 DEF InsertedAt
    <3>. QED
      BY <1>0, <1>2, <3>2, <3>3 DEF ToSet
  <2>2. new[p] = id
    BY <1>0, <1>4 DEF InsertedAt
  <2>3. CASE i # p /\ j # p
    <3>1. old(i) = old(j)
      BY <1>7, <2>1, <2>3 DEF Orders
    <3>. QED
      BY <1>0, <1>6, <2>3, <3>1
  <2>. QED
    BY <1>7, <2>1, <2>2, <2>3
<1>8. Orders(new, id)
  BY <1>3, <1>5, <1>6, <1>7 DEF Orders
<1>. QED
  BY <1>1, <1>2, <1>3, <1>8 DEF id, new

(***************************************************************************)
(* Of two rows of a chain, one is what the other follows.                  *)
(***************************************************************************)
LEMMA RowsOfOneChain ==
    ASSUME NEW B, NEW c \in Seq(B), NEW m \in 1 .. Len(c), NEW n \in 1 .. Len(c),
           m <= n
    PROVE  IsPrefix(SubSeq(c, 1, m), SubSeq(c, 1, n))
<1>1. /\ Len(SubSeq(c, 1, m)) = m /\ Len(SubSeq(c, 1, n)) = n
      /\ SubSeq(SubSeq(c, 1, m), 1, m) = SubSeq(c, 1, m)
      /\ SubSeq(SubSeq(c, 1, n), 1, m) = SubSeq(c, 1, m)
  BY PrefixParts
<1>. QED
  BY <1>1 DEF IsPrefix

LEMMA RowsCompare ==
    ASSUME NEW B, NEW c \in Seq(B), NEW rows \in Seq(Chains(B)), Orders(rows, c),
           NEW i \in DOMAIN rows, NEW j \in DOMAIN rows
    PROVE  IsPrefix(rows[i], rows[j]) \/ IsPrefix(rows[j], rows[i])
<1>1. PICK m \in 1 .. Len(c) : rows[i] = SubSeq(c, 1, m)
  BY RowsOfChain
<1>2. PICK n \in 1 .. Len(c) : rows[j] = SubSeq(c, 1, n)
  BY RowsOfChain
<1>3. m <= n \/ n <= m
  BY LenProperties
<1>. QED
  BY <1>1, <1>2, <1>3, RowsOfOneChain

(***************************************************************************)
(* A set of positions has a last one.                                      *)
(***************************************************************************)
LEMMA LastPosition ==
    ASSUME NEW n \in Nat, NEW S \in SUBSET (1 .. n), S # {}
    PROVE  Max(S) \in S
<1> DEFINE Bounds == {m \in Nat : \A x \in S : x <= m}
<1>1. n \in Bounds
  OBVIOUS
<1>2. IsWellFoundedOn(OpToRel(<, Nat), Nat)
  BY NatLessThanWellFounded
<1>3. PICK m \in Bounds : \A y \in Bounds : <<y, m>> \notin OpToRel(<, Nat)
  BY <1>1, <1>2, WFMin
<1>4. \A y \in Bounds : ~(y < m)
  BY <1>3 DEF OpToRel
<1>5. m \in S
  <2> SUFFICES ASSUME m \notin S PROVE FALSE
    OBVIOUS
  <2>1. PICK x \in S : TRUE
    OBVIOUS
  <2>2. m - 1 \in Nat /\ \A y \in S : y <= m - 1
    BY <2>1
  <2>. QED
    BY <1>4, <2>2
<1>6. \A x \in S : m >= x
  OBVIOUS
<1>. QED
  BY <1>5, <1>6 DEF Max

-----------------------------------------------------------------------------
(***************************************************************************)
(* The rows of an overlay read at some time: the overlay's first row is    *)
(* among them, and when it is not dated after the comments, the rows are   *)
(* read in the order of their chain.                                       *)
(***************************************************************************)
Bound(rows) == \E i \in DOMAIN rows : Body(rows[i]).adds = Created

CreatedFirst(rows) ==
    \A i, j \in DOMAIN rows :
      Body(rows[i]).adds = Created => Body(rows[i]).at <= Body(rows[j]).at

InChainOrder(rows, c) == rows = [i \in 1 .. Len(c) |-> SubSeq(c, 1, i)]

CommentsBy(c, time) ==
    \A k \in 2 .. Len(c) : c[k].adds # Created /\ c[k].at <= time

ReadInOrder(rows, time) ==
    rows # <<>> =>
      /\ Bound(rows)
      /\ CreatedFirst(rows) => \E c \in Seq(EventBodies) :
                                 InChainOrder(rows, c) /\ CommentsBy(c, time)

(***************************************************************************)
(* The inductive invariant.                                                *)
(***************************************************************************)
Clock == now \in Times \cup {1}

OneChainEach ==
    \A r \in Roots : \E c \in Seq(ActionBodies) : Orders(actions[r], c)

DatedChains == \A o \in Overlays : ReadInOrder(events[o], now)

OnRecord == {row.patch : row \in patches}

Recorded ==
    /\ TypeOK
    /\ Clock
    /\ OneChainEach
    /\ DatedChains
    /\ EventsNamePatches

-----------------------------------------------------------------------------
LEMMA InRows ==
    ASSUME NEW rows, NEW id
    PROVE  id \in ToSet(rows) <=> \E i \in DOMAIN rows : rows[i] = id
BY DEF ToSet

LEMMA BodyFields ==
    ASSUME NEW b \in EventBodies
    PROVE  /\ b.adds \in {Created} \cup {Adding(c) : c \in Comments}
           /\ b.at \in Times
BY DEF EventBodies

LEMMA CommentRow ==
    ASSUME NEW patch \in Comments
    PROVE  /\ [adds |-> Adding(patch), at |-> patch.at] \in EventBodies
           /\ Adding(patch) # Created
           /\ patch.at \in Times
BY DEF EventBodies, Comments, Adding, Created

LEMMA ChainOrderOrders ==
    ASSUME NEW B, NEW c \in Seq(B), NEW rows, InChainOrder(rows, c)
    PROVE  /\ Orders(rows, c)
           /\ rows \in Seq(Chains(B))
           /\ DOMAIN rows = 1 .. Len(c) /\ Len(rows) = Len(c)
           /\ \A n \in 1 .. Len(c) :
                rows[n] = SubSeq(c, 1, n) /\ Body(rows[n]) = c[n]
<1>0. Len(c) \in Nat
  BY LenProperties
<1>1. /\ DOMAIN rows = 1 .. Len(c)
      /\ \A n \in 1 .. Len(c) : rows[n] = SubSeq(c, 1, n)
  BY DEF InChainOrder
<1>2. \A n \in 1 .. Len(c) : /\ SubSeq(c, 1, n) \in Chains(B)
                             /\ Body(SubSeq(c, 1, n)) = c[n]
  BY PrefixParts
<1>3. rows \in [1 .. Len(c) -> Chains(B)]
  BY <1>2 DEF InChainOrder
<1>4. rows \in Seq(Chains(B)) /\ Len(rows) = Len(c)
  BY <1>0, <1>3, SeqDef, LenProperties
<1>5. ToSet(rows) = PrefixesOf(c)
  BY <1>1 DEF ToSet, PrefixesOf
<1>6. ASSUME NEW i \in DOMAIN rows, NEW j \in DOMAIN rows, rows[i] = rows[j]
      PROVE  i = j
  <2>1. i \in 0 .. Len(c) /\ j \in 0 .. Len(c)
    BY <1>0, <1>1
  <2>2. SubSeq(c, 1, i) = SubSeq(c, 1, j)
    BY <1>1, <1>6
  <2>. QED
    BY <2>1, <2>2, PrefixesDiffer
<1>. QED
  BY <1>1, <1>2, <1>4, <1>5, <1>6 DEF Orders

LEMMA LastRow ==
    ASSUME NEW B, NEW rows \in Seq(Chains(B)), rows # <<>>
    PROVE  chainHead(rows) \in Chains(B) /\ chainHead(rows) = rows[Len(rows)]
<1>1. Len(rows) \in 1 .. Len(rows)
  BY EmptySeq
<1>2. rows[Len(rows)] \in Chains(B)
  BY <1>1, ElementOfSeq
<1>. QED
  BY <1>2 DEF chainHead, Last

(***************************************************************************)
(* A comment's row comes in at the end, when its overlay is not dated      *)
(* after it.                                                               *)
(***************************************************************************)
LEMMA CommentRows ==
    ASSUME NEW rows \in Seq(Chains(EventBodies)), rows # <<>>,
           NEW patch \in Comments
    PROVE  /\ commentEvent(rows, patch) \in Seq(Chains(EventBodies))
           /\ \E id \in Chains(EventBodies) :
                /\ id = Append(chainHead(rows),
                               [adds |-> Adding(patch), at |-> patch.at])
                /\ Body(id).adds = {patch} /\ Body(id).at = patch.at
                /\ commentEvent(rows, patch) = insert(rows, id)
                /\ ToSet(commentEvent(rows, patch)) = ToSet(rows) \cup {id}
<1> DEFINE b == [adds |-> Adding(patch), at |-> patch.at]
           id == Append(chainHead(rows), b)
<1>1. b \in EventBodies /\ b.adds = {patch} /\ b.at = patch.at
  BY CommentRow DEF Adding
<1>2. chainHead(rows) \in Seq(EventBodies)
  BY LastRow DEF Chains
<1>3. commentEvent(rows, patch) = insert(rows, id)
  BY DEF commentEvent
<1> HIDE DEF b
<1>4. id \in Chains(EventBodies) /\ Body(id) = b
  BY <1>1, <1>2, AppendParts
<1> HIDE DEF id
<1>5. /\ insert(rows, id) \in Seq(Chains(EventBodies))
      /\ ToSet(insert(rows, id)) = ToSet(rows) \cup {id}
  BY <1>4, InsertAdds
<1>. QED
  BY <1>1, <1>3, <1>4, <1>5 DEF id, b

LEMMA CommentKeepsOrder ==
    ASSUME NEW rows \in Seq(Chains(EventBodies)), rows # <<>>,
           NEW patch \in Comments, ReadInOrder(rows, patch.at)
    PROVE  ReadInOrder(commentEvent(rows, patch), patch.at)
<1> DEFINE new == commentEvent(rows, patch)
<1>1. new \in Seq(Chains(EventBodies))
  BY CommentRows
<1>2. PICK id \in Chains(EventBodies) :
        /\ id = Append(chainHead(rows), [adds |-> Adding(patch), at |-> patch.at])
        /\ Body(id).adds = {patch} /\ Body(id).at = patch.at
        /\ new = insert(rows, id)
        /\ ToSet(new) = ToSet(rows) \cup {id}
  BY CommentRows
<1> HIDE DEF new
<1>3. ASSUME NEW i \in DOMAIN rows PROVE \E j \in DOMAIN new : new[j] = rows[i]
  <2>1. rows[i] \in ToSet(new)
    BY <1>2, InRows
  <2>. QED
    BY <2>1, InRows
<1>4. \E j \in DOMAIN new : new[j] = id
  BY <1>2, InRows
<1>5. Bound(new)
  BY <1>3 DEF ReadInOrder, Bound
<1>6. ASSUME CreatedFirst(new)
      PROVE  \E c \in Seq(EventBodies) :
               InChainOrder(new, c) /\ CommentsBy(c, patch.at)
  <2>1. CreatedFirst(rows)
    BY <1>3, <1>6 DEF CreatedFirst
  <2>2. PICK c \in Seq(EventBodies) :
          InChainOrder(rows, c) /\ CommentsBy(c, patch.at)
    BY <2>1 DEF ReadInOrder
  <2>3. /\ Orders(rows, c)
        /\ DOMAIN rows = 1 .. Len(c) /\ Len(rows) = Len(c)
        /\ \A n \in 1 .. Len(c) :
             rows[n] = SubSeq(c, 1, n) /\ Body(rows[n]) = c[n]
    BY <2>2, ChainOrderOrders
  <2>4. Len(c) \in Nat \ {0}
    BY <2>3, EmptySeq
  <2>5. chainHead(rows) = c
    BY <2>3, <2>4, LastRow, SubSeqFull
  <2> DEFINE b == [adds |-> Adding(patch), at |-> patch.at]
  <2>6. b \in EventBodies /\ b.adds # Created /\ b.at = patch.at
    BY CommentRow
  <2>7. id = Append(c, b)
    BY <1>2, <2>5
  <2> HIDE DEF b
  <2>8. /\ id \notin ToSet(rows)
        /\ id \in Seq(EventBodies) /\ Len(id) = Len(c) + 1
        /\ \A k \in 1 .. Len(c) : id[k] = c[k]
        /\ id[Len(c) + 1] = b
        /\ \A n \in 1 .. Len(c) : SubSeq(id, 1, n) = SubSeq(c, 1, n)
        /\ SubSeq(id, 1, Len(c) + 1) = id
    BY <2>3, <2>6, <2>7, AppendsToChain, AppendProperties, AppendParts
  <2>9. \A i \in DOMAIN rows : Body(rows[i]).at <= Body(id).at
    <3> SUFFICES ASSUME NEW i \in 1 .. Len(c)
                 PROVE  c[i].at <= patch.at
      BY <1>2, <2>3
    <3>1. CASE i \in 2 .. Len(c)
      BY <2>2, <3>1 DEF CommentsBy
    <3>2. CASE i = 1
      <4>1. PICK n \in 1 .. Len(c) : c[n].adds = Created
        BY <2>3 DEF ReadInOrder, Bound
      <4>2. n = 1
        BY <2>2, <2>4, <4>1 DEF CommentsBy
      <4>3. Body(rows[1]).adds = Created /\ Body(rows[1]) = c[1] /\ 1 \in DOMAIN rows
        BY <2>3, <2>4, <4>1, <4>2
      <4>4. PICK j \in DOMAIN new : new[j] = id
        BY <1>4
      <4>5. PICK k \in DOMAIN new : new[k] = rows[1]
        BY <1>3, <4>3
      <4>. QED
        BY <1>2, <1>6, <3>2, <4>3, <4>4, <4>5 DEF CreatedFirst
    <3>. QED
      BY <2>4, <3>1, <3>2
  <2>10. InsertedAt(new, rows, id, Len(rows) + 1)
    BY <1>2, <2>8, <2>9, InsertPlaces
  <2>11. DOMAIN new = 1 .. Len(id)
    BY <1>1, <2>3, <2>8, <2>10, LenProperties DEF InsertedAt
  <2>12. ASSUME NEW n \in 1 .. Len(id) PROVE new[n] = SubSeq(id, 1, n)
    <3>1. CASE n \in 1 .. Len(c)
      BY <2>3, <2>4, <2>8, <2>10, <3>1 DEF InsertedAt
    <3>2. CASE n = Len(c) + 1
      BY <2>3, <2>4, <2>8, <2>10, <3>2 DEF InsertedAt
    <3>. QED
      BY <2>4, <2>8, <3>1, <3>2
  <2>13. InChainOrder(new, id)
    <3>1. new \in [1 .. Len(id) -> Chains(EventBodies)]
      BY <1>1, <2>11, LenProperties
    <3>. QED
      BY <2>12, <3>1 DEF InChainOrder
  <2>14. CommentsBy(id, patch.at)
    <3> SUFFICES ASSUME NEW k \in 2 .. Len(c) + 1
                 PROVE  id[k].adds # Created /\ id[k].at <= patch.at
      BY <2>8 DEF CommentsBy
    <3>1. CASE k \in 2 .. Len(c)
      BY <2>2, <2>4, <2>8, <3>1 DEF CommentsBy
    <3>2. CASE k = Len(c) + 1
      <4>1. id[k] = b
        BY <2>8, <3>2
      <4>2. patch.at \in Times
        BY CommentRow
      <4>3. patch.at \in Nat
        BY <4>2 DEF Times
      <4>. QED
        BY <2>6, <4>1, <4>3
    <3>. QED
      BY <2>4, <3>1, <3>2
  <2>. QED
    BY <2>8, <2>13, <2>14
<1>. QED
  BY <1>5, <1>6 DEF ReadInOrder, new

LEMMA LaterKeepsOrder ==
    ASSUME NEW rows, NEW t \in Nat, NEW u \in Nat, t <= u, ReadInOrder(rows, t)
    PROVE  ReadInOrder(rows, u)
<1> SUFFICES ASSUME NEW c \in Seq(EventBodies), CommentsBy(c, t)
             PROVE  CommentsBy(c, u)
  BY DEF ReadInOrder
<1> SUFFICES ASSUME NEW k \in 2 .. Len(c)
             PROVE  c[k].at <= u
  BY DEF CommentsBy
<1>1. c[k].at \in Nat
  BY ElementOfSeq, LenProperties, BodyFields DEF Times
<1>. QED
  BY <1>1 DEF CommentsBy

(***************************************************************************)
(* The overlay's own row is its first.                                     *)
(***************************************************************************)
LEMMA FirstRow ==
    ASSUME NEW b \in EventBodies, b.adds = Created, NEW t
    PROVE  /\ insert(<<>>, <<b>>) \in Seq(Chains(EventBodies))
           /\ ToSet(insert(<<>>, <<b>>)) = {<<b>>}
           /\ Body(<<b>>) = b
           /\ ReadInOrder(insert(<<>>, <<b>>), t)
<1> DEFINE id == <<b>>
           none == <<>>
           new == insert(none, id)
<1>1. /\ id \in Seq(EventBodies) /\ id # <<>> /\ Len(id) = 1 /\ id[1] = b
      /\ Body(id) = b
  BY DEF Body, Last
<1>2. id \in Chains(EventBodies)
  BY <1>1 DEF Chains
<1> HIDE DEF id
<1>3. none \in Seq(Chains(EventBodies)) /\ Len(none) = 0 /\ ToSet(none) = {}
  BY EmptySeq DEF ToSet
<1> HIDE DEF none
<1>4. new \in Seq(Chains(EventBodies)) /\ ToSet(new) = {id}
  <2>1. new \in Seq(Chains(EventBodies)) /\ ToSet(new) = ToSet(none) \cup {id}
    BY <1>2, <1>3, InsertAdds
  <2>. QED
    BY <1>3, <2>1
<1>5. InsertedAt(new, none, id, 1)
  <2>1. PICK p \in 1 .. Len(none) + 1 : InsertedAt(new, none, id, p)
    BY <1>2, <1>3, InsertPlaces
  <2>2. p = 1
    BY <1>3
  <2>. QED
    BY <2>1, <2>2
<1> HIDE DEF new
<1>6. Len(new) = 1 /\ DOMAIN new = 1 .. 1 /\ new[1] = id
  BY <1>3, <1>4, <1>5, LenProperties DEF InsertedAt
<1>7. Bound(new)
  BY <1>1, <1>6 DEF Bound
<1>8. InChainOrder(new, id)
  <2>1. new \in [1 .. 1 -> Chains(EventBodies)]
    BY <1>4, <1>6, LenProperties
  <2>2. SubSeq(id, 1, 1) = id
    BY <1>1, SubSeqFull
  <2>. QED
    BY <1>1, <1>6, <2>1, <2>2 DEF InChainOrder
<1>9. CommentsBy(id, t)
  BY <1>1 DEF CommentsBy
<1>. QED
  BY <1>1, <1>4, <1>7, <1>8, <1>9 DEF ReadInOrder, id, new, none

-----------------------------------------------------------------------------
(***************************************************************************)
(* What one handler does to the rows.                                      *)
(***************************************************************************)
LEMMA ActionTaken ==
    ASSUME TypeOK, OneChainEach, NEW r \in Roots, NEW kind \in Kinds, NEW at \in Times,
           postCommitteeAction(r, kind, at)
    PROVE  \E c \in Seq(ActionBodies), b \in ActionBodies :
             /\ b = [kind |-> kind, at |-> at]
             /\ Orders(actions[r], c)
             /\ actions'[r] \in Seq(Chains(ActionBodies))
             /\ Append(c, b) \in Seq(ActionBodies)
             /\ Orders(actions'[r], Append(c, b))
             /\ actions' = [actions EXCEPT ![r] = actions'[r]]
<1> DEFINE b == [kind |-> kind, at |-> at]
<1>1. b \in ActionBodies
  BY DEF ActionBodies
<1>2. actions[r] \in Seq(Chains(ActionBodies)) /\ DOMAIN actions = Roots
  BY DEF TypeOK
<1>3. PICK c \in Seq(ActionBodies) : Orders(actions[r], c)
  BY DEF OneChainEach
<1>4. chainTail(actions[r]) = c
  BY <1>2, <1>3, TailOfChain
<1>5. actions' = [actions EXCEPT ![r] = insert(@, Append(chainTail(@), b))]
  BY DEF postCommitteeAction
<1> HIDE DEF b
<1>6. actions'[r] = insert(actions[r], Append(c, b))
  BY <1>2, <1>4, <1>5
<1>7. /\ actions'[r] \in Seq(Chains(ActionBodies))
      /\ Append(c, b) \in Seq(ActionBodies)
      /\ Orders(actions'[r], Append(c, b))
  BY <1>1, <1>2, <1>3, <1>6, AppendsToChain, AppendProperties
<1>8. actions' = [actions EXCEPT ![r] = actions'[r]]
  BY <1>2, <1>5
<1>. QED
  BY <1>1, <1>3, <1>7, <1>8 DEF b

LEMMA OverlayPosted ==
    ASSUME TypeOK, DatedChains, NEW o \in Overlays, NEW at \in Times,
           postOverlay(o, at)
    PROVE  /\ events[o] = <<>>
           /\ events'[o] \in Seq(Chains(EventBodies))
           /\ ReadInOrder(events'[o], now)
           /\ \E id \in Chains(EventBodies) :
                Body(id).adds = Created /\ ToSet(events'[o]) = {id}
           /\ events' = [events EXCEPT ![o] = events'[o]]
<1> DEFINE b == [adds |-> Created, at |-> at]
<1>1. b \in EventBodies /\ b.adds = Created
  BY DEF EventBodies
<1>2. events[o] = <<>>
  BY DEF DatedChains, ReadInOrder, Bound, postOverlay, getOverlayBinding
<1>3. events' = [events EXCEPT ![o] = insert(@, <<b>>)] /\ DOMAIN events = Overlays
  BY DEF postOverlay, TypeOK
<1> HIDE DEF b
<1>4. events'[o] = insert(<<>>, <<b>>)
  BY <1>2, <1>3
<1>5. <<b>> \in Chains(EventBodies)
  BY <1>1 DEF Chains
<1>6. events' = [events EXCEPT ![o] = events'[o]]
  BY <1>3
<1>7. /\ insert(<<>>, <<b>>) \in Seq(Chains(EventBodies))
      /\ ToSet(insert(<<>>, <<b>>)) = {<<b>>}
      /\ Body(<<b>>) = b
      /\ ReadInOrder(insert(<<>>, <<b>>), now)
  BY <1>1, FirstRow
<1>. QED
  BY <1>1, <1>2, <1>4, <1>5, <1>6, <1>7

LEMMA NowIsATime ==
    ASSUME TypeOK, Clock, NEW o \in Overlays, getOverlayBinding(o)
    PROVE  now \in Times /\ events[o] # <<>>
<1>1. PICK i \in DOMAIN events[o] : Body(events[o][i]).adds = Created
  BY DEF getOverlayBinding
<1>2. events[o] \in Seq(Chains(EventBodies))
  BY DEF TypeOK
<1>3. events[o][i] \in Chains(EventBodies)
  BY <1>1, <1>2, ElementOfSeq, LenProperties
<1>4. Body(events[o][i]).at \in Times
  BY <1>3, ChainParts, BodyFields
<1>5. now \in Times
  BY <1>4, BoundsAssumption DEF Clock, Times
<1>6. events[o] # <<>>
  BY <1>1
<1>. QED
  BY <1>5, <1>6

LEMMA PatchInserted ==
    ASSUME TypeOK, NEW o \in Overlays, NEW patch \in Comments
    PROVE  /\ insertPatch(o, patch) \subseteq [patch : Comments, overlay : Overlays]
           /\ {row.patch : row \in insertPatch(o, patch)} = OnRecord \cup {patch}
<1>1. patches \subseteq [patch : Comments, overlay : Overlays]
  BY DEF TypeOK
<1>2. CASE \E row \in patches : row.patch = patch
  BY <1>1, <1>2 DEF insertPatch, OnRecord
<1>3. CASE ~\E row \in patches : row.patch = patch
  <2> DEFINE new == [patch |-> patch, overlay |-> o]
  <2>1. insertPatch(o, patch) = patches \cup {new}
    BY <1>3 DEF insertPatch
  <2>2. new \in [patch : Comments, overlay : Overlays] /\ new.patch = patch
    OBVIOUS
  <2> HIDE DEF new
  <2>. QED
    BY <1>1, <2>1, <2>2 DEF OnRecord
<1>. QED
  BY <1>2, <1>3

LEMMA CommentPosted ==
    ASSUME TypeOK, Clock, DatedChains, NEW o \in Overlays, NEW text \in Texts,
           postOverlayComment(o, text)
    PROVE  \E patch \in Comments :
             /\ events[o] # <<>>
             /\ events'[o] \in Seq(Chains(EventBodies))
             /\ ReadInOrder(events'[o], now)
             /\ \E id \in Chains(EventBodies) :
                  /\ Body(id).adds = {patch}
                  /\ ToSet(events'[o]) = ToSet(events[o]) \cup {id}
             /\ events' = [events EXCEPT ![o] = events'[o]]
             /\ OnRecord' = OnRecord \cup {patch}
             /\ patches' \subseteq [patch : Comments, overlay : Overlays]
<1> DEFINE patch == [text |-> text, at |-> now]
<1>1. now \in Times /\ events[o] # <<>>
  BY NowIsATime DEF postOverlayComment
<1>2. patch \in Comments /\ patch.at = now
  BY <1>1 DEF Comments
<1>3. /\ patches' = insertPatch(o, patch)
      /\ events' = [events EXCEPT ![o] = commentEvent(@, patch)]
      /\ DOMAIN events = Overlays
      /\ events[o] \in Seq(Chains(EventBodies))
  BY DEF postOverlayComment, TypeOK
<1> HIDE DEF patch
<1>4. /\ events'[o] = commentEvent(events[o], patch)
      /\ events' = [events EXCEPT ![o] = events'[o]]
  BY <1>3
<1>5. events'[o] \in Seq(Chains(EventBodies)) /\ ReadInOrder(events'[o], now)
  <2>1. ReadInOrder(events[o], patch.at)
    BY <1>2 DEF DatedChains
  <2>. QED
    BY <1>1, <1>2, <1>3, <1>4, <2>1, CommentRows, CommentKeepsOrder
<1>6. \E id \in Chains(EventBodies) :
        /\ Body(id).adds = {patch}
        /\ ToSet(events'[o]) = ToSet(events[o]) \cup {id}
  <2>1. PICK id \in Chains(EventBodies) :
          /\ Body(id).adds = {patch}
          /\ ToSet(commentEvent(events[o], patch)) = ToSet(events[o]) \cup {id}
    BY <1>1, <1>2, <1>3, CommentRows
  <2>. QED
    BY <1>4, <2>1
<1>7. /\ OnRecord' = OnRecord \cup {patch}
      /\ patches' \subseteq [patch : Comments, overlay : Overlays]
  BY <1>2, <1>3, PatchInserted DEF OnRecord
<1>. QED
  BY <1>1, <1>2, <1>4, <1>5, <1>6, <1>7

LEMMA CommentCut ==
    ASSUME TypeOK, Clock, NEW o \in Overlays, NEW text \in Texts,
           postOverlayCommentCut(o, text)
    PROVE  \E patch \in Comments :
             /\ OnRecord' = OnRecord \cup {patch}
             /\ patches' \subseteq [patch : Comments, overlay : Overlays]
             /\ UNCHANGED <<now, actions, events>>
             /\ crashes' = crashes + 1
<1> DEFINE patch == [text |-> text, at |-> now]
<1>1. now \in Times
  BY NowIsATime DEF postOverlayCommentCut
<1>2. patch \in Comments
  BY <1>1 DEF Comments
<1>3. patches' = insertPatch(o, patch)
  BY DEF postOverlayCommentCut
<1> HIDE DEF patch
<1>4. /\ OnRecord' = OnRecord \cup {patch}
      /\ patches' \subseteq [patch : Comments, overlay : Overlays]
  BY <1>2, <1>3, PatchInserted DEF OnRecord
<1>. QED
  BY <1>2, <1>4 DEF postOverlayCommentCut

-----------------------------------------------------------------------------
LEMMA RecordedInit == Init => Recorded
<1> SUFFICES ASSUME Init PROVE Recorded
  OBVIOUS
<1>1. TypeOK /\ Clock
  BY BoundsAssumption DEF Init, TypeOK, Clock, Times
<1>2. Orders(<<>>, <<>>)
  <2>1. DOMAIN <<>> = {} /\ Len(<<>>) = 0 /\ 1 .. 0 = {}
    OBVIOUS
  <2>. QED
    BY <2>1 DEF Orders, ToSet, PrefixesOf
<1>3. OneChainEach
  BY <1>2, EmptySeq DEF Init, OneChainEach
<1>4. DatedChains /\ EventsNamePatches
  BY DEF Init, DatedChains, ReadInOrder, EventsNamePatches
<1>. QED
  BY <1>1, <1>3, <1>4 DEF Recorded

(***************************************************************************)
(* EventsNamePatches, in terms of the set of rows.                         *)
(***************************************************************************)
LEMMA NamesByRows ==
    ASSUME NEW rows
    PROVE  (\A i \in DOMAIN rows : Body(rows[i]).adds \subseteq OnRecord) <=>
             (\A id \in ToSet(rows) : Body(id).adds \subseteq OnRecord)
BY DEF ToSet

LEMMA RecordedStep == Recorded /\ [Next]_vars => Recorded'
<1> SUFFICES ASSUME Recorded, [Next]_vars PROVE Recorded'
  OBVIOUS
<1> USE DEF Recorded
<1>1. CASE Tick
  <2>1. now \in Nat /\ now + 1 \in Times
    BY <1>1, BoundsAssumption DEF Tick, TypeOK, Clock, Times
  <2>2. TypeOK' /\ Clock'
    BY <1>1, <2>1 DEF Tick, TypeOK, Clock
  <2>3. OneChainEach'
    BY <1>1 DEF Tick, OneChainEach
  <2>4. DatedChains'
    <3> SUFFICES ASSUME NEW o \in Overlays PROVE ReadInOrder(events[o], now + 1)
      BY <1>1 DEF Tick, DatedChains
    <3>. QED
      BY <2>1, LaterKeepsOrder DEF DatedChains
  <2>5. EventsNamePatches'
    BY <1>1 DEF Tick, EventsNamePatches
  <2>. QED
    BY <2>2, <2>3, <2>4, <2>5
<1>2. CASE \E r \in Roots, k \in Kinds, at \in Times : postCommitteeAction(r, k, at)
  <2>1. PICK r \in Roots, k \in Kinds, at \in Times : postCommitteeAction(r, k, at)
    BY <1>2
  <2>2. PICK c \in Seq(ActionBodies), b \in ActionBodies :
          /\ actions'[r] \in Seq(Chains(ActionBodies))
          /\ Append(c, b) \in Seq(ActionBodies)
          /\ Orders(actions'[r], Append(c, b))
          /\ actions' = [actions EXCEPT ![r] = actions'[r]]
    BY <2>1, ActionTaken
  <2>3. UNCHANGED <<now, events, patches, crashes>>
    BY <2>1 DEF postCommitteeAction
  <2>4. TypeOK' /\ Clock'
    BY <2>2, <2>3 DEF TypeOK, Clock
  <2>5. OneChainEach'
    <3> SUFFICES ASSUME NEW d \in Roots
                 PROVE  \E e \in Seq(ActionBodies) : Orders(actions'[d], e)
      BY DEF OneChainEach
    <3>1. CASE d = r
      BY <2>2, <3>1
    <3>2. CASE d # r
      <4>1. actions'[d] = actions[d]
        BY <2>2, <3>2 DEF TypeOK
      <4>. QED
        BY <4>1 DEF OneChainEach
    <3>. QED
      BY <3>1, <3>2
  <2>6. DatedChains' /\ EventsNamePatches'
    BY <2>3 DEF DatedChains, EventsNamePatches
  <2>. QED
    BY <2>4, <2>5, <2>6
<1>3. CASE \E o \in Overlays, at \in Times : postOverlay(o, at)
  <2>1. PICK o \in Overlays, at \in Times : postOverlay(o, at)
    BY <1>3
  <2>2. /\ events'[o] \in Seq(Chains(EventBodies))
        /\ ReadInOrder(events'[o], now)
        /\ events' = [events EXCEPT ![o] = events'[o]]
    BY <2>1, OverlayPosted
  <2>3. UNCHANGED <<now, actions, patches, crashes>>
    BY <2>1 DEF postOverlay
  <2>4. TypeOK' /\ Clock' /\ OneChainEach'
    BY <2>2, <2>3 DEF TypeOK, Clock, OneChainEach
  <2>5. ASSUME NEW p \in Overlays, p # o PROVE events'[p] = events[p]
    BY <2>2, <2>5 DEF TypeOK
  <2>6. DatedChains'
    BY <2>2, <2>3, <2>5 DEF DatedChains
  <2>7. EventsNamePatches'
    <3> SUFFICES ASSUME NEW p \in Overlays
                 PROVE  \A i \in DOMAIN events'[p] :
                          Body(events'[p][i]).adds \subseteq OnRecord
      BY <2>3 DEF EventsNamePatches, OnRecord
    <3>1. CASE p = o
      <4>1. PICK id \in Chains(EventBodies) :
              Body(id).adds = Created /\ ToSet(events'[o]) = {id}
        BY <2>1, OverlayPosted
      <4>. QED
        BY <3>1, <4>1 DEF Created, ToSet
    <3>2. CASE p # o
      BY <2>5, <3>2 DEF EventsNamePatches, OnRecord
    <3>. QED
      BY <3>1, <3>2
  <2>. QED
    BY <2>4, <2>6, <2>7
<1>4. CASE \E o \in Overlays, t \in Texts : postOverlayComment(o, t)
  <2>1. PICK o \in Overlays, t \in Texts : postOverlayComment(o, t)
    BY <1>4
  <2>2. PICK patch \in Comments :
          /\ events'[o] \in Seq(Chains(EventBodies))
          /\ ReadInOrder(events'[o], now)
          /\ \E id \in Chains(EventBodies) :
               /\ Body(id).adds = {patch}
               /\ ToSet(events'[o]) = ToSet(events[o]) \cup {id}
          /\ events' = [events EXCEPT ![o] = events'[o]]
          /\ OnRecord' = OnRecord \cup {patch}
          /\ patches' \subseteq [patch : Comments, overlay : Overlays]
    BY <2>1, CommentPosted
  <2>3. UNCHANGED <<now, actions, crashes>>
    BY <2>1 DEF postOverlayComment
  <2>4. TypeOK' /\ Clock' /\ OneChainEach'
    BY <2>2, <2>3 DEF TypeOK, Clock, OneChainEach
  <2>5. ASSUME NEW p \in Overlays, p # o PROVE events'[p] = events[p]
    BY <2>2, <2>5 DEF TypeOK
  <2>6. DatedChains'
    BY <2>2, <2>3, <2>5 DEF DatedChains
  <2>7. EventsNamePatches'
    <3> SUFFICES ASSUME NEW p \in Overlays
                 PROVE  \A i \in DOMAIN events'[p] :
                          Body(events'[p][i]).adds \subseteq OnRecord'
      BY DEF EventsNamePatches, OnRecord
    <3>1. CASE p = o
      <4>1. \A id \in ToSet(events[o]) : Body(id).adds \subseteq OnRecord
        BY NamesByRows DEF EventsNamePatches, OnRecord
      <4>2. \A id \in ToSet(events'[o]) : Body(id).adds \subseteq OnRecord'
        BY <2>2, <4>1
      <4>. QED
        BY <3>1, <4>2 DEF ToSet
    <3>2. CASE p # o
      <4>1. \A i \in DOMAIN events[p] : Body(events[p][i]).adds \subseteq OnRecord
        BY DEF EventsNamePatches, OnRecord
      <4>. QED
        BY <2>2, <2>5, <3>2, <4>1
    <3>. QED
      BY <3>1, <3>2
  <2>. QED
    BY <2>4, <2>6, <2>7
<1>5. CASE \E o \in Overlays, t \in Texts : postOverlayCommentCut(o, t)
  <2>1. PICK o \in Overlays, t \in Texts : postOverlayCommentCut(o, t)
    BY <1>5
  <2>2. PICK patch \in Comments :
          /\ OnRecord' = OnRecord \cup {patch}
          /\ patches' \subseteq [patch : Comments, overlay : Overlays]
          /\ UNCHANGED <<now, actions, events>>
          /\ crashes' = crashes + 1
    BY <2>1, CommentCut
  <2>3. TypeOK' /\ Clock' /\ OneChainEach' /\ DatedChains'
    BY <2>2 DEF TypeOK, Clock, OneChainEach, DatedChains
  <2>4. EventsNamePatches'
    BY <2>2 DEF EventsNamePatches, OnRecord
  <2>. QED
    BY <2>3, <2>4
<1>6. CASE UNCHANGED vars
  BY <1>6 DEF vars, TypeOK, Clock, OneChainEach, DatedChains, EventsNamePatches
<1>. QED
  BY <1>1, <1>2, <1>3, <1>4, <1>5, <1>6 DEF Next

LEMMA AlwaysRecorded == Spec => []Recorded
BY RecordedInit, RecordedStep, PTL DEF Spec

-----------------------------------------------------------------------------
(***************************************************************************)
(* The state is of its type: in particular what an action follows, the     *)
(* first row that nothing refers to (chainTail), is always a row or        *)
(* nothing at all.                                                         *)
(***************************************************************************)
THEOREM TypeCorrect == Spec => []TypeOK
<1>1. Recorded => TypeOK
  BY DEF Recorded
<1>. QED
  BY AlwaysRecorded, <1>1, PTL

(***************************************************************************)
(* The actions on a deal form one chain, of which the walk drops none,     *)
(* however clients date them (sortActionChain over what chainTail built):  *)
(* a new one follows the last of the chain, wherever it is read.           *)
(***************************************************************************)
LEMMA WalkOfActions ==
    ASSUME Recorded, NEW r \in Roots
    PROVE  \E c \in Seq(ActionBodies) :
             Orders(actions[r], c) /\ sortActionChain(r) = c
<1>1. actions[r] \in Seq(Chains(ActionBodies))
  BY DEF Recorded, TypeOK
<1>2. PICK c \in Seq(ActionBodies) : Orders(actions[r], c)
  BY DEF Recorded, OneChainEach
<1>3. sortActionChain(r) = c
  BY <1>1, <1>2, WalkOfChain DEF sortActionChain
<1>. QED
  BY <1>2, <1>3

THEOREM ActionsFormOneChain == Spec => []ActionsAreOneChain
<1>1. Recorded => ActionsAreOneChain
  <2> SUFFICES ASSUME Recorded, NEW r \in Roots
               PROVE  /\ Len(sortActionChain(r)) = Len(actions[r])
                      /\ \A i, j \in DOMAIN actions[r] :
                           \/ IsPrefix(actions[r][i], actions[r][j])
                           \/ IsPrefix(actions[r][j], actions[r][i])
    BY DEF ActionsAreOneChain
  <2>1. actions[r] \in Seq(Chains(ActionBodies))
    BY DEF Recorded, TypeOK
  <2>2. PICK c \in Seq(ActionBodies) :
          Orders(actions[r], c) /\ sortActionChain(r) = c
    BY WalkOfActions
  <2>3. Len(sortActionChain(r)) = Len(actions[r])
    BY <2>2 DEF Orders
  <2>4. ASSUME NEW i \in DOMAIN actions[r], NEW j \in DOMAIN actions[r]
        PROVE  \/ IsPrefix(actions[r][i], actions[r][j])
               \/ IsPrefix(actions[r][j], actions[r][i])
    BY <2>1, <2>2, RowsCompare
  <2>. QED
    BY <2>3, <2>4
<1>. QED
  BY AlwaysRecorded, <1>1, PTL

(***************************************************************************)
(* An event names a comment on record: the route inserts the patch before  *)
(* its event, and no patch is ever removed.                                *)
(***************************************************************************)
THEOREM EventsHavePatches == Spec => []EventsNamePatches
<1>1. Recorded => EventsNamePatches
  BY DEF Recorded
<1>. QED
  BY AlwaysRecorded, <1>1, PTL

(***************************************************************************)
(* Replay (rebuildAuditChain) shows every comment put on an overlay that   *)
(* is not dated after them: its rows are then read in the order of their   *)
(* chain, so that each comment follows the one before it.                  *)
(***************************************************************************)
LEMMA EmptyWalk == Walk(<<>>) = <<>>
<1>1. \A j \in DOMAIN <<>> : Prev(<<>>[j]) # <<>>
  OBVIOUS
<1>2. \A n \in 1 .. Len(<<>>) : Counts(<<>>, SubSeq(<<>>, 1, n))
  OBVIOUS
<1>3. ToSet(<<>>) = {}
  BY DEF ToSet
<1>. QED
  BY <1>1, <1>2, <1>3 DEF Walk

Shows(c) == UNION {body.adds : body \in ToSet(c)}

THEOREM ReplayIsComplete == Spec => []ReplayShowsEveryComment
<1>1. Recorded => ReplayShowsEveryComment
  <2> SUFFICES ASSUME Recorded, NEW o \in Overlays, DatedBeforeItsComments(o)
               PROVE  Told(o) = replayOverlay(o)
    BY DEF ReplayShowsEveryComment
  <2>1. CASE events[o] = <<>>
    <3>1. rebuildAuditChain(o) = <<>>
      BY <2>1, EmptyWalk DEF rebuildAuditChain
    <3>2. ToSet(<<>>) = {}
      BY DEF ToSet
    <3>. QED
      BY <2>1, <3>1, <3>2 DEF Told, replayOverlay
  <2>2. CASE events[o] # <<>>
    <3>1. CreatedFirst(events[o])
      BY DEF DatedBeforeItsComments, CreatedFirst
    <3>2. PICK c \in Seq(EventBodies) : InChainOrder(events[o], c)
      BY <2>2, <3>1 DEF Recorded, DatedChains, ReadInOrder
    <3>3. /\ Orders(events[o], c)
          /\ events[o] \in Seq(Chains(EventBodies))
          /\ DOMAIN events[o] = 1 .. Len(c)
          /\ \A n \in 1 .. Len(c) : Body(events[o][n]) = c[n]
          /\ DOMAIN c = 1 .. Len(c)
      BY <3>2, ChainOrderOrders, LenProperties
    <3>4. rebuildAuditChain(o) = c
      BY <3>3, WalkOfChain DEF rebuildAuditChain
    <3>5. {Body(id) : id \in ToSet(events[o])} = ToSet(c)
      BY <3>3 DEF ToSet
    <3>6. Told(o) = Shows(c)
      BY <3>5 DEF Told, Shows
    <3>7. Told(o) \subseteq {row.patch : row \in patches}
      <4>1. \A id \in ToSet(events[o]) : Body(id).adds \subseteq OnRecord
        BY NamesByRows DEF Recorded, EventsNamePatches, OnRecord
      <4>. QED
        BY <4>1 DEF Told, OnRecord
    <3>8. replayOverlay(o) =
            Shows(rebuildAuditChain(o)) \cap {row.patch : row \in patches}
      BY DEF replayOverlay, Shows
    <3>. QED
      BY <3>4, <3>6, <3>7, <3>8
  <2>. QED
    BY <2>1, <2>2
<1>. QED
  BY AlwaysRecorded, <1>1, PTL

(***************************************************************************)
(* A comment on record that no timeline tells of is a process death's      *)
(* between the route's two inserts: a comment that is told of stays told   *)
(* of, and only a death leaves a new one untold.                           *)
(***************************************************************************)
AllTold == UNION {Told(o) : o \in Overlays}

Silent ==
    /\ IsFiniteSet(OnRecord)
    /\ Cardinality(OnRecord \ AllTold) <= crashes

LEMMA SilentStep == Recorded /\ Recorded' /\ Silent /\ [Next]_vars => Silent'
<1> SUFFICES ASSUME Recorded, Recorded', Silent, [Next]_vars PROVE Silent'
  OBVIOUS
<1> USE DEF Recorded
<1>0. IsFiniteSet(OnRecord) /\ crashes \in Nat /\ crashes' \in Nat
  BY DEF Silent, TypeOK
<1>1. ASSUME AllTold \subseteq AllTold', crashes <= crashes',
             NEW new, IsFiniteSet(new), OnRecord' = OnRecord \cup new,
             Cardinality(new \ AllTold') <= crashes' - crashes
      PROVE  Silent'
  <2>1. IsFiniteSet(OnRecord')
    BY <1>0, <1>1, FS_Union
  <2> DEFINE old == OnRecord \ AllTold
             late == new \ AllTold'
  <2>2. OnRecord' \ AllTold' \subseteq old \cup late
    BY <1>1
  <2>3. IsFiniteSet(old) /\ IsFiniteSet(late)
    BY <1>0, <1>1, FS_Subset
  <2>4. Cardinality(old) <= crashes /\ Cardinality(late) <= crashes' - crashes
    BY <1>1 DEF Silent
  <2> HIDE DEF old, late
  <2>5. /\ IsFiniteSet(old \cup late)
        /\ Cardinality(old \cup late) =
             Cardinality(old) + Cardinality(late) - Cardinality(old \cap late)
    BY <2>3, FS_Union
  <2>6. Cardinality(old) \in Nat /\ Cardinality(late) \in Nat
        /\ Cardinality(old \cap late) \in Nat /\ Cardinality(old \cup late) \in Nat
    BY <2>3, <2>5, FS_CardinalityType, FS_Intersection
  <2>7. /\ Cardinality(OnRecord' \ AllTold') <= Cardinality(old \cup late)
        /\ Cardinality(OnRecord' \ AllTold') \in Nat
    BY <2>2, <2>5, FS_Subset, FS_CardinalityType
  <2>8. Cardinality(OnRecord' \ AllTold') <= crashes'
    BY <1>0, <2>4, <2>5, <2>6, <2>7
  <2>. QED
    BY <2>1, <2>8 DEF Silent
<1>2. ASSUME UNCHANGED <<events, patches, crashes>> PROVE Silent'
  BY <1>2 DEF Silent, OnRecord, AllTold, Told
<1>3. ASSUME NEW o \in Overlays, ToSet(events[o]) \subseteq ToSet(events'[o]),
             events' = [events EXCEPT ![o] = events'[o]]
      PROVE  AllTold \subseteq AllTold'
  <2>1. ASSUME NEW p \in Overlays PROVE ToSet(events[p]) \subseteq ToSet(events'[p])
    BY <1>3 DEF TypeOK
  <2>2. ASSUME NEW p \in Overlays PROVE Told(p) \subseteq Told(p)'
    BY <2>1 DEF Told
  <2>. QED
    BY <2>2 DEF AllTold
<1>4. CASE Tick
  BY <1>2, <1>4 DEF Tick
<1>5. CASE \E r \in Roots, k \in Kinds, at \in Times : postCommitteeAction(r, k, at)
  BY <1>2, <1>5 DEF postCommitteeAction
<1>6. CASE \E o \in Overlays, at \in Times : postOverlay(o, at)
  <2>1. PICK o \in Overlays, at \in Times : postOverlay(o, at)
    BY <1>6
  <2>2. events[o] = <<>> /\ events' = [events EXCEPT ![o] = events'[o]]
    BY <2>1, OverlayPosted
  <2>3. ToSet(events[o]) \subseteq ToSet(events'[o])
    BY <2>2 DEF ToSet
  <2>4. AllTold \subseteq AllTold'
    BY <1>3, <2>2, <2>3
  <2>5. OnRecord' = OnRecord \cup {} /\ crashes' = crashes
    BY <2>1 DEF postOverlay, OnRecord
  <2>6. IsFiniteSet({}) /\ Cardinality({} \ AllTold') = 0
    BY FS_EmptySet
  <2>. QED
    BY <1>0, <1>1, <2>4, <2>5, <2>6
<1>7. CASE \E o \in Overlays, t \in Texts : postOverlayComment(o, t)
  <2>1. PICK o \in Overlays, t \in Texts : postOverlayComment(o, t)
    BY <1>7
  <2>2. PICK patch \in Comments :
          /\ \E id \in Chains(EventBodies) :
               /\ Body(id).adds = {patch}
               /\ ToSet(events'[o]) = ToSet(events[o]) \cup {id}
          /\ events' = [events EXCEPT ![o] = events'[o]]
          /\ OnRecord' = OnRecord \cup {patch}
    BY <2>1, CommentPosted
  <2>3. AllTold \subseteq AllTold'
    BY <1>3, <2>2
  <2>4. patch \in AllTold'
    BY <2>2 DEF AllTold, Told
  <2>5. IsFiniteSet({patch}) /\ Cardinality({patch} \ AllTold') = 0
    <3>1. {patch} \ AllTold' = {}
      BY <2>4
    <3>. QED
      BY <3>1, FS_EmptySet, FS_Singleton
  <2>6. crashes' = crashes
    BY <2>1 DEF postOverlayComment
  <2>. QED
    BY <1>0, <1>1, <2>2, <2>3, <2>5, <2>6
<1>8. CASE \E o \in Overlays, t \in Texts : postOverlayCommentCut(o, t)
  <2>1. PICK o \in Overlays, t \in Texts : postOverlayCommentCut(o, t)
    BY <1>8
  <2>2. PICK patch \in Comments :
          /\ OnRecord' = OnRecord \cup {patch}
          /\ UNCHANGED <<now, actions, events>>
          /\ crashes' = crashes + 1
    BY <2>1, CommentCut
  <2>3. AllTold' = AllTold
    BY <2>2 DEF AllTold, Told
  <2>4. IsFiniteSet({patch}) /\ Cardinality({patch} \ AllTold') <= 1
    <3>1. IsFiniteSet({patch}) /\ Cardinality({patch}) = 1
      BY FS_Singleton
    <3>. QED
      BY <3>1, FS_Subset
  <2>. QED
    BY <1>0, <1>1, <2>2, <2>3, <2>4
<1>9. CASE UNCHANGED vars
  BY <1>2, <1>9 DEF vars
<1>. QED
  BY <1>4, <1>5, <1>6, <1>7, <1>8, <1>9 DEF Next

THEOREM SilenceIsFaults == Spec => []SilentCommentsAreFaults
<1>1. Init => Silent
  <2>1. Init => OnRecord = {} /\ OnRecord \ AllTold = {} /\ crashes = 0
    BY DEF Init, OnRecord
  <2>. QED
    BY <2>1, FS_EmptySet DEF Silent
<1>2. Silent => SilentCommentsAreFaults
  BY DEF Silent, SilentCommentsAreFaults, OnRecord, AllTold
<1>. QED
  BY AlwaysRecorded, SilentStep, <1>1, <1>2, PTL DEF Spec

-----------------------------------------------------------------------------
(***************************************************************************)
(* What is shown of a deal is one history that grows at its end, and the   *)
(* state is moved by each action as it was taken.                          *)
(***************************************************************************)
LEMMA KindsGrow ==
    ASSUME NEW c \in Seq(ActionBodies), NEW b \in ActionBodies
    PROVE  /\ KindsOf(c) \in Seq(Kinds)
           /\ KindsOf(Append(c, b)) = Append(KindsOf(c), b.kind)
<1>1. Len(c) \in Nat /\ DOMAIN c = 1 .. Len(c) /\ b.kind \in Kinds
  BY LenProperties DEF ActionBodies
<1>2. ASSUME NEW i \in 1 .. Len(c) PROVE c[i].kind \in Kinds
  <2>1. c[i] \in ActionBodies
    BY ElementOfSeq
  <2>. QED
    BY <2>1 DEF ActionBodies
<1>3. KindsOf(c) \in [1 .. Len(c) -> Kinds]
  BY <1>1, <1>2 DEF KindsOf
<1>4. KindsOf(c) \in Seq(Kinds) /\ Len(KindsOf(c)) = Len(c)
  BY <1>1, <1>3, SeqDef, LenProperties
<1> DEFINE longer == Append(c, b)
<1>5. /\ longer \in Seq(ActionBodies) /\ Len(longer) = Len(c) + 1
      /\ DOMAIN longer = 1 .. Len(c) + 1
      /\ \A i \in 1 .. Len(c) : longer[i] = c[i]
      /\ longer[Len(c) + 1] = b
  BY AppendProperties, LenProperties
<1> HIDE DEF longer
<1>6. ASSUME NEW i \in 1 .. Len(c) + 1 PROVE longer[i].kind \in Kinds
  BY <1>1, <1>2, <1>5
<1>7. KindsOf(longer) \in [1 .. Len(c) + 1 -> Kinds]
  BY <1>5, <1>6 DEF KindsOf
<1>8. KindsOf(longer) \in Seq(Kinds) /\ Len(KindsOf(longer)) = Len(c) + 1
  <2>1. Len(c) + 1 \in Nat
    BY <1>1
  <2>. QED
    BY <1>7, <2>1, SeqDef, LenProperties
<1> DEFINE other == Append(KindsOf(c), b.kind)
<1>9. /\ other \in Seq(Kinds) /\ Len(other) = Len(c) + 1
      /\ \A i \in 1 .. Len(c) : other[i] = KindsOf(c)[i]
      /\ other[Len(c) + 1] = b.kind
  BY <1>1, <1>4, AppendProperties
<1> HIDE DEF other
<1>10. ASSUME NEW i \in 1 .. Len(c) + 1 PROVE KindsOf(longer)[i] = other[i]
  <2>1. KindsOf(longer)[i] = longer[i].kind
    BY <1>5 DEF KindsOf
  <2>2. CASE i \in 1 .. Len(c)
    <3>1. KindsOf(c)[i] = c[i].kind
      BY <1>1, <2>2 DEF KindsOf
    <3>. QED
      BY <1>5, <1>9, <2>1, <2>2, <3>1
  <2>3. CASE i = Len(c) + 1
    BY <1>5, <1>9, <2>1, <2>3
  <2>. QED
    BY <1>1, <2>2, <2>3
<1>11. KindsOf(longer) = other
  BY <1>8, <1>9, <1>10, SeqEqual
<1>. QED
  BY <1>4, <1>11 DEF longer, other

LEMMA StateMoves ==
    ASSUME NEW c \in Seq(ActionBodies), NEW b \in ActionBodies, NEW overlay
    PROVE  deriveStateFromChain(Append(c, b), overlay) =
             IF b.kind \in DOMAIN STATE_CHANGING_KINDS THEN STATE_CHANGING_KINDS[b.kind]
             ELSE IF \E i \in DOMAIN c : c[i].kind \in DOMAIN STATE_CHANGING_KINDS
                  THEN deriveStateFromChain(c, overlay)
                  ELSE "IN_COMMITTEE"
<1> DEFINE longer == Append(c, b)
           decisions == {i \in DOMAIN c : c[i].kind \in DOMAIN STATE_CHANGING_KINDS}
           later == {i \in DOMAIN longer :
                       longer[i].kind \in DOMAIN STATE_CHANGING_KINDS}
<1>0. Len(c) \in Nat /\ DOMAIN c = 1 .. Len(c)
  BY LenProperties
<1>1. /\ longer # <<>> /\ DOMAIN longer = 1 .. Len(c) + 1
      /\ \A i \in 1 .. Len(c) : longer[i] = c[i]
      /\ longer[Len(c) + 1] = b
  BY AppendProperties, LenProperties
<1>2. deriveStateFromChain(longer, overlay) =
        IF later = {} THEN "IN_COMMITTEE"
        ELSE STATE_CHANGING_KINDS[longer[Max(later)].kind]
  BY <1>1 DEF deriveStateFromChain
<1> HIDE DEF longer
<1>3. CASE b.kind \in DOMAIN STATE_CHANGING_KINDS
  <2>1. Len(c) + 1 \in later /\ \A i \in later : i <= Len(c) + 1 /\ i \in Nat
    BY <1>0, <1>1, <1>3
  <2> HIDE DEF later
  <2>2. Max(later) = Len(c) + 1
    BY <1>0, <2>1 DEF Max
  <2>. QED
    BY <1>1, <1>2, <1>3, <2>1, <2>2 DEF longer
<1>4. CASE b.kind \notin DOMAIN STATE_CHANGING_KINDS
  <2>1. later = decisions
    BY <1>0, <1>1, <1>4
  <2>2. CASE decisions = {}
    BY <1>2, <1>4, <2>1, <2>2 DEF longer
  <2>3. CASE decisions # {}
    <3>1. decisions \in SUBSET (1 .. Len(c))
      BY <1>0
    <3>2. Max(decisions) \in decisions
      BY <1>0, <2>3, <3>1, LastPosition
    <3>3. longer[Max(decisions)] = c[Max(decisions)]
      BY <1>1, <3>1, <3>2
    <3>4. c # <<>>
      BY <2>3
    <3>5. deriveStateFromChain(c, overlay) =
            STATE_CHANGING_KINDS[c[Max(decisions)].kind]
      BY <2>3, <3>4 DEF deriveStateFromChain
    <3>. QED
      BY <1>2, <1>4, <2>1, <2>3, <3>3, <3>5 DEF longer
  <2>. QED
    BY <2>2, <2>3
<1>. QED
  BY <1>3, <1>4

LEMMA OverlayBegins ==
    ASSUME NEW c \in Seq(ActionBodies), c # <<>>
    PROVE  deriveStateFromChain(c, TRUE) = deriveStateFromChain(c, FALSE)
BY DEF deriveStateFromChain

Shown == [r \in Roots |-> KindsOf(sortActionChain(r))]

Standing == [r \in Roots |-> computeDealWorkflowState(r)]

LEMMA RecordBegins == Init => Kept!Init
<1> SUFFICES ASSUME Init PROVE Kept!Init
  OBVIOUS
<1>1. ASSUME NEW r \in Roots
      PROVE  /\ sortActionChain(r) = <<>>
             /\ ~hasOverlay(r)
  BY EmptyWalk DEF Init, sortActionChain, hasOverlay, getOverlayBinding
<1>2. KindsOf(<<>>) = <<>>
  BY DEF KindsOf
<1>3. deriveStateFromChain(<<>>, FALSE) = "DRAFT"
  BY DEF deriveStateFromChain
<1>4. Shown = [r \in Roots |-> <<>>]
  BY <1>1, <1>2 DEF Shown
<1>5. Standing = [r \in Roots |-> "DRAFT"]
  <2>1. ASSUME NEW r \in Roots PROVE hasOverlay(r) = FALSE
    BY <1>1 DEF hasOverlay
  <2>2. ASSUME NEW r \in Roots PROVE computeDealWorkflowState(r) = "DRAFT"
    BY <1>1, <1>3, <2>1 DEF computeDealWorkflowState
  <2>. QED
    BY <2>2 DEF Standing
<1>. QED
  BY <1>4, <1>5 DEF Kept!Init, Shown, Standing

LEMMA ActionIsTaken ==
    ASSUME Recorded, NEW r \in Roots, NEW kind \in Kinds, NEW at \in Times,
           postCommitteeAction(r, kind, at)
    PROVE  Kept!Take(r, kind)
<1>1. PICK c \in Seq(ActionBodies), b \in ActionBodies :
        /\ b = [kind |-> kind, at |-> at]
        /\ Orders(actions[r], c)
        /\ actions'[r] \in Seq(Chains(ActionBodies))
        /\ Append(c, b) \in Seq(ActionBodies)
        /\ Orders(actions'[r], Append(c, b))
        /\ actions' = [actions EXCEPT ![r] = actions'[r]]
  BY ActionTaken DEF Recorded
<1>2. actions[r] \in Seq(Chains(ActionBodies)) /\ DOMAIN actions = Roots
  BY DEF Recorded, TypeOK
<1>3. b.kind = kind
  BY <1>1
<1>4. sortActionChain(r) = c
  BY <1>1, <1>2, WalkOfChain DEF sortActionChain
<1>5. sortActionChain(r)' = Append(c, b)
  BY <1>1, WalkOfChain DEF sortActionChain
<1>6. ASSUME NEW d \in Roots, d # r PROVE sortActionChain(d)' = sortActionChain(d)
  BY <1>1, <1>2, <1>6 DEF sortActionChain
<1>7. ASSUME NEW d \in Roots PROVE hasOverlay(d)' = hasOverlay(d)
  BY DEF postCommitteeAction, hasOverlay, getOverlayBinding
<1>8. Shown' = [Shown EXCEPT ![r] = Append(@, kind)]
  <2>1. Shown[r] = KindsOf(c) /\ KindsOf(sortActionChain(r)') = Append(KindsOf(c), kind)
    BY <1>3, <1>4, <1>5, KindsGrow DEF Shown
  <2>2. \A d \in Roots : d # r => KindsOf(sortActionChain(d)') = Shown[d]
    BY <1>6 DEF Shown
  <2>3. Shown' = [d \in Roots |-> KindsOf(sortActionChain(d)')]
    BY DEF Shown, KindsOf
  <2>4. DOMAIN Shown = Roots
    BY DEF Shown
  <2>. QED
    BY <2>1, <2>2, <2>3, <2>4
<1> DEFINE moved == IF kind \in DOMAIN STATE_CHANGING_KINDS
                    THEN STATE_CHANGING_KINDS[kind]
                    ELSE IF Kept!Decided(r) THEN Standing[r] ELSE "IN_COMMITTEE"
<1>9. Kept!Decided(r) <=> \E i \in DOMAIN c : c[i].kind \in DOMAIN STATE_CHANGING_KINDS
  BY <1>4 DEF Kept!Decided, KindsOf
<1>10. Standing[r] = deriveStateFromChain(c, hasOverlay(r))
  BY <1>4 DEF Standing, computeDealWorkflowState
<1>11. computeDealWorkflowState(r)' = moved
  <2>1. computeDealWorkflowState(r)' = deriveStateFromChain(Append(c, b), hasOverlay(r))
    BY <1>5, <1>7 DEF computeDealWorkflowState, deriveStateFromChain
  <2>. QED
    BY <1>3, <1>9, <1>10, <2>1, StateMoves
<1>12. ASSUME NEW d \in Roots, d # r
       PROVE  computeDealWorkflowState(d)' = Standing[d]
  BY <1>6, <1>7, <1>12 DEF computeDealWorkflowState, deriveStateFromChain, Standing
<1> HIDE DEF moved
<1>13. Standing' = [Standing EXCEPT ![r] = moved]
  <2>1. Standing' = [d \in Roots |-> computeDealWorkflowState(d)'] /\ DOMAIN Standing = Roots
    BY DEF Standing
  <2>. QED
    BY <1>11, <1>12, <2>1
<1>. QED
  BY <1>8, <1>13 DEF Kept!Take, Shown, Standing, moved


(***************************************************************************)
(* An overlay changes what is shown of its own deal only, and of that only *)
(* when no action was taken and no overlay was opened before.              *)
(***************************************************************************)
LEMMA OverlayIsSeen ==
    ASSUME Recorded, NEW o \in Overlays, NEW at \in Times, postOverlay(o, at)
    PROVE  \/ Kept!Begin(o.root)
           \/ Shown' = Shown /\ Standing' = Standing
<1>1. PICK id \in Chains(EventBodies) :
        Body(id).adds = Created /\ ToSet(events'[o]) = {id}
  BY OverlayPosted DEF Recorded
<1>2. /\ events' = [events EXCEPT ![o] = events'[o]]
      /\ DOMAIN events = Overlays
      /\ actions' = actions
  BY OverlayPosted DEF Recorded, TypeOK, postOverlay
<1>3. o.root \in Roots
  BY DEF Overlays
<1>4. getOverlayBinding(o)'
  <2>1. \E i \in DOMAIN events'[o] : events'[o][i] = id
    BY <1>1 DEF ToSet
  <2>. QED
    BY <1>1, <2>1 DEF getOverlayBinding
<1>5. ASSUME NEW p \in Overlays, p # o
      PROVE  getOverlayBinding(p)' = getOverlayBinding(p)
  BY <1>2, <1>5 DEF getOverlayBinding
<1>6. ASSUME NEW d \in Roots PROVE sortActionChain(d)' = sortActionChain(d)
  BY <1>2 DEF sortActionChain
<1>7. Shown' = Shown
  BY <1>6 DEF Shown
<1>8. hasOverlay(o.root)'
  BY <1>4 DEF hasOverlay
<1>9. ASSUME NEW d \in Roots, d # o.root \/ hasOverlay(d)
      PROVE  hasOverlay(d)' = hasOverlay(d)
  <2>1. CASE hasOverlay(d)
    <3>1. PICK p \in Overlays : p.root = d /\ getOverlayBinding(p)
      BY <2>1 DEF hasOverlay
    <3>2. getOverlayBinding(p)'
      BY <1>4, <1>5, <3>1
    <3>3. hasOverlay(d)'
      BY <3>1, <3>2 DEF hasOverlay
    <3>. QED
      BY <2>1, <3>3 DEF hasOverlay
  <2>2. CASE ~hasOverlay(d)
    <3>1. ASSUME NEW p \in Overlays, p.root = d, getOverlayBinding(p)' PROVE FALSE
      <4>1. getOverlayBinding(p)
        BY <1>5, <1>9, <2>2, <3>1
      <4>. QED
        BY <2>2, <3>1, <4>1 DEF hasOverlay
    <3>2. ~hasOverlay(d)'
      BY <3>1 DEF hasOverlay
    <3>. QED
      BY <2>2, <3>2 DEF hasOverlay
  <2>. QED
    BY <2>1, <2>2
<1>10. ASSUME NEW d \in Roots, hasOverlay(d)' = hasOverlay(d)
       PROVE  computeDealWorkflowState(d)' = computeDealWorkflowState(d)
  BY <1>6, <1>10 DEF computeDealWorkflowState, deriveStateFromChain
<1> DEFINE r == o.root
<1>11. CASE hasOverlay(r)
  BY <1>7, <1>9, <1>10, <1>11 DEF Standing
<1>12. CASE ~hasOverlay(r)
  <2>1. PICK c \in Seq(ActionBodies) : sortActionChain(r) = c
    BY <1>3, WalkOfActions
  <2>2. hasOverlay(r) = FALSE /\ hasOverlay(r)' = TRUE
    BY <1>8, <1>12 DEF hasOverlay
  <2>3. /\ computeDealWorkflowState(r) = deriveStateFromChain(c, FALSE)
        /\ computeDealWorkflowState(r)' = deriveStateFromChain(c, TRUE)
    BY <1>3, <1>6, <2>1, <2>2 DEF computeDealWorkflowState, deriveStateFromChain
  <2>4. CASE c # <<>>
    <3>1. computeDealWorkflowState(r)' = computeDealWorkflowState(r)
      BY <2>3, <2>4, OverlayBegins
    <3>. QED
      BY <1>7, <1>9, <1>10, <3>1 DEF Standing
  <2>5. CASE c = <<>>
    <3>1. /\ computeDealWorkflowState(r) = "DRAFT"
          /\ computeDealWorkflowState(r)' = "IN_REVIEW"
      BY <2>3, <2>5 DEF deriveStateFromChain
    <3>2. Standing[r] = "DRAFT"
      BY <1>3, <3>1 DEF Standing
    <3>3. Standing' = [Standing EXCEPT ![r] = "IN_REVIEW"]
      BY <1>9, <1>10, <3>1 DEF Standing
    <3>. QED
      BY <1>7, <3>2, <3>3 DEF Kept!Begin, Shown, Standing
  <2>. QED
    BY <2>4, <2>5
<1>. QED
  BY <1>11, <1>12

LEMMA CommentIsNotSeen ==
    ASSUME Recorded, NEW o \in Overlays, NEW text \in Texts,
           postOverlayComment(o, text)
    PROVE  Shown' = Shown /\ Standing' = Standing
<1>1. /\ events' = [events EXCEPT ![o] = events'[o]]
      /\ DOMAIN events = Overlays
      /\ actions' = actions
      /\ getOverlayBinding(o)
  BY CommentPosted DEF Recorded, TypeOK, postOverlayComment
<1>2. PICK id \in Chains(EventBodies) : ToSet(events'[o]) = ToSet(events[o]) \cup {id}
  BY CommentPosted DEF Recorded
<1>3. getOverlayBinding(o)'
  <2>1. PICK i \in DOMAIN events[o] : Body(events[o][i]).adds = Created
    BY <1>1 DEF getOverlayBinding
  <2>2. events[o][i] \in ToSet(events'[o])
    BY <1>2, InRows
  <2>3. PICK j \in DOMAIN events'[o] : events'[o][j] = events[o][i]
    BY <2>2, InRows
  <2>. QED
    BY <2>1, <2>3 DEF getOverlayBinding
<1>4. ASSUME NEW p \in Overlays
      PROVE  getOverlayBinding(p)' = getOverlayBinding(p)
  <2>1. CASE p = o
    BY <1>1, <1>3, <2>1 DEF getOverlayBinding
  <2>2. CASE p # o
    BY <1>1, <2>2 DEF getOverlayBinding
  <2>. QED
    BY <2>1, <2>2
<1>5. ASSUME NEW d \in Roots
      PROVE  /\ hasOverlay(d)' = hasOverlay(d)
             /\ sortActionChain(d)' = sortActionChain(d)
  BY <1>1, <1>4 DEF hasOverlay, sortActionChain
<1>6. ASSUME NEW d \in Roots
      PROVE  computeDealWorkflowState(d)' = computeDealWorkflowState(d)
  BY <1>5 DEF computeDealWorkflowState, deriveStateFromChain
<1>. QED
  BY <1>5, <1>6 DEF Shown, Standing

LEMMA RecordStep ==
    Recorded /\ [Next]_vars => [Kept!Next]_<<Shown, Standing>>
<1> SUFFICES ASSUME Recorded, [Next]_vars
             PROVE  Kept!Next \/ (Shown' = Shown /\ Standing' = Standing)
  OBVIOUS
<1>1. ASSUME UNCHANGED <<actions, events>>
      PROVE  Shown' = Shown /\ Standing' = Standing
  <2>1. ASSUME NEW d \in Roots
        PROVE  /\ hasOverlay(d)' = hasOverlay(d)
               /\ sortActionChain(d)' = sortActionChain(d)
    BY <1>1 DEF hasOverlay, getOverlayBinding, sortActionChain
  <2>2. ASSUME NEW d \in Roots
        PROVE  computeDealWorkflowState(d)' = computeDealWorkflowState(d)
    BY <2>1 DEF computeDealWorkflowState, deriveStateFromChain
  <2>. QED
    BY <2>1, <2>2 DEF Shown, Standing
<1>2. CASE Tick
  BY <1>1, <1>2 DEF Tick
<1>3. CASE \E r \in Roots, k \in Kinds, at \in Times : postCommitteeAction(r, k, at)
  BY <1>3, ActionIsTaken DEF Kept!Next
<1>4. CASE \E o \in Overlays, at \in Times : postOverlay(o, at)
  <2>1. PICK o \in Overlays, at \in Times : postOverlay(o, at)
    BY <1>4
  <2>2. o.root \in Roots
    BY DEF Overlays
  <2>. QED
    BY <2>1, <2>2, OverlayIsSeen DEF Kept!Next
<1>5. CASE \E o \in Overlays, t \in Texts : postOverlayComment(o, t)
  BY <1>5, CommentIsNotSeen
<1>6. CASE \E o \in Overlays, t \in Texts : postOverlayCommentCut(o, t)
  BY <1>1, <1>6 DEF postOverlayCommentCut
<1>7. CASE UNCHANGED vars
  BY <1>1, <1>7 DEF vars
<1>. QED
  BY <1>2, <1>3, <1>4, <1>5, <1>6, <1>7 DEF Next

(***************************************************************************)
(* What is shown of a deal, projected anew from the rows at each request   *)
(* (deriveStateFromChain over sortActionChain), is the committee's record: *)
(* a history that only grows at its end and a state moved by each action   *)
(* as it was taken.                                                        *)
(***************************************************************************)
THEOREM RecordIsKept == Spec => ImplementsCommitteeRecord
<1>1. Recorded /\ [Next]_vars =>
        [Kept!Next]_<<[r \in Roots |-> KindsOf(sortActionChain(r))],
                      [r \in Roots |-> computeDealWorkflowState(r)]>>
  BY RecordStep DEF Shown, Standing
<1>. QED
  BY AlwaysRecorded, RecordBegins, <1>1, PTL
     DEF Spec, ImplementsCommitteeRecord, Kept!Spec

=============================================================================
