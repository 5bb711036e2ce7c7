-------------------------- MODULE DealRevisionProofs --------------------------
(***************************************************************************)
(* A deal stays appendable, in one lineage and on its documents, for every *)
(* number of handlers, documents and revisions: proofs about DealRevision. *)
(***************************************************************************)
EXTENDS DealRevision, SequenceTheorems, NaturalsInduction, WellFoundedInduction, TLAPS

(***************************************************************************)
(* The revisions on record: each stands on its root and its parent, and    *)
(* its inputs name the documents of its extraction.                        *)
(***************************************************************************)
Chained ==
    \A r \in revs :
        /\ lineageRootId(r) \in revs
        /\ Len(r) > 1 => parentRevisionId(r) \in revs
        /\ source[r].docs = r[Len(r)].docs

(***************************************************************************)
(* What a handler may rely on at its next statement.                       *)
(***************************************************************************)
OnDeal(p) ==
    /\ h[p].deal \in DOMAIN deals
    /\ h[p].new \in Docs

OnLineage(p) ==
    /\ OnDeal(p)
    /\ h[p].rev \in revs
    /\ lineageRootId(h[p].rev) = lineageRootId(deals[h[p].deal].head)

OpensDeal(p) == h[p].op = "run" /\ h[p].deal = 0

Begins(p) ==
    /\ h[p].at \in {"find", "save", "read"} => h[p].op = "run"
    /\ h[p].at \in {"find", "save"} => Len(h[p].todo) > 0
    /\ h[p].at = "find" => h[p].deal = 0 /\ h[p].rev = NoRev
    /\ h[p].at \in {"save", "read"} => OnDeal(p)

Ingests(p) ==
    /\ h[p].at = "ingest" =>
         \/ OpensDeal(p) /\ h[p].rev = NoRev /\ Len(h[p].todo) > 0
                         /\ h[p].set = DocsOf(h[p].todo)
         \/ OnLineage(p) /\ h[p].new \in h[p].set
    /\ h[p].at = "context" =>
         \/ OpensDeal(p) /\ h[p].rev \in Roots /\ Len(h[p].todo) > 0
         \/ OnLineage(p)
    /\ h[p].at = "head" => OnLineage(p) /\ h[p].rev \in contexts

Finishes(p) ==
    /\ h[p].at = "persist" => h[p].rev \in contexts /\ h[p].new \in Docs
    /\ h[p].at = "keep" => Len(h[p].todo) > 0
    /\ h[p].at \in {"keep", "promote"} => OpensDeal(p) /\ h[p].rev \in Roots \cap contexts
    /\ h[p].at = "evaluate" =>
         LET r == h[p].rev
             parent == parentRevisionId(r) IN
         /\ Len(r) > 1 /\ parent \in revs
         /\ r[Len(r)].docs = parent[Len(parent)].docs

Relies(p) == Begins(p) /\ Ingests(p) /\ Finishes(p)

(***************************************************************************)
(* The inductive invariant.                                                *)
(***************************************************************************)
Safe ==
    /\ TypeOK
    /\ Chained
    /\ HeadsAreAppendable
    /\ \A p \in Procs : Relies(p)

(***************************************************************************)
(* While no tape has re-keyed a loan that is found by its name, its deal   *)
(* has that name, and a run that opens a deal is the only run and has      *)
(* found none.                                                             *)
(***************************************************************************)
OneRun == \A p, q \in Procs : h[p].op = "run" /\ h[q].op = "run" => p = q

Named ==
    rekeys = 0 /\ FoundByName(ref) =>
        /\ \A a \in DOMAIN deals : deals[a].name = ref
        /\ \A p \in Procs : h[p].op = "run" /\ h[p].deal = 0 => h[p].name = ref
        /\ \A p \in Procs :
             h[p].at \in {"ingest", "context", "keep", "promote"} /\ OpensDeal(p) => deals = <<>>

Single == Safe /\ OneRun /\ Named /\ OneDealUnlessRekeyed

(***************************************************************************)
(* Without a death or a failed write, what a lineage has on file or in the *)
(* hands of an append that has moved its head.                             *)
(***************************************************************************)
Cover(root) == DocsOf(getDealSourceDocs(root)) \cup Unkept(root)

Reads(r) == source[r].docs

Covered(p) ==
    /\ h[p].at = "ingest" /\ h[p].deal # 0 =>
         Reads(h[p].rev) \cup (h[p].set \ {h[p].new}) \subseteq Cover(lineageRootId(h[p].rev))
    /\ h[p].at \in {"context", "head"} /\ h[p].deal # 0 =>
         Reads(h[p].rev) \ {h[p].new} \subseteq Cover(lineageRootId(h[p].rev))
    /\ h[p].at \in {"context", "keep", "promote"} /\ h[p].deal = 0 =>
         Reads(h[p].rev) \subseteq Cover(lineageRootId(h[p].rev)) \cup DocsOf(h[p].todo)
    /\ h[p].at = "promote" => h[p].todo = <<>>

AllCovered ==
    crashes = 0 /\ faults = 0 =>
        /\ \A a \in DOMAIN deals :
             Reads(deals[a].head) \subseteq Cover(lineageRootId(deals[a].head))
        /\ \A p \in Procs : Covered(p)

-----------------------------------------------------------------------------
(***************************************************************************)
(* A revision's id names its parent, its root and its inputs.              *)
(***************************************************************************)
LEMMA ChildRevision ==
    ASSUME NEW parent \in Seq(Inputs), NEW inputs \in Inputs
    PROVE  LET r == computeRevisionId(parent, inputs) IN
           /\ r \in Revisions
           /\ Len(r) = Len(parent) + 1
           /\ r[Len(r)] = inputs
           /\ parentRevisionId(r) = parent
           /\ parent # NoRev => lineageRootId(r) = lineageRootId(parent)
           /\ parent = NoRev => lineageRootId(r) = r
<1> DEFINE r == Append(parent, inputs)
<1>1. /\ r \in Seq(Inputs) /\ r # <<>> /\ Len(r) = Len(parent) + 1
      /\ \A i \in 1 .. Len(parent) : r[i] = parent[i]
      /\ r[Len(parent) + 1] = inputs
  BY AppendProperties
<1>2. SubSeq(r, 1, Len(r) - 1) = parent
  <2>1. SubSeq(r, 1, Len(parent)) = parent
    <3>1. /\ SubSeq(r, 1, Len(parent)) \in Seq(Inputs)
          /\ Len(SubSeq(r, 1, Len(parent))) = Len(parent)
          /\ \A i \in 1 .. Len(parent) : SubSeq(r, 1, Len(parent))[i] = r[i]
      BY <1>1
    <3>. QED
      BY <1>1, <3>1, SeqEqual
  <2>. QED
    BY <1>1, <2>1
<1>3. parent # <<>> => r[1] = parent[1]
  BY <1>1
<1>4. parent = <<>> => r = <<r[1]>>
  BY <1>1
<1>. QED
  BY <1>1, <1>2, <1>3, <1>4
     DEF computeRevisionId, parentRevisionId, lineageRootId, Revisions, NoRev

LEMMA RootRevision ==
    ASSUME NEW r \in Revisions
    PROVE  /\ lineageRootId(r) \in Revisions
           /\ Len(lineageRootId(r)) = 1
           /\ lineageRootId(lineageRootId(r)) = lineageRootId(r)
           /\ Len(r) \in Nat \ {0}
           /\ Len(r) = 1 => lineageRootId(r) = r
BY DEF Revisions, lineageRootId

LEMMA ParentRevision ==
    ASSUME NEW r \in Revisions, Len(r) > 1
    PROVE  /\ parentRevisionId(r) \in Revisions
           /\ lineageRootId(parentRevisionId(r)) = lineageRootId(r)
           /\ Len(parentRevisionId(r)) = Len(r) - 1
<1> DEFINE q == SubSeq(r, 1, Len(r) - 1)
<1>1. /\ Len(r) - 1 \in 1 .. Len(r) /\ r \in Seq(Inputs)
  BY DEF Revisions
<1>2. /\ q \in Seq(Inputs)
      /\ Len(q) = Len(r) - 1
      /\ q[1] = r[1]
  BY <1>1
<1>3. q # <<>>
  BY <1>1, <1>2, LenProperties, EmptySeq
<1>4. q \in Revisions /\ <<q[1]>> = <<r[1]>>
  BY <1>2, <1>3 DEF Revisions
<1>5. parentRevisionId(r) = q
  BY DEF parentRevisionId
<1> HIDE DEF q
<1>. QED
  BY <1>2, <1>4, <1>5 DEF lineageRootId

LEMMA TailShorter ==
    ASSUME NEW s \in Seq(Docs), Len(s) > 0
    PROVE  /\ Head(s) \in Docs /\ Tail(s) \in Seq(Docs)
           /\ Len(s) # 1 => Len(Tail(s)) > 0
           /\ Len(s) = 1 => Tail(s) = <<>>
           /\ DocsOf(s) = {Head(s)} \cup DocsOf(Tail(s))
<1>1. PICK n \in Nat \ {0} : n = Len(s) /\ DOMAIN s = 1 .. n
  BY LenProperties
<1>2. s # <<>>
  BY <1>1, EmptySeq
<1>3. /\ Head(s) = s[1] /\ Head(s) \in Docs
      /\ Tail(s) \in Seq(Docs) /\ Len(Tail(s)) = n - 1
      /\ \A i \in 1 .. n - 1 : Tail(s)[i] = s[i + 1]
  BY <1>1, <1>2, HeadTailProperties
<1>4. DOMAIN Tail(s) = 1 .. n - 1
  BY <1>3, LenProperties
<1>5. n = 1 => Tail(s) = <<>>
  <2> SUFFICES ASSUME n = 1 PROVE Tail(s) = <<>>
    OBVIOUS
  <2>1. PICK w \in Seq(Docs) : w = Tail(s)
    BY <1>3
  <2>2. Len(w) = 0
    BY <1>3, <2>1
  <2>. QED
    BY <2>1, <2>2, EmptySeq
<1>6. \A i \in 1 .. n : i = 1 \/ i - 1 \in 1 .. n - 1
  BY <1>1
<1>7. DocsOf(s) \subseteq {Head(s)} \cup DocsOf(Tail(s))
  <2> SUFFICES ASSUME NEW i \in 1 .. n PROVE s[i] = Head(s) \/ s[i] \in DocsOf(Tail(s))
    BY <1>1 DEF DocsOf
  <2>1. CASE i = 1
    BY <1>3, <2>1
  <2>2. CASE i - 1 \in 1 .. n - 1
    <3>1. Tail(s)[i - 1] = s[i]
      BY <1>3, <2>2
    <3>. QED
      BY <1>4, <2>2, <3>1 DEF DocsOf
  <2>. QED
    BY <1>6, <2>1, <2>2
<1>8. {Head(s)} \cup DocsOf(Tail(s)) \subseteq DocsOf(s)
  <2>1. Head(s) \in DocsOf(s)
    BY <1>1, <1>3 DEF DocsOf
  <2>2. ASSUME NEW i \in 1 .. n - 1 PROVE Tail(s)[i] \in DocsOf(s)
    <3>1. i + 1 \in 1 .. n
      BY <1>1
    <3>. QED
      BY <1>1, <1>3, <3>1 DEF DocsOf
  <2>. QED
    BY <1>4, <2>1, <2>2 DEF DocsOf
<1>. QED
  BY <1>1, <1>3, <1>5, <1>7, <1>8

(***************************************************************************)
(* Storing a document keeps the others, and adds none but it.              *)
(***************************************************************************)
LEMMA MovedToEnd ==
    ASSUME NEW s \in Seq(Docs), NEW d \in Docs
    PROVE  /\ MoveToEnd(s, d) \in Seq(Docs)
           /\ DocsOf(MoveToEnd(s, d)) = DocsOf(s) \cup {d}
<1>1. CASE d \notin DocsOf(s)
  <2>1. MoveToEnd(s, d) = Append(s, d)
    BY <1>1 DEF MoveToEnd
  <2>. QED
    BY <2>1, AppendProperties DEF DocsOf
<1>2. CASE d \in DocsOf(s)
  <2>1. PICK at \in DOMAIN s :
          /\ s[at] = d
          /\ MoveToEnd(s, d) =
               [i \in DOMAIN s |-> IF i = Len(s) THEN d ELSE IF i < at THEN s[i] ELSE s[i + 1]]
    <3> DEFINE at == CHOOSE i \in DOMAIN s : s[i] = d
    <3>1. at \in DOMAIN s /\ s[at] = d
      BY <1>2 DEF DocsOf
    <3>. QED
      BY <1>2, <3>1 DEF MoveToEnd
  <2> DEFINE m == MoveToEnd(s, d)
  <2>2. PICK n \in Nat : n = Len(s) /\ DOMAIN s = 1 .. n
    BY LenProperties
  <2>3. at \in 1 .. n /\ \A i \in 1 .. n : s[i] \in Docs
    BY <2>1, <2>2
  <2>4. m = [i \in 1 .. n |-> IF i = n THEN d ELSE IF i < at THEN s[i] ELSE s[i + 1]]
    BY <2>1, <2>2
  <2> HIDE DEF m
  <2>5. ASSUME NEW i \in 1 .. n
        PROVE  /\ i = n => m[i] = d
               /\ i # n /\ i < at => m[i] = s[i]
               /\ i # n /\ ~(i < at) => i + 1 \in 1 .. n /\ m[i] = s[i + 1]
    BY <2>4
  <2>6. \A i \in 1 .. n : m[i] \in Docs
    BY <2>3, <2>5
  <2>7. m \in Seq(Docs) /\ DOMAIN m = 1 .. n
    BY <2>4, <2>6
  <2>8. ASSUME NEW i \in 1 .. n PROVE m[i] \in DocsOf(s)
    <3>1. m[i] = d \/ m[i] = s[i] \/ (i + 1 \in 1 .. n /\ m[i] = s[i + 1])
      BY <2>5
    <3>. QED
      BY <1>2, <2>2, <3>1 DEF DocsOf
  <2>9. ASSUME NEW i \in 1 .. n PROVE \E k \in 1 .. n : s[i] = m[k]
    <3>1. CASE i = at
      <4>1. n \in 1 .. n /\ m[n] = s[i]
        BY <2>1, <2>3, <2>5, <3>1
      <4>. QED
        BY <4>1
    <3>2. CASE i < at
      BY <2>3, <2>5, <3>2
    <3>3. CASE i > at
      <4>1. i - 1 \in 1 .. n /\ i - 1 # n /\ ~(i - 1 < at)
        BY <2>3, <3>3
      <4>2. m[i - 1] = s[i]
        BY <2>5, <4>1
      <4>. QED
        BY <4>1, <4>2
    <3>. QED
      BY <2>3, <3>1, <3>2, <3>3
  <2>10. DocsOf(m) = DocsOf(s)
    <3>1. DocsOf(m) = {m[i] : i \in 1 .. n} /\ DocsOf(s) = {s[i] : i \in 1 .. n}
      BY <2>2, <2>7 DEF DocsOf
    <3>2. DocsOf(m) \subseteq DocsOf(s)
      BY <2>8, <3>1
    <3>3. DocsOf(s) \subseteq DocsOf(m)
      BY <2>9, <3>1
    <3>. QED
      BY <3>2, <3>3
  <2>. QED
    BY <1>2, <2>7, <2>10 DEF m
<1>. QED
  BY <1>1, <1>2

LEMMA KeptDocs ==
    ASSUME TypeOK, NEW root \in Roots, NEW d \in Docs, saveDealSourceDoc(root, d)
    PROVE  /\ DOMAIN kept' \subseteq Roots
           /\ \A r \in DOMAIN kept' : kept'[r] \in Seq(Docs)
           /\ \A r : DocsOf(getDealSourceDocs(r)) \subseteq DocsOf(getDealSourceDocs(r))'
           /\ d \in DocsOf(getDealSourceDocs(root))'
<1> DEFINE before == IF root \in DOMAIN kept THEN kept[root] ELSE <<>>
<1>1. before \in Seq(Docs)
  BY DEF TypeOK
<1>2. /\ MoveToEnd(before, d) \in Seq(Docs)
      /\ DocsOf(MoveToEnd(before, d)) = DocsOf(before) \cup {d}
  BY <1>1, MovedToEnd
<1>3. /\ DOMAIN kept' = DOMAIN kept \cup {root}
      /\ kept'[root] = MoveToEnd(before, d)
      /\ \A r \in DOMAIN kept : r # root => kept'[r] = kept[r]
  BY DEF saveDealSourceDoc
<1>4. DOMAIN kept' \subseteq Roots /\ \A r \in DOMAIN kept' : kept'[r] \in Seq(Docs)
  BY <1>2, <1>3 DEF TypeOK
<1>5. DocsOf(<<>>) = {}
  BY DEF DocsOf
<1>6. \A r : DocsOf(getDealSourceDocs(r)) \subseteq DocsOf(getDealSourceDocs(r))'
  <2>. SUFFICES ASSUME NEW r
                PROVE  DocsOf(getDealSourceDocs(r)) \subseteq DocsOf(getDealSourceDocs(r))'
    OBVIOUS
  <2>1. CASE r = root
    <3>1. getDealSourceDocs(r) = before
      BY <2>1 DEF getDealSourceDocs
    <3>2. getDealSourceDocs(r)' = MoveToEnd(before, d)
      BY <1>3, <2>1 DEF getDealSourceDocs
    <3>3. DocsOf(getDealSourceDocs(r))' = DocsOf(MoveToEnd(before, d))
      BY <3>2 DEF DocsOf
    <3>. QED
      BY <1>2, <3>1, <3>3
  <2>2. CASE r # root /\ r \in DOMAIN kept
    <3>1. getDealSourceDocs(r)' = getDealSourceDocs(r)
      BY <1>3, <2>2 DEF getDealSourceDocs
    <3>. QED
      BY <3>1 DEF DocsOf
  <2>3. CASE r # root /\ r \notin DOMAIN kept
    BY <1>5, <2>3 DEF getDealSourceDocs
  <2>. QED
    BY <2>1, <2>2, <2>3
<1>. QED
  BY <1>2, <1>3, <1>4, <1>6 DEF getDealSourceDocs, DocsOf

-----------------------------------------------------------------------------
(***************************************************************************)
(* What a handler gathers, composes and inserts.                           *)
(***************************************************************************)
LEMMA Gathered ==
    ASSUME TypeOK, NEW t \in gatherTierADocs
    PROVE  t \in Seq(Docs) /\ Len(t) > 0
<1>1. DocsOf(room) \subseteq Docs
  BY DEF DocsOf, TypeOK
<1>2. PICK n \in 1 .. Len(room) : t \in [1 .. n -> DocsOf(room)]
  BY DEF gatherTierADocs
<1>3. n \in Nat /\ n > 0
  BY <1>2 DEF TypeOK
<1>4. t \in [1 .. n -> Docs]
  BY <1>1, <1>2
<1>. QED
  BY <1>3, <1>4

LEMMA DealRow ==
    ASSUME TypeOK, NEW a \in DOMAIN deals
    PROVE  /\ a \in Nat \ {0} /\ a \in 1 .. Len(deals)
           /\ deals[a] \in Deal
           /\ deals[a].name \in Refs \cup {DealRef}
           /\ deals[a].head \in Revisions
<1>1. deals \in Seq(Deal)
  BY DEF TypeOK
<1>2. a \in 1 .. Len(deals) /\ deals[a] \in Deal
  BY <1>1
<1>. QED
  BY <1>2 DEF Deal

LEMMA KeptTyped ==
    ASSUME TypeOK, NEW root
    PROVE  getDealSourceDocs(root) \in Seq(Docs)
BY DEF getDealSourceDocs, TypeOK

LEMMA ComposedSet ==
    ASSUME NEW s \in Seq(Docs), NEW d \in Docs
    PROVE  LET set == LastOfSlots(Append(s, d)) IN
           /\ set \subseteq Docs
           /\ d \in set
           /\ set \ {d} \subseteq DocsOf(s)
<1> DEFINE a == Append(s, d)
<1>1. PICK n \in Nat : /\ n = Len(s) /\ DOMAIN s = 1 .. n
                       /\ DOMAIN a = 1 .. n + 1 /\ a[n + 1] = d
                       /\ \A i \in 1 .. n : a[i] = s[i]
  BY AppendProperties, LenProperties
<1>2. a \in Seq(Docs)
  BY AppendProperties
<1>3. LastOfSlots(a) \subseteq {a[i] : i \in 1 .. n + 1}
  BY <1>1 DEF LastOfSlots
<1> HIDE DEF a
<1>4. n + 1 \in {j \in DOMAIN a : \A k \in DOMAIN a : k > j => SlotOf[a[k]] # SlotOf[a[j]]}
  BY <1>1
<1>5. d \in LastOfSlots(a)
  BY <1>1, <1>4 DEF LastOfSlots
<1>6. \A x \in LastOfSlots(a) : x = d \/ \E i \in 1 .. n : x = s[i]
  <2> SUFFICES ASSUME NEW i \in 1 .. n + 1 PROVE a[i] = d \/ \E j \in 1 .. n : a[i] = s[j]
    BY <1>3
  <2>1. i = n + 1 \/ i \in 1 .. n
    BY <1>1
  <2>. QED
    BY <1>1, <2>1
<1>7. LastOfSlots(a) \ {d} \subseteq DocsOf(s)
  BY <1>1, <1>6 DEF DocsOf
<1>8. LastOfSlots(a) \subseteq Docs
  <2>1. \A i \in 1 .. n : s[i] \in Docs
    BY <1>1
  <2>. QED
    BY <1>6, <2>1
<1>. QED
  BY <1>5, <1>7, <1>8 DEF a

(***************************************************************************)
(* A root is read from the gathered set, a child from its parent's         *)
(* documents or the set composed.                                          *)
(***************************************************************************)
LEMMA ComposedExtraction ==
    ASSUME TypeOK, NEW p \in Procs, h[p].at = "ingest", Relies(p), NEW u \in Units
    PROVE  LET x == Composed(h[p], u) IN
           /\ x \in Extractions
           /\ OpensDeal(p) /\ h[p].rev = NoRev => x.docs = h[p].set
           /\ OnLineage(p) => x.docs \in {source[h[p].rev].docs, h[p].set}
<1> DEFINE x == Composed(h[p], u)
<1>1. h[p] \in Handler /\ h[p].set \subseteq Docs /\ version \in 0 .. MaxVersion
  BY BoundsAssumption DEF TypeOK, Handler
<1>2. ASSUME NEW by \in Refs \cup {DealRef}
      PROVE  /\ Reading(h[p].set, u, by) \in Extractions
             /\ Reading(h[p].set, u, by).docs = h[p].set
  BY <1>1, BoundsAssumption DEF Reading, AsrVersion, Extractions
<1>3. CASE OpensDeal(p) /\ h[p].rev = NoRev
  <2>1. x = Reading(h[p].set, u, DealRef)
    BY <1>3 DEF Composed
  <2>2. ~OnLineage(p)
    BY <1>3 DEF OpensDeal, OnLineage, OnDeal, TypeOK
  <2>. QED
    BY <1>2, <2>1, <2>2
<1>4. CASE OnLineage(p) /\ h[p].new \in h[p].set
  <2> DEFINE parent == source[h[p].rev]
  <2>1. parent \in Extractions /\ h[p].rev # NoRev /\ ~OpensDeal(p)
    BY <1>4 DEF OnLineage, OnDeal, OpensDeal, TypeOK, NoRev, Revisions
  <2>3. CASE x = composeFromParentCarryWithFreshRentRoll(parent, u)
    BY <2>1, <2>3 DEF composeFromParentCarryWithFreshRentRoll, Extractions
  <2>4. CASE x = parent
    BY <2>1, <2>4
  <2>5. CASE x = Reading(h[p].set, u, deals[h[p].deal].name) /\ h[p].new \notin parent.docs
    <3>1. deals[h[p].deal].name \in Refs \cup {DealRef}
      BY <1>4, DealRow DEF OnLineage, OnDeal
    <3>. QED
      BY <1>2, <2>1, <2>5, <3>1
  <2>. QED
    BY <2>1, <2>3, <2>4, <2>5 DEF Composed
<1>. QED
  BY <1>3, <1>4 DEF Relies, Ingests

LEMMA ChildOfComposed ==
    ASSUME TypeOK, NEW p \in Procs, h[p].at = "ingest", Relies(p), NEW u \in Units
    PROVE  LET x == Composed(h[p], u)
               r == computeRevisionId(h[p].rev, applyJudgmentAdjustments(x))
           IN /\ r \in Revisions
              /\ Len(r) = Len(h[p].rev) + 1
              /\ r[Len(r)].docs = x.docs
              /\ parentRevisionId(r) = h[p].rev
              /\ h[p].rev # NoRev => lineageRootId(r) = lineageRootId(h[p].rev)
              /\ h[p].rev = NoRev => lineageRootId(r) = r
<1> DEFINE x == Composed(h[p], u)
<1>1. x \in Extractions
  BY ComposedExtraction
<1> HIDE DEF x
<1>2. applyJudgmentAdjustments(x) \in Inputs /\ applyJudgmentAdjustments(x).docs = x.docs
  BY <1>1 DEF applyJudgmentAdjustments, Inputs, Extractions
<1>3. h[p].rev \in Seq(Inputs)
  BY DEF TypeOK, Handler
<1>. QED
  BY <1>2, <1>3, ChildRevision DEF x

LEMMA EditedRevision ==
    ASSUME TypeOK, NEW q \in revs, NEW e \in Edits
    PROVE  LET r == computeRevisionId(q, [q[Len(q)] EXCEPT !.edits = @ \cup {e}]) IN
           /\ r \in Revisions
           /\ Len(r) > 1
           /\ parentRevisionId(r) = q
           /\ r[Len(r)].docs = q[Len(q)].docs
<1> DEFINE inputs == [q[Len(q)] EXCEPT !.edits = @ \cup {e}]
<1>1. q \in Seq(Inputs) /\ Len(q) \in 1 .. Len(q)
  BY RootRevision DEF TypeOK, Revisions
<1>2. q[Len(q)] \in Inputs
  BY <1>1
<1>3. inputs \in Inputs /\ inputs.docs = q[Len(q)].docs
  BY <1>2 DEF Inputs
<1> HIDE DEF inputs
<1>4. /\ computeRevisionId(q, inputs) \in Revisions
      /\ Len(computeRevisionId(q, inputs)) = Len(q) + 1
      /\ computeRevisionId(q, inputs)[Len(computeRevisionId(q, inputs))] = inputs
      /\ parentRevisionId(computeRevisionId(q, inputs)) = q
  BY <1>1, <1>3, ChildRevision
<1>5. Len(q) + 1 > 1
  BY <1>1
<1> DEFINE r == computeRevisionId(q, inputs)
<1>6. r \in Revisions /\ Len(r) > 1 /\ parentRevisionId(r) = q /\ r[Len(r)].docs = q[Len(q)].docs
  BY <1>3, <1>4, <1>5
<1>. QED
  BY <1>6 DEF inputs

LEMMA InsertedEnvelope ==
    ASSUME TypeOK, NEW r \in Revisions, NEW x \in Extractions, insertRevisionLineageEnvelope(r, x)
    PROVE  /\ revs' = revs \cup {r} /\ revs' \subseteq Revisions
           /\ source' \in [revs' -> Extractions]
           /\ \A q \in revs : source'[q] = source[q]
           /\ r \notin revs => source'[r] = x
BY DEF insertRevisionLineageEnvelope, TypeOK

-----------------------------------------------------------------------------
(***************************************************************************)
(* The state keeps its type.                                               *)
(***************************************************************************)
LEMMA IdleTyped == Idle \in Handler
BY DEF Idle, Handler, NoRev

LEMMA BegunAppend ==
    ASSUME TypeOK, NEW p \in Procs, NEW op \in {"run", "append"}, NEW a \in DOMAIN deals,
           NEW d \in Docs, AppendTo(p, op, a, d)
    PROVE  LET root == lineageRootId(deals[a].head) IN
           /\ h' = [h EXCEPT ![p] = h'[p]]
           /\ h'[p] \in Handler
           /\ h'[p].op = op /\ h'[p].at = "ingest" /\ h'[p].deal = a /\ h'[p].new = d
           /\ h'[p].rev = deals[a].head
           /\ h'[p].set = LastOfSlots(Append(getDealSourceDocs(root), d))
<1>1. PICK head \in Seq(Inputs) : head = deals[a].head
  BY DealRow DEF Revisions
<1>2. PICK root : root = lineageRootId(head)
  OBVIOUS
<1>3. PICK set \in SUBSET Docs : set = LastOfSlots(Append(getDealSourceDocs(root), d))
  BY KeptTyped, ComposedSet
<1>4. a \in Nat /\ head \in Seq(Inputs) /\ set \in SUBSET Docs
  BY <1>1, <1>3, DealRow
<1>5. CASE Unkept(root) = {}
  <2>1. h' = [h EXCEPT ![p] = [Idle EXCEPT !.op = op, !.at = "ingest", !.deal = a, !.new = d,
                                           !.rev = head, !.set = set, !.hasty = FALSE]]
    BY <1>1, <1>2, <1>3, <1>5 DEF AppendTo
  <2>2. [Idle EXCEPT !.op = op, !.at = "ingest", !.deal = a, !.new = d,
                     !.rev = head, !.set = set, !.hasty = FALSE] \in Handler
    BY <1>4, IdleTyped DEF Handler
  <2>3. h'[p] = [Idle EXCEPT !.op = op, !.at = "ingest", !.deal = a, !.new = d,
                             !.rev = head, !.set = set, !.hasty = FALSE]
    BY <2>1 DEF TypeOK
  <2>4. /\ h'[p].op = op /\ h'[p].at = "ingest" /\ h'[p].deal = a /\ h'[p].new = d
        /\ h'[p].rev = head /\ h'[p].set = set
    BY <2>3 DEF Idle
  <2>. QED
    BY <1>1, <1>2, <1>3, <1>5, <2>1, <2>2, <2>3, <2>4
<1>6. CASE Unkept(root) # {}
  <2>1. h' = [h EXCEPT ![p] = [Idle EXCEPT !.op = op, !.at = "ingest", !.deal = a, !.new = d,
                                           !.rev = head, !.set = set, !.hasty = TRUE]]
    BY <1>1, <1>2, <1>3, <1>6 DEF AppendTo
  <2>2. [Idle EXCEPT !.op = op, !.at = "ingest", !.deal = a, !.new = d,
                     !.rev = head, !.set = set, !.hasty = TRUE] \in Handler
    BY <1>4, IdleTyped DEF Handler
  <2>3. h'[p] = [Idle EXCEPT !.op = op, !.at = "ingest", !.deal = a, !.new = d,
                             !.rev = head, !.set = set, !.hasty = TRUE]
    BY <2>1 DEF TypeOK
  <2>4. /\ h'[p].op = op /\ h'[p].at = "ingest" /\ h'[p].deal = a /\ h'[p].new = d
        /\ h'[p].rev = head /\ h'[p].set = set
    BY <2>3 DEF Idle
  <2>. QED
    BY <1>1, <1>2, <1>3, <1>6, <2>1, <2>2, <2>3, <2>4
<1>. QED
  BY <1>5, <1>6

LEMMA BegunHasty ==
    ASSUME TypeOK, NEW p \in Procs, NEW op, NEW a, NEW d, AppendTo(p, op, a, d),
           Unkept(lineageRootId(deals[a].head)) # {}
    PROVE  h'[p].hasty = TRUE
<1> DEFINE set == LastOfSlots(Append(getDealSourceDocs(lineageRootId(deals[a].head)), d))
<1>1. h' = [h EXCEPT ![p] = [Idle EXCEPT !.op = op, !.at = "ingest", !.deal = a, !.new = d,
                                         !.rev = deals[a].head, !.set = set, !.hasty = TRUE]]
  BY DEF AppendTo
<1> HIDE DEF set
<1>. QED
  BY <1>1 DEF TypeOK, Idle

LEMMA InitTyped == Init => TypeOK
<1> SUFFICES ASSUME Init PROVE TypeOK
  OBVIOUS
<1>1. h \in [Procs -> Handler]
  BY IdleTyped DEF Init
<1>2. DOMAIN kept = {} /\ DOMAIN source = {}
  BY DEF Init
<1>3. source \in [revs -> Extractions]
  BY <1>2 DEF Init
<1>. QED
  BY <1>1, <1>2, <1>3, BoundsAssumption DEF Init, TypeOK

(***************************************************************************)
(* The rest of the state: what a step leaves alone keeps its type.         *)
(***************************************************************************)
StoreTyped ==
    /\ revs \subseteq Revisions
    /\ source \in [revs -> Extractions]
    /\ contexts \subseteq revs
    /\ deals \in Seq(Deal)
    /\ DOMAIN kept \subseteq Roots /\ \A root \in DOMAIN kept : kept[root] \in Seq(Docs)

EnvTyped ==
    /\ room \in Seq(Docs) /\ ref \in Refs
    /\ version \in 1 .. MaxVersion
    /\ rekeys \in Nat /\ crashes \in Nat /\ faults \in Nat

HandlersTyped == h \in [Procs -> Handler]

LEMMA Typed == TypeOK <=> StoreTyped /\ EnvTyped /\ HandlersTyped
BY DEF TypeOK, StoreTyped, EnvTyped, HandlersTyped

LEMMA StoreStays == StoreTyped /\ UNCHANGED store => StoreTyped'
BY DEF StoreTyped, store, Roots

LEMMA EnvStays == EnvTyped /\ UNCHANGED env => EnvTyped'
BY DEF EnvTyped, env

LEMMA HandlersStep ==
    ASSUME Safe, [Next]_vars
    PROVE  HandlersTyped'
<1> USE IdleTyped DEF HandlersTyped
<1>0. TypeOK /\ h \in [Procs -> Handler]
  BY DEF Safe, TypeOK
<1>1. CASE UNCHANGED h
  BY <1>0, <1>1
<1>2. CASE Restart
  BY <1>2 DEF Restart
<1>3. ASSUME NEW p \in Procs, h' = [h EXCEPT ![p] = Idle] PROVE HandlersTyped'
  BY <1>0, <1>3
<1>4. ASSUME NEW p \in Procs, underwriteLoan(p) PROVE HandlersTyped'
  <2>1. PICK t \in gatherTierADocs :
          h' = [h EXCEPT ![p] = [Idle EXCEPT !.op = "run", !.at = "find", !.name = ref,
                                             !.todo = t]]
    BY <1>4 DEF underwriteLoan
  <2>2. [Idle EXCEPT !.op = "run", !.at = "find", !.name = ref, !.todo = t] \in Handler
    BY <1>0, Gathered DEF Idle, Handler, NoRev, TypeOK
  <2>. QED
    BY <1>0, <2>1, <2>2
<1>5. ASSUME NEW p \in Procs, findDeal(p) PROVE HandlersTyped'
  <2>0. h[p] \in Handler /\ h[p].todo \in Seq(Docs) /\ Len(h[p].todo) > 0
    BY <1>0, <1>5 DEF findDeal, At, Safe, Relies, Begins, Handler
  <2>1. CASE \E a \in lookupAnalysisByDealRef :
               h' = [h EXCEPT ![p].at = "save", ![p].deal = a,
                              ![p].new = h[p].todo[Len(h[p].todo)]]
    <3>1. PICK a \in lookupAnalysisByDealRef :
               h' = [h EXCEPT ![p].at = "save", ![p].deal = a,
                              ![p].new = h[p].todo[Len(h[p].todo)]]
      BY <2>1
    <3>2. a \in Nat
      BY <1>0, DealRow DEF lookupAnalysisByDealRef, bridged, namesakes
    <3>3. h[p].todo[Len(h[p].todo)] \in Docs
      BY <2>0
    <3>4. [h[p] EXCEPT !.at = "save", !.deal = a, !.new = h[p].todo[Len(h[p].todo)]] \in Handler
      BY <2>0, <3>2, <3>3 DEF Handler
    <3>. QED
      BY <1>0, <3>1, <3>4
  <2>2. CASE h' = [h EXCEPT ![p].at = "ingest", ![p].set = DocsOf(h[p].todo)]
    <3>1. DocsOf(h[p].todo) \subseteq Docs
      BY <2>0 DEF DocsOf
    <3>2. [h[p] EXCEPT !.at = "ingest", !.set = DocsOf(h[p].todo)] \in Handler
      BY <2>0, <3>1 DEF Handler
    <3>. QED
      BY <1>0, <2>2, <3>2
  <2>. QED
    BY <1>3, <1>5, <2>1, <2>2 DEF findDeal
<1>6. ASSUME NEW p \in Procs, NEW at \in {"read", "save", "promote", "keep"}, Len(h[p].todo) > 0,
             h' = [h EXCEPT ![p].todo = Tail(h[p].todo), ![p].at = at]
      PROVE  HandlersTyped'
  <2>1. h[p] \in Handler /\ Tail(h[p].todo) \in Seq(Docs)
    BY <1>0, <1>6 DEF Handler
  <2>2. [h[p] EXCEPT !.todo = Tail(h[p].todo), !.at = at] \in Handler
    BY <2>1 DEF Handler
  <2>. QED
    BY <1>0, <1>6, <2>2
<1>7. ASSUME NEW p \in Procs, NEW op \in {"run", "append"}, NEW a \in DOMAIN deals, NEW d \in Docs,
             AppendTo(p, op, a, d)
      PROVE  HandlersTyped'
  BY <1>0, <1>7, BegunAppend
<1>8. ASSUME NEW p \in Procs, ingestExtractionResult(p) PROVE HandlersTyped'
  <2>1. PICK u \in Units :
          LET x == Composed(h[p], u)
              r == computeRevisionId(h[p].rev, applyJudgmentAdjustments(x))
          IN h' = [h EXCEPT ![p].at = "context", ![p].rev = r]
    BY <1>8 DEF ingestExtractionResult
  <2> DEFINE r == computeRevisionId(h[p].rev, applyJudgmentAdjustments(Composed(h[p], u)))
  <2>2. r \in Seq(Inputs)
    BY <1>0, <1>8, ChildOfComposed DEF ingestExtractionResult, At, Safe, Revisions
  <2> HIDE DEF r
  <2>3. [h[p] EXCEPT !.at = "context", !.rev = r] \in Handler
    BY <1>0, <2>2 DEF Handler
  <2>4. h' = [h EXCEPT ![p].at = "context", ![p].rev = r]
    BY <2>1 DEF r
  <2>. QED
    BY <1>0, <2>3, <2>4
<1>9. ASSUME NEW p \in Procs, NEW at \in {"keep", "head", "persist"}, h' = [h EXCEPT ![p].at = at]
      PROVE  HandlersTyped'
  <2>1. [h[p] EXCEPT !.at = at] \in Handler
    BY <1>0 DEF Handler
  <2>. QED
    BY <1>0, <1>9, <2>1
<1>10. ASSUME NEW p \in Procs, applyRevisionDelta(p) PROVE HandlersTyped'
  <2>1. PICK latest \in revs, e \in Edits :
          h' = [h EXCEPT ![p] = [Idle EXCEPT !.op = "edit", !.at = "evaluate",
                  !.rev = computeRevisionId(latest, [latest[Len(latest)] EXCEPT !.edits = @ \cup {e}])]]
    BY <1>10 DEF applyRevisionDelta, getLatestRevisionByLineageRoot, Lineage
  <2> DEFINE r == computeRevisionId(latest, [latest[Len(latest)] EXCEPT !.edits = @ \cup {e}])
  <2>2. r \in Seq(Inputs)
    BY <1>0, EditedRevision DEF Revisions
  <2> HIDE DEF r
  <2>3. [Idle EXCEPT !.op = "edit", !.at = "evaluate", !.rev = r] \in Handler
    BY <2>2 DEF Idle, Handler
  <2>. QED
    BY <1>0, <2>1, <2>3 DEF r
<1>11. ASSUME NEW p \in Procs, saveGathered(p) \/ saveAtRoot(p) PROVE HandlersTyped'
  <2>1. Len(h[p].todo) > 0
    BY <1>11 DEF saveGathered, saveAtRoot, At, Safe, Relies, Begins, Finishes
  <2>. QED
    BY <1>6, <1>11, <2>1 DEF saveGathered, saveAtRoot
<1>12. ASSUME NEW p \in Procs, appendGathered(p) PROVE HandlersTyped'
  <2>1. h[p].deal \in DOMAIN deals /\ h[p].new \in Docs
    BY <1>12 DEF appendGathered, At, Safe, Relies, Begins, OnDeal
  <2>. QED
    BY <1>7, <1>12, <2>1 DEF appendGathered
<1>13. ASSUME NEW p \in Procs, postDocument(p) PROVE HandlersTyped'
  BY <1>7, <1>13, DataAssumption DEF postDocument
<1>14. ASSUME NEW p \in Procs, saveAppended(p) \/ promoteFromGraph(p) \/ insertEdit(p) \/ Throw(p)
       PROVE  HandlersTyped'
  BY <1>3, <1>14 DEF saveAppended, promoteFromGraph, insertEdit, Throw
<1>15. ASSUME NEW p \in Procs, insertRevisionEvaluationContext(p) \/ updateAnalysis(p)
       PROVE  HandlersTyped'
  BY <1>9, <1>15 DEF insertRevisionEvaluationContext, updateAnalysis
<1>. QED
  BY <1>1, <1>2, <1>4, <1>5, <1>8, <1>10, <1>11, <1>12, <1>13, <1>14, <1>15
     DEF Next, Run, Ingest, FileDoc, Rekey, vars

-----------------------------------------------------------------------------
(***************************************************************************)
(* The store only grows: revisions and their extractions stay, deals stay  *)
(* with their names and lineages, kept documents stay kept.                *)
(***************************************************************************)
Sound == StoreTyped /\ Chained /\ HeadsAreAppendable

DealsStay ==
    \A a \in DOMAIN deals :
        /\ a \in DOMAIN deals'
        /\ deals'[a].name = deals[a].name
        /\ lineageRootId(deals'[a].head) = lineageRootId(deals[a].head)

DocsStay == \A root : DocsOf(getDealSourceDocs(root)) \subseteq DocsOf(getDealSourceDocs(root))'

RevisionsStay ==
    /\ revs \subseteq revs'
    /\ \A q \in revs : source'[q] = source[q]
    /\ contexts \subseteq contexts'

Grows == RevisionsStay /\ DealsStay /\ DocsStay

LEMMA UnchangedStep ==
    ASSUME Safe, UNCHANGED store
    PROVE  Sound' /\ Grows
<1>1. StoreTyped'
  BY StoreStays, Typed DEF Safe
<1>2. Chained' /\ HeadsAreAppendable'
  BY DEF Safe, store, Chained, HeadsAreAppendable
<1>3. Grows
  BY DEF store, Grows, RevisionsStay, DealsStay, DocsStay, getDealSourceDocs, DocsOf
<1>. QED
  BY <1>1, <1>2, <1>3 DEF Sound

LEMMA KeepStep ==
    ASSUME Safe, NEW root \in Roots, NEW d \in Docs, saveDealSourceDoc(root, d),
           UNCHANGED <<revs, source, contexts, deals>>
    PROVE  Sound' /\ Grows
<1>1. /\ DOMAIN kept' \subseteq Roots
      /\ \A r \in DOMAIN kept' : kept'[r] \in Seq(Docs)
      /\ DocsStay
  BY KeptDocs DEF Safe, DocsStay
<1>2. StoreTyped'
  BY <1>1, Typed DEF Safe, StoreTyped, Roots
<1>3. Chained' /\ HeadsAreAppendable'
  BY DEF Safe, Chained, HeadsAreAppendable
<1>. QED
  BY <1>1, <1>2, <1>3 DEF Sound, Grows, RevisionsStay, DealsStay

LEMMA InsertStep ==
    ASSUME Safe, NEW r \in Revisions, NEW x \in Extractions,
           insertRevisionLineageEnvelope(r, x), UNCHANGED <<contexts, deals, kept>>,
           r[Len(r)].docs = x.docs,
           Len(r) > 1 => parentRevisionId(r) \in revs
    PROVE  Sound' /\ Grows
<1>0. Len(r) = 1 \/ Len(r) > 1
  <2>1. Len(r) \in Nat \ {0}
    BY RootRevision
  <2>. QED
    BY <2>1
<1>1. /\ revs' = revs \cup {r} /\ revs' \subseteq Revisions
      /\ source' \in [revs' -> Extractions]
      /\ \A q \in revs : source'[q] = source[q]
      /\ r \notin revs => source'[r] = x
  BY InsertedEnvelope DEF Safe
<1>2. StoreTyped'
  BY <1>1, Typed DEF Safe, StoreTyped, Roots
<1>3. Chained'
  <2> SUFFICES ASSUME NEW q \in revs'
               PROVE  /\ lineageRootId(q) \in revs'
                      /\ Len(q) > 1 => parentRevisionId(q) \in revs'
                      /\ source'[q].docs = q[Len(q)].docs
    BY DEF Chained
  <2>1. CASE q \in revs
    BY <1>1, <2>1 DEF Safe, Chained
  <2>2. CASE q = r /\ r \notin revs
    <3>1. lineageRootId(r) \in revs'
      <4>1. CASE Len(r) = 1
        BY <1>1, <4>1, RootRevision
      <4>2. CASE Len(r) > 1
        BY <1>1, <4>2, ParentRevision DEF Safe, Chained
      <4>. QED
        BY <1>0, <4>1, <4>2
    <3>. QED
      BY <1>1, <2>2, <3>1
  <2>. QED
    BY <1>1, <2>1, <2>2
<1>5. HeadsAreAppendable'
  BY DEF Safe, HeadsAreAppendable
<1>6. Grows
  BY <1>1 DEF Grows, RevisionsStay, DealsStay, DocsStay, getDealSourceDocs, DocsOf
<1>. QED
  BY <1>2, <1>3, <1>5, <1>6 DEF Sound

LEMMA MoveStep ==
    ASSUME Safe, NEW a \in DOMAIN deals, NEW r \in contexts,
           lineageRootId(r) = lineageRootId(deals[a].head),
           deals' = [deals EXCEPT ![a].head = r], UNCHANGED <<revs, source, contexts, kept>>
    PROVE  Sound' /\ Grows
<1>1. deals \in Seq(Deal) /\ deals[a] \in Deal /\ r \in Revisions /\ a \in 1 .. Len(deals)
  BY DealRow DEF Safe, TypeOK
<1>2. [deals[a] EXCEPT !.head = r] \in Deal
  BY <1>1 DEF Deal
<1>3. deals' = [deals EXCEPT ![a] = [deals[a] EXCEPT !.head = r]]
  OBVIOUS
<1>4. /\ deals' \in Seq(Deal) /\ DOMAIN deals' = DOMAIN deals
      /\ deals'[a] = [deals[a] EXCEPT !.head = r]
      /\ \A b \in DOMAIN deals : b # a => deals'[b] = deals[b]
  BY <1>1, <1>2, <1>3, ExceptSeq
<1>5. deals'[a].head = r /\ deals'[a].name = deals[a].name
  BY <1>1, <1>4 DEF Deal
<1>6. StoreTyped'
  BY <1>4, Typed DEF Safe, StoreTyped, Roots
<1>7. HeadsAreAppendable'
  BY <1>4, <1>5 DEF Safe, HeadsAreAppendable
<1>8. Chained'
  BY DEF Safe, Chained
<1>9. DealsStay
  BY <1>4, <1>5 DEF DealsStay
<1>. QED
  BY <1>6, <1>7, <1>8, <1>9 DEF Sound, Grows, RevisionsStay, DocsStay, getDealSourceDocs, DocsOf

LEMMA OpenStep ==
    ASSUME Safe, NEW name \in Refs \cup {DealRef}, NEW r \in contexts,
           deals' = Append(deals, [name |-> name, head |-> r]),
           UNCHANGED <<revs, source, contexts, kept>>
    PROVE  Sound' /\ Grows
<1>1. deals \in Seq(Deal) /\ [name |-> name, head |-> r] \in Deal
  BY DEF Safe, TypeOK, Deal
<1>2. /\ deals' \in Seq(Deal) /\ DOMAIN deals' = DOMAIN deals \cup {Len(deals) + 1}
      /\ \A b \in DOMAIN deals : deals'[b] = deals[b]
      /\ deals'[Len(deals) + 1].head = r
  BY <1>1, AppendProperties, LenProperties
<1>3. StoreTyped'
  BY <1>2, Typed DEF Safe, StoreTyped, Roots
<1>4. HeadsAreAppendable'
  BY <1>2 DEF Safe, HeadsAreAppendable
<1>5. Chained'
  BY DEF Safe, Chained
<1>6. DealsStay
  BY <1>2 DEF DealsStay
<1>. QED
  BY <1>3, <1>4, <1>5, <1>6 DEF Sound, Grows, RevisionsStay, DocsStay, getDealSourceDocs, DocsOf

(***************************************************************************)
(* Every step of every handler leaves the store sound and grown.           *)
(***************************************************************************)
LEMMA IngestSound ==
    ASSUME Safe, NEW p \in Procs, ingestExtractionResult(p)
    PROVE  Sound' /\ Grows
<1>1. PICK u \in Units :
        insertRevisionLineageEnvelope(
            computeRevisionId(h[p].rev, applyJudgmentAdjustments(Composed(h[p], u))),
            Composed(h[p], u))
  BY DEF ingestExtractionResult
<1> DEFINE x == Composed(h[p], u)
           r == computeRevisionId(h[p].rev, applyJudgmentAdjustments(x))
<1>2. TypeOK /\ Relies(p) /\ h[p].at = "ingest"
  BY DEF Safe, ingestExtractionResult, At
<1>3. x \in Extractions
  BY <1>2, ComposedExtraction
<1>4. /\ r \in Revisions /\ Len(r) = Len(h[p].rev) + 1 /\ r[Len(r)].docs = x.docs
      /\ parentRevisionId(r) = h[p].rev
  BY <1>2, ChildOfComposed
<1>5. insertRevisionLineageEnvelope(r, x) /\ UNCHANGED <<contexts, deals, kept>>
  BY <1>1 DEF ingestExtractionResult
<1>6. OnLineage(p) \/ h[p].rev = NoRev
  BY <1>2 DEF Relies, Ingests
<1> HIDE DEF x, r
<1>7. Len(r) > 1 => OnLineage(p)
  BY <1>4, <1>6 DEF NoRev
<1>8. OnLineage(p) => h[p].rev \in revs
  BY DEF OnLineage
<1>. QED
  BY <1>3, <1>4, <1>5, <1>7, <1>8, InsertStep

LEMMA EditSound ==
    ASSUME Safe, NEW p \in Procs, insertEdit(p)
    PROVE  Sound' /\ Grows
<1> DEFINE r == h[p].rev
           parent == parentRevisionId(r)
<1>1. /\ Len(r) > 1 /\ parent \in revs /\ r[Len(r)].docs = parent[Len(parent)].docs
  BY DEF insertEdit, At, Safe, Relies, Finishes
<1>2. r \in Revisions
  BY <1>1 DEF Safe, TypeOK, Handler, Revisions
<1>3. source[parent] \in Extractions /\ source[parent].docs = parent[Len(parent)].docs
  BY <1>1 DEF Safe, TypeOK, Chained
<1>5. insertRevisionLineageEnvelope(r, source[parent]) /\ UNCHANGED <<contexts, deals, kept>>
  BY DEF insertEdit
<1> HIDE DEF r, parent
<1>. QED
  BY <1>1, <1>2, <1>3, <1>5, InsertStep DEF parent

LEMMA StoreStep ==
    ASSUME Safe, [Next]_vars
    PROVE  Sound' /\ Grows
<1>1. CASE UNCHANGED store
  BY <1>1, UnchangedStep
<1>2. ASSUME NEW p \in Procs, ingestExtractionResult(p) PROVE Sound' /\ Grows
  BY <1>2, IngestSound
<1>3. ASSUME NEW p \in Procs, insertEdit(p) PROVE Sound' /\ Grows
  BY <1>3, EditSound
<1>4. ASSUME NEW p \in Procs, saveGathered(p) PROVE Sound' /\ Grows
  <2>1. h[p].deal \in DOMAIN deals /\ Len(h[p].todo) > 0 /\ h[p].todo \in Seq(Docs)
    BY <1>4 DEF saveGathered, At, Safe, Relies, Begins, OnDeal, TypeOK, Handler
  <2>2. DealRoot(p) \in Roots
    <3>1. deals[h[p].deal].head \in revs
      BY <2>1 DEF Safe, HeadsAreAppendable, TypeOK
    <3>. QED
      BY <3>1, RootRevision DEF DealRoot, Roots, Safe, Chained, TypeOK
  <2>3. Head(h[p].todo) \in Docs
    BY <2>1
  <2>. QED
    BY <1>4, <2>2, <2>3, KeepStep DEF saveGathered
<1>5. ASSUME NEW p \in Procs, saveAppended(p) \/ saveAtRoot(p) PROVE Sound' /\ Grows
  <2> DEFINE d == IF h[p].at = "persist" THEN h[p].new ELSE Head(h[p].todo)
  <2>1. h[p].rev \in revs /\ d \in Docs
    BY <1>5 DEF saveAppended, saveAtRoot, At, Safe, Relies, Finishes, TypeOK, Handler
  <2>2. lineageRootId(h[p].rev) \in Roots
    BY <2>1, RootRevision DEF Roots, Safe, Chained, TypeOK
  <2>3. /\ SaveOrMiss(lineageRootId(h[p].rev), d)
        /\ UNCHANGED <<revs, source, contexts, deals>>
    BY <1>5 DEF saveAppended, saveAtRoot, At
  <2> HIDE DEF d
  <2>4. CASE saveDealSourceDoc(lineageRootId(h[p].rev), d)
    BY <2>1, <2>2, <2>3, <2>4, KeepStep
  <2>5. CASE UNCHANGED kept
    BY <2>3, <2>5, UnchangedStep DEF store
  <2>. QED
    BY <2>3, <2>4, <2>5 DEF SaveOrMiss
<1>6. ASSUME NEW p \in Procs, insertRevisionEvaluationContext(p) PROVE Sound' /\ Grows
  <2>1. h[p].rev \in revs
    BY <1>6 DEF insertRevisionEvaluationContext, Safe, Relies, Ingests, OnLineage, Roots
  <2>2. contexts' = contexts \cup {h[p].rev} /\ UNCHANGED <<revs, source, deals, kept>>
    BY <1>6 DEF insertRevisionEvaluationContext
  <2>3. StoreTyped'
    BY <2>1, <2>2, Typed DEF Safe, StoreTyped, Roots
  <2>4. Chained' /\ HeadsAreAppendable'
    BY <2>2 DEF Safe, Chained, HeadsAreAppendable
  <2>5. Grows
    BY <2>2 DEF Grows, RevisionsStay, DealsStay, DocsStay, getDealSourceDocs, DocsOf
  <2>. QED
    BY <2>3, <2>4, <2>5 DEF Sound
<1>7. ASSUME NEW p \in Procs, updateAnalysis(p) PROVE Sound' /\ Grows
  <2>1. /\ h[p].deal \in DOMAIN deals /\ h[p].rev \in contexts
        /\ lineageRootId(h[p].rev) = lineageRootId(deals[h[p].deal].head)
    BY <1>7 DEF updateAnalysis, At, Safe, Relies, Ingests, OnLineage, OnDeal
  <2>. QED
    BY <1>7, <2>1, MoveStep DEF updateAnalysis
<1>8. ASSUME NEW p \in Procs, promoteFromGraph(p) PROVE Sound' /\ Grows
  <2>1. h[p].rev \in contexts /\ h[p].name \in Refs \cup {DealRef}
    BY <1>8 DEF promoteFromGraph, At, Safe, Relies, Finishes, TypeOK, Handler
  <2>. QED
    BY <1>8, <2>1, OpenStep DEF promoteFromGraph
<1>. QED
  BY <1>1, <1>2, <1>3, <1>4, <1>5, <1>6, <1>7, <1>8
     DEF Next, Run, Ingest, FileDoc, Rekey, underwriteLoan, findDeal, appendGathered, postDocument,
         applyRevisionDelta, Throw, Restart, vars

LEMMA EnvStep ==
    ASSUME Safe, [Next]_vars
    PROVE  EnvTyped'
<1>0. EnvTyped
  BY Typed DEF Safe
<1>1. CASE UNCHANGED env
  BY <1>0, <1>1, EnvStays
<1>2. CASE \E d \in Filed : FileDoc(d)
  BY <1>0, <1>2, AppendProperties, DataAssumption DEF FileDoc, EnvTyped
<1>3. CASE \E r \in Refs : Rekey(r)
  BY <1>0, <1>3 DEF Rekey, EnvTyped
<1>4. CASE Restart
  BY <1>0, <1>4, BoundsAssumption DEF Restart, EnvTyped
<1>5. ASSUME NEW p \in Procs, saveAppended(p) \/ saveAtRoot(p) PROVE EnvTyped'
  BY <1>0, <1>5 DEF saveAppended, saveAtRoot, SaveOrMiss, EnvTyped
<1>. QED
  BY <1>1, <1>2, <1>3, <1>4, <1>5
     DEF Next, Run, Ingest, underwriteLoan, findDeal, saveGathered, appendGathered, postDocument,
         ingestExtractionResult, insertRevisionEvaluationContext, updateAnalysis, promoteFromGraph,
         applyRevisionDelta, insertEdit, Throw, vars

-----------------------------------------------------------------------------
(***************************************************************************)
(* What a handler relies on holds through the steps of the others, and its *)
(* own step sets up what it relies on next.                                *)
(***************************************************************************)
LEMMA IdleRelies ==
    ASSUME NEW q, h'[q] = Idle
    PROVE  Relies(q)'
BY DEF Relies, Begins, Ingests, Finishes, Idle

LEMMA FrameRelies ==
    ASSUME Safe, Grows, NEW q \in Procs, h'[q] = h[q]
    PROVE  Relies(q)'
<1>1. OnDeal(q) => OnDeal(q)'
  BY DEF OnDeal, Grows, DealsStay
<1>2. OnLineage(q) => OnLineage(q)'
  BY <1>1 DEF OnLineage, OnDeal, Grows, DealsStay, RevisionsStay
<1>3. Roots \subseteq Roots' /\ revs \subseteq revs' /\ contexts \subseteq contexts'
  BY DEF Roots, Grows, RevisionsStay
<1>4. OpensDeal(q) => OpensDeal(q)'
  BY DEF OpensDeal
<1>5. Begins(q)'
  BY <1>1 DEF Safe, Relies, Begins
<1>6. Ingests(q)'
  <2>1. (h[q].at = "ingest")' =>
           \/ OpensDeal(q)' /\ h'[q].rev = NoRev /\ Len(h'[q].todo) > 0
                             /\ h'[q].set = DocsOf(h'[q].todo)
           \/ OnLineage(q)' /\ h'[q].new \in h'[q].set
    BY <1>2, <1>4 DEF Safe, Relies, Ingests
  <2>2. (h[q].at = "context")' =>
           \/ OpensDeal(q)' /\ h'[q].rev \in Roots' /\ Len(h'[q].todo) > 0
           \/ OnLineage(q)'
    BY <1>2, <1>3, <1>4 DEF Safe, Relies, Ingests
  <2>3. (h[q].at = "head")' => OnLineage(q)' /\ h'[q].rev \in contexts'
    BY <1>2, <1>3 DEF Safe, Relies, Ingests
  <2>. QED
    BY <2>1, <2>2, <2>3 DEF Ingests, NoRev, DocsOf
<1>7. Finishes(q)'
  BY <1>3, <1>4 DEF Safe, Relies, Finishes, parentRevisionId
<1>. QED
  BY <1>5, <1>6, <1>7 DEF Relies

LEMMA OwnRelies ==
    ASSUME Safe, NEW p \in Procs, Grows, StoreTyped',
           \/ Run(p) \/ postDocument(p) \/ Ingest(p)
           \/ applyRevisionDelta(p) \/ insertEdit(p) \/ Throw(p)
    PROVE  Relies(p)'
<1>0. TypeOK /\ h[p] \in Handler /\ Relies(p) /\ h \in [Procs -> Handler]
  BY DEF Safe, TypeOK
<1>1. CASE h' = [h EXCEPT ![p] = Idle]
  BY <1>0, <1>1, IdleRelies
<1>2. CASE underwriteLoan(p)
  <2>1. PICK t \in gatherTierADocs :
          h' = [h EXCEPT ![p] = [Idle EXCEPT !.op = "run", !.at = "find", !.name = ref,
                                             !.todo = t]]
    BY <1>2 DEF underwriteLoan
  <2>2. /\ h'[p].op = "run" /\ h'[p].at = "find" /\ h'[p].todo = t
        /\ h'[p].deal = 0 /\ h'[p].rev = NoRev
    BY <1>0, <2>1 DEF Idle
  <2>. QED
    BY <1>0, <2>2, Gathered DEF Relies, Begins, Ingests, Finishes, NoRev
<1>3. CASE findDeal(p)
  <2>0. /\ h[p].op = "run" /\ h[p].deal = 0 /\ Len(h[p].todo) > 0
        /\ h[p].todo \in Seq(Docs) /\ UNCHANGED store
    BY <1>0, <1>3 DEF findDeal, At, Relies, Begins, Handler
  <2>1. CASE \E a \in lookupAnalysisByDealRef :
               h' = [h EXCEPT ![p].at = "save", ![p].deal = a,
                              ![p].new = h[p].todo[Len(h[p].todo)]]
    <3>1. PICK a \in lookupAnalysisByDealRef :
               h' = [h EXCEPT ![p].at = "save", ![p].deal = a,
                              ![p].new = h[p].todo[Len(h[p].todo)]]
      BY <2>1
    <3>2. a \in DOMAIN deals
      BY DEF lookupAnalysisByDealRef, bridged, namesakes
    <3>3. h[p].todo[Len(h[p].todo)] \in Docs
      BY <2>0
    <3>4. /\ h'[p].at = "save" /\ h'[p].deal = a /\ h'[p].new = h[p].todo[Len(h[p].todo)]
          /\ h'[p].op = "run" /\ h'[p].todo = h[p].todo
      BY <1>0, <2>0, <3>1 DEF Handler
    <3>. QED
      BY <2>0, <3>2, <3>3, <3>4 DEF Relies, Begins, Ingests, Finishes, OnDeal, store
  <2>2. CASE h' = [h EXCEPT ![p].at = "ingest", ![p].set = DocsOf(h[p].todo)]
    <3>1. h[p].rev = NoRev
      BY <1>0, <1>3 DEF findDeal, At, Relies, Begins
    <3>2. /\ h'[p].at = "ingest" /\ h'[p].set = DocsOf(h[p].todo) /\ h'[p].todo = h[p].todo
          /\ h'[p].op = "run" /\ h'[p].deal = 0 /\ h'[p].rev = NoRev
      BY <1>0, <2>0, <2>2, <3>1 DEF Handler
    <3>. QED
      BY <2>0, <3>2 DEF Relies, Begins, Ingests, Finishes, OpensDeal, DocsOf, NoRev
  <2>. QED
    BY <1>1, <1>3, <2>1, <2>2 DEF findDeal
<1>4. CASE saveGathered(p)
  <2>1. /\ h[p].op = "run" /\ OnDeal(p) /\ Len(h[p].todo) > 0 /\ h[p].todo \in Seq(Docs)
    BY <1>0, <1>4 DEF saveGathered, At, Relies, Begins, Handler
  <2>2. /\ h'[p].todo = Tail(h[p].todo) /\ h'[p].op = "run"
        /\ h'[p].deal = h[p].deal /\ h'[p].new = h[p].new
        /\ h'[p].at = IF Len(h[p].todo) = 1 THEN "read" ELSE "save"
    BY <1>0, <1>4, <2>1 DEF saveGathered, Handler
  <2>3. Len(h[p].todo) # 1 => Len(Tail(h[p].todo)) > 0
    BY <2>1, TailShorter
  <2>4. OnDeal(p)'
    BY <2>1, <2>2 DEF OnDeal, Grows, DealsStay
  <2>. QED
    BY <2>2, <2>3, <2>4 DEF Relies, Begins, Ingests, Finishes
<1>5. ASSUME NEW op \in {"run", "append"}, NEW a \in DOMAIN deals, NEW d \in Docs,
             AppendTo(p, op, a, d), UNCHANGED store
      PROVE  Relies(p)'
  <2> DEFINE head == deals[a].head
             set == LastOfSlots(Append(getDealSourceDocs(lineageRootId(head)), d))
  <2>1. d \in set
    BY <1>0, KeptTyped, ComposedSet
  <2>2. head \in revs
    BY DEF Safe, HeadsAreAppendable, TypeOK
  <2>4. /\ h'[p].at = "ingest" /\ h'[p].deal = a /\ h'[p].new = d /\ h'[p].rev = head
        /\ h'[p].set = set
    BY <1>0, <1>5, BegunAppend
  <2> HIDE DEF set
  <2>5. OnLineage(p)'
    BY <1>5, <2>2, <2>4 DEF OnLineage, OnDeal, store
  <2>. QED
    BY <2>1, <2>4, <2>5 DEF Relies, Begins, Ingests, Finishes
<1>6. CASE appendGathered(p)
  <2>1. h[p].deal \in DOMAIN deals /\ h[p].new \in Docs
    BY <1>0, <1>6 DEF appendGathered, At, Relies, Begins, OnDeal
  <2>. QED
    BY <1>5, <1>6, <2>1 DEF appendGathered
<1>7. CASE postDocument(p)
  BY <1>5, <1>7, DataAssumption DEF postDocument
<1>8. CASE ingestExtractionResult(p)
  <2>1. PICK u \in Units :
          LET x == Composed(h[p], u)
              r == computeRevisionId(h[p].rev, applyJudgmentAdjustments(x))
          IN /\ insertRevisionLineageEnvelope(r, x)
             /\ h' = [h EXCEPT ![p].at = "context", ![p].rev = r]
    BY <1>8 DEF ingestExtractionResult
  <2> DEFINE r == computeRevisionId(h[p].rev, applyJudgmentAdjustments(Composed(h[p], u)))
  <2>2. h[p].at = "ingest"
    BY <1>8 DEF ingestExtractionResult, At
  <2>3. /\ r \in Revisions /\ Len(r) = Len(h[p].rev) + 1
        /\ h[p].rev # NoRev => lineageRootId(r) = lineageRootId(h[p].rev)
    BY <1>0, <2>2, ChildOfComposed
  <2>4. r \in revs'
    BY <2>1 DEF insertRevisionLineageEnvelope
  <2> HIDE DEF r
  <2>5. h' = [h EXCEPT ![p].at = "context", ![p].rev = r]
    BY <2>1 DEF r
  <2>6. /\ h'[p].at = "context" /\ h'[p].rev = r /\ h'[p].op = h[p].op
        /\ h'[p].deal = h[p].deal /\ h'[p].todo = h[p].todo /\ h'[p].new = h[p].new
    BY <1>0, <2>5 DEF Handler
  <2>7. CASE OpensDeal(p) /\ h[p].rev = NoRev /\ Len(h[p].todo) > 0
    <3>1. Len(r) = 1
      BY <2>3, <2>7 DEF NoRev
    <3>2. r \in Roots'
      BY <2>4, <3>1 DEF Roots
    <3>. QED
      BY <2>6, <2>7, <3>2 DEF Relies, Begins, Ingests, Finishes, OpensDeal
  <2>8. CASE OnLineage(p)
    <3>1. h[p].rev # NoRev
      BY <2>8 DEF OnLineage, Safe, TypeOK, Revisions, NoRev
    <3>2. /\ h[p].deal \in DOMAIN deals' /\ h[p].new \in Docs
          /\ lineageRootId(r) = lineageRootId(deals'[h[p].deal].head)
      BY <2>3, <2>8, <3>1 DEF OnLineage, OnDeal, Grows, DealsStay
    <3>3. OnLineage(p)'
      BY <2>4, <2>6, <3>2 DEF OnLineage, OnDeal
    <3>. QED
      BY <2>6, <3>3 DEF Relies, Begins, Ingests, Finishes
  <2>. QED
    BY <1>0, <2>2, <2>7, <2>8 DEF Relies, Ingests
<1>9. CASE insertRevisionEvaluationContext(p)
  <2>1. /\ h[p].at = "context" /\ h'[p].rev = h[p].rev /\ h'[p].op = h[p].op
        /\ h'[p].deal = h[p].deal /\ h'[p].todo = h[p].todo /\ h'[p].new = h[p].new
        /\ h'[p].at = IF h[p].deal = 0 THEN "keep" ELSE "head"
        /\ h[p].rev \in contexts'
    BY <1>0, <1>9 DEF insertRevisionEvaluationContext, Handler
  <2>2. CASE OpensDeal(p) /\ h[p].rev \in Roots /\ Len(h[p].todo) > 0
    <3>1. h[p].rev \in Roots'
      BY <2>2 DEF Roots, Grows, RevisionsStay
    <3>. QED
      BY <2>1, <2>2, <3>1 DEF Relies, Begins, Ingests, Finishes, OpensDeal
  <2>3. CASE OnLineage(p)
    <3>1. h[p].deal # 0
      BY <1>0, <2>3, DealRow DEF OnLineage, OnDeal
    <3>2. OnLineage(p)'
      BY <2>1, <2>3 DEF OnLineage, OnDeal, Grows, DealsStay, RevisionsStay
    <3>. QED
      BY <2>1, <3>1, <3>2 DEF Relies, Begins, Ingests, Finishes
  <2>. QED
    BY <1>0, <2>1, <2>2, <2>3 DEF Relies, Ingests
<1>10. CASE updateAnalysis(p)
  <2>1. /\ h[p].at = "head" /\ h'[p].rev = h[p].rev /\ h'[p].new = h[p].new
        /\ h'[p].at = "persist" /\ h[p].rev \in contexts'
    BY <1>0, <1>10 DEF updateAnalysis, At, Handler, Relies, Ingests
  <2>2. h'[p].new \in Docs
    BY <1>0, <2>1 DEF Relies, Ingests, OnLineage, OnDeal
  <2>. QED
    BY <2>1, <2>2 DEF Relies, Begins, Ingests, Finishes
<1>11. CASE saveAtRoot(p)
  <2>1. /\ OpensDeal(p) /\ h[p].rev \in Roots \cap contexts
        /\ Len(h[p].todo) > 0 /\ h[p].todo \in Seq(Docs)
    BY <1>0, <1>11 DEF saveAtRoot, At, Relies, Finishes, Handler
  <2>2. /\ h'[p].todo = Tail(h[p].todo) /\ h'[p].op = h[p].op
        /\ h'[p].deal = h[p].deal /\ h'[p].rev = h[p].rev
        /\ h'[p].at = IF Len(h[p].todo) = 1 THEN "promote" ELSE "keep"
    BY <1>0, <1>11 DEF saveAtRoot, Handler
  <2>3. Len(h[p].todo) # 1 => Len(Tail(h[p].todo)) > 0
    BY <2>1, TailShorter
  <2>4. h[p].rev \in Roots' \cap contexts'
    BY <2>1 DEF Roots, Grows, RevisionsStay
  <2>. QED
    BY <2>1, <2>2, <2>3, <2>4 DEF Relies, Begins, Ingests, Finishes, OpensDeal
<1>12. CASE applyRevisionDelta(p)
  <2>1. PICK latest \in revs, e \in Edits :
          h' = [h EXCEPT ![p] = [Idle EXCEPT !.op = "edit", !.at = "evaluate",
                  !.rev = computeRevisionId(latest, [latest[Len(latest)] EXCEPT !.edits = @ \cup {e}])]]
    BY <1>12 DEF applyRevisionDelta, getLatestRevisionByLineageRoot, Lineage
  <2> DEFINE r == computeRevisionId(latest, [latest[Len(latest)] EXCEPT !.edits = @ \cup {e}])
  <2>2. /\ Len(r) > 1 /\ parentRevisionId(r) = latest
        /\ r[Len(r)].docs = latest[Len(latest)].docs
    BY <1>0, EditedRevision
  <2>3. latest \in revs'
    BY DEF Grows, RevisionsStay
  <2> HIDE DEF r
  <2>4. h'[p] = [Idle EXCEPT !.op = "edit", !.at = "evaluate", !.rev = r]
    BY <1>0, <2>1 DEF r
  <2>5. h'[p].at = "evaluate" /\ h'[p].rev = r
    BY <2>4 DEF Idle
  <2>. QED
    BY <2>2, <2>3, <2>5 DEF Relies, Begins, Ingests, Finishes, parentRevisionId
<1>13. CASE saveAppended(p) \/ promoteFromGraph(p) \/ insertEdit(p) \/ Throw(p)
  BY <1>1, <1>13 DEF saveAppended, promoteFromGraph, insertEdit, Throw
<1>. QED
  BY <1>2, <1>3, <1>4, <1>6, <1>7, <1>8, <1>9, <1>10, <1>11, <1>12, <1>13 DEF Run, Ingest

LEMMA OthersStay ==
    ASSUME Safe, NEW p \in Procs, NEW q \in Procs, p # q,
           \/ Run(p) \/ postDocument(p) \/ Ingest(p)
           \/ applyRevisionDelta(p) \/ insertEdit(p) \/ Throw(p)
    PROVE  h'[q] = h[q]
BY DEF Safe, TypeOK, Run, Ingest, underwriteLoan, findDeal, saveGathered, appendGathered,
       postDocument, AppendTo, ingestExtractionResult, insertRevisionEvaluationContext,
       updateAnalysis, saveAppended, saveAtRoot, promoteFromGraph, applyRevisionDelta, insertEdit,
       Throw

LEMMA ReliesStep ==
    ASSUME Safe, [Next]_vars
    PROVE  \A q \in Procs : Relies(q)'
<1> SUFFICES ASSUME NEW q \in Procs PROVE Relies(q)'
  OBVIOUS
<1>1. Grows /\ StoreTyped'
  BY StoreStep DEF Sound
<1>2. CASE h'[q] = h[q]
  BY <1>1, <1>2, FrameRelies
<1>3. CASE h'[q] = Idle
  BY <1>3, IdleRelies
<1>4. ASSUME NEW p \in Procs,
             \/ Run(p) \/ postDocument(p) \/ Ingest(p)
             \/ applyRevisionDelta(p) \/ insertEdit(p) \/ Throw(p)
      PROVE  Relies(q)'
  <2>1. CASE q = p
    BY <1>1, <1>4, <2>1, OwnRelies
  <2>2. CASE q # p
    <3>1. h'[q] = h[q]
      BY <1>4, <2>2, OthersStay
    <3>. QED
      BY <1>2, <3>1
  <2>. QED
    BY <2>1, <2>2
<1>5. CASE UNCHANGED h
  BY <1>2, <1>5
<1>6. CASE Restart
  BY <1>3, <1>6 DEF Restart
<1>. QED
  BY <1>4, <1>5, <1>6 DEF Next, FileDoc, Rekey, vars

-----------------------------------------------------------------------------
LEMMA SafeInit == Init => Safe
<1> SUFFICES ASSUME Init PROVE Safe
  OBVIOUS
<1>1. TypeOK
  BY InitTyped
<1>2. Chained
  BY DEF Init, Chained
<1>3. HeadsAreAppendable
  BY DEF Init, HeadsAreAppendable
<1>4. \A p \in Procs : Relies(p)
  BY DEF Init, Relies, Begins, Ingests, Finishes, Idle
<1>. QED
  BY <1>1, <1>2, <1>3, <1>4 DEF Safe

LEMMA SafeStep == Safe /\ [Next]_vars => Safe'
<1> SUFFICES ASSUME Safe, [Next]_vars PROVE Safe'
  OBVIOUS
<1>1. Sound'
  BY StoreStep
<1>2. TypeOK'
  BY <1>1, EnvStep, HandlersStep DEF TypeOK, Sound, StoreTyped, EnvTyped, HandlersTyped
<1>. QED
  BY <1>1, <1>2, ReliesStep DEF Safe, Sound

LEMMA SafeAlways == Spec => []Safe
BY SafeInit, SafeStep, PTL DEF Spec

(***************************************************************************)
(* The store and the handlers are of their types, for any number of each.  *)
(***************************************************************************)
THEOREM RevisionTyped == Spec => []TypeOK
<1>1. Safe => TypeOK
  BY DEF Safe
<1>. QED
  BY <1>1, SafeAlways, PTL

(***************************************************************************)
(* Every deal can take another document, whichever handlers moved its head *)
(* and wherever they died.                                                 *)
(***************************************************************************)
THEOREM HeadsAppendable == Spec => []HeadsAreAppendable
<1>1. Safe => HeadsAreAppendable
  BY DEF Safe
<1>. QED
  BY <1>1, SafeAlways, PTL

-----------------------------------------------------------------------------
(***************************************************************************)
(* The store implements the log of revisions: every step records one       *)
(* revision under its parent, opens or moves one deal, or changes nothing. *)
(***************************************************************************)
heads == [a \in DOMAIN deals |-> deals[a].head]

LEMMA HeadsUnchanged ==
    ASSUME UNCHANGED deals
    PROVE  UNCHANGED heads
BY DEF heads

LEMMA RecordStep ==
    ASSUME Safe, NEW r \in Revisions, NEW x, insertRevisionLineageEnvelope(r, x), UNCHANGED deals,
           Len(r) > 1 => parentRevisionId(r) \in revs
    PROVE  Log!Record
<1>1. revs' = revs \cup {r} /\ r \in revs'
  BY DEF insertRevisionLineageEnvelope
<1>2. Len(r) = 1 \/ SubSeq(r, 1, Len(r) - 1) \in revs
  <2>1. PICK n \in Nat \ {0} : n = Len(r)
    BY RootRevision
  <2>2. n = 1 \/ n > 1
    OBVIOUS
  <2>. QED
    BY <2>1, <2>2 DEF parentRevisionId
<1>3. UNCHANGED heads
  BY HeadsUnchanged
<1>. QED
  BY <1>1, <1>2, <1>3 DEF Log!Record, Log!ParentOf, heads

LEMMA LogStep == Safe /\ [Next]_vars => [Log!Next]_<<revs, heads>>
<1> SUFFICES ASSUME Safe, [Next]_vars PROVE [Log!Next]_<<revs, heads>>
  OBVIOUS
<1>1. CASE UNCHANGED <<revs, deals>>
  BY <1>1, HeadsUnchanged
<1>2. ASSUME NEW p \in Procs, ingestExtractionResult(p) PROVE Log!Next
  <2>1. PICK u \in Units :
          insertRevisionLineageEnvelope(
            computeRevisionId(h[p].rev, applyJudgmentAdjustments(Composed(h[p], u))),
            Composed(h[p], u))
    BY <1>2 DEF ingestExtractionResult
  <2> DEFINE x == Composed(h[p], u)
             r == computeRevisionId(h[p].rev, applyJudgmentAdjustments(x))
  <2>2. TypeOK /\ Relies(p) /\ h[p].at = "ingest"
    BY <1>2 DEF Safe, ingestExtractionResult, At
  <2>3. r \in Revisions /\ Len(r) = Len(h[p].rev) + 1 /\ parentRevisionId(r) = h[p].rev
    BY <2>2, ChildOfComposed
  <2>4. h[p].rev \in revs \/ h[p].rev = NoRev
    BY <2>2 DEF Relies, Ingests, OnLineage
  <2>5. insertRevisionLineageEnvelope(r, x) /\ UNCHANGED deals
    BY <1>2, <2>1 DEF ingestExtractionResult
  <2> HIDE DEF r, x
  <2>6. Len(r) > 1 => parentRevisionId(r) \in revs
    BY <2>3, <2>4 DEF NoRev
  <2>. QED
    BY <2>3, <2>5, <2>6, RecordStep DEF Log!Next
<1>3. ASSUME NEW p \in Procs, insertEdit(p) PROVE Log!Next
  <2>1. Len(h[p].rev) > 1 /\ parentRevisionId(h[p].rev) \in revs
    BY <1>3 DEF insertEdit, At, Safe, Relies, Finishes
  <2>2. h[p].rev \in Revisions
    BY <2>1 DEF Safe, TypeOK, Handler, Revisions
  <2>. QED
    BY <1>3, <2>1, <2>2, RecordStep DEF insertEdit, Log!Next
<1>4. ASSUME NEW p \in Procs, updateAnalysis(p) PROVE Log!Next
  <2> DEFINE a == h[p].deal
             r == h[p].rev
  <2>1. /\ a \in DOMAIN deals /\ r \in revs
        /\ lineageRootId(r) = lineageRootId(deals[a].head)
    BY <1>4 DEF updateAnalysis, At, Safe, Relies, Ingests, OnLineage, OnDeal
  <2>2. r[1] = heads[a][1]
    BY <2>1 DEF lineageRootId, heads
  <2>3. deals' = [deals EXCEPT ![a].head = r] /\ UNCHANGED revs
    BY <1>4 DEF updateAnalysis
  <2>4. \A b \in DOMAIN deals : deals[b] \in Deal
    BY DealRow DEF Safe
  <2>5. deals'[a].head = r /\ \A b \in DOMAIN deals : b # a => deals'[b].head = deals[b].head
    BY <2>1, <2>3, <2>4 DEF Deal
  <2>6. DOMAIN deals' = DOMAIN deals
    BY <2>3
  <2>7. heads' = [heads EXCEPT ![a] = r]
    BY <2>1, <2>5, <2>6 DEF heads
  <2>8. a \in DOMAIN heads
    BY <2>1 DEF heads
  <2>. QED
    BY <2>1, <2>2, <2>3, <2>7, <2>8 DEF Log!Next, Log!Move, heads
<1>5. ASSUME NEW p \in Procs, promoteFromGraph(p) PROVE Log!Next
  <2> DEFINE r == h[p].rev
  <2>1. r \in Roots
    BY <1>5 DEF promoteFromGraph, At, Safe, Relies, Finishes
  <2>2. deals' = Append(deals, [name |-> h[p].name, head |-> r]) /\ UNCHANGED revs
    BY <1>5 DEF promoteFromGraph
  <2>3. PICK n \in Nat : n = Len(deals) /\ DOMAIN deals = 1 .. n
    BY LenProperties DEF Safe, TypeOK
  <2>4. deals \in Seq(Deal) /\ [name |-> h[p].name, head |-> r] \in Deal
    BY <2>1 DEF Safe, TypeOK, Handler, Deal, Roots
  <2>5. /\ DOMAIN deals' = 1 .. n + 1 /\ deals'[n + 1].head = r
        /\ \A b \in 1 .. n : deals'[b] = deals[b]
    BY <2>2, <2>3, <2>4, AppendProperties, LenProperties
  <2>6. heads = [b \in 1 .. n |-> deals[b].head]
    BY <2>3 DEF heads
  <2>7. heads' = [b \in 1 .. n + 1 |-> IF b = n + 1 THEN r ELSE deals[b].head]
    BY <2>3, <2>5 DEF heads
  <2>8. heads \in Seq(Revisions) /\ Len(heads) = n
    <3>1. \A b \in 1 .. n : deals[b].head \in Revisions
      BY <2>3, DealRow DEF Safe
    <3>. QED
      BY <2>6, <3>1
  <2>9. heads' = Append(heads, r)
    <3>1. r \in Revisions
      BY <2>1 DEF Roots, Safe, TypeOK
    <3>2. /\ Append(heads, r) \in Seq(Revisions)
          /\ Len(Append(heads, r)) = n + 1
          /\ Append(heads, r)[n + 1] = r
          /\ \A b \in 1 .. n : Append(heads, r)[b] = heads[b]
      BY <2>8, <3>1, AppendProperties
    <3>3. heads' \in Seq(Revisions) /\ Len(heads') = n + 1
      <4>1. \A b \in 1 .. n + 1 :
              (IF b = n + 1 THEN r ELSE deals[b].head) \in Revisions
        BY <2>3, <3>1, DealRow DEF Safe
      <4>. QED
        BY <2>7, <4>1
    <3>4. \A b \in 1 .. n + 1 : heads'[b] = Append(heads, r)[b]
      <4> SUFFICES ASSUME NEW b \in 1 .. n + 1 PROVE heads'[b] = Append(heads, r)[b]
        OBVIOUS
      <4>1. b = n + 1 \/ (b \in 1 .. n /\ b # n + 1)
        OBVIOUS
      <4>. QED
        BY <2>6, <2>7, <3>2, <4>1
    <3>. QED
      BY <3>2, <3>3, <3>4, SeqEqual
  <2>. QED
    BY <2>1, <2>2, <2>9 DEF Log!Next, Log!Open, heads, Roots
<1>. QED
  BY <1>1, <1>2, <1>3, <1>4, <1>5
     DEF Next, Run, Ingest, FileDoc, Rekey, underwriteLoan, findDeal, saveGathered, appendGathered,
         postDocument, insertRevisionEvaluationContext, saveAppended, saveAtRoot,
         applyRevisionDelta, Throw, Restart, vars, store

(***************************************************************************)
(* Revisions are only added, each under a parent on record, and a deal     *)
(* never leaves the lineage it was opened on, for every number of handlers *)
(* that run, fail and die.                                                 *)
(***************************************************************************)
THEOREM RevisionLogImplemented == Spec => ImplementsRevisionLog
<1>1. Init => Log!Init
  BY DEF Init, Log!Init, heads
<1>2. Safe /\ [Next]_vars => [Log!Next]_<<revs, heads>>
  BY LogStep
<1>. QED
  BY <1>1, <1>2, SafeAlways, PTL DEF Spec, ImplementsRevisionLog, Log!Spec, heads

-----------------------------------------------------------------------------
(***************************************************************************)
(* A loan that keeps its reference keeps its one deal: a run that finds    *)
(* none is the only run there is, and looks for the name deals are given.  *)
(***************************************************************************)
LEMMA SingleInit == Init => Single
<1> SUFFICES ASSUME Init PROVE Single
  OBVIOUS
<1>1. \A p \in Procs : h[p].op = "none" /\ h[p].at = "idle"
  BY DEF Init, Idle
<1>2. Named /\ OneRun
  BY <1>1 DEF Init, Named, OneRun
<1>3. OneDealUnlessRekeyed
  BY DEF Init, OneDealUnlessRekeyed
<1>. QED
  BY <1>2, <1>3, SafeInit DEF Single

(***************************************************************************)
(* What a handler's step does to its own progress, as far as runs go.      *)
(***************************************************************************)
LEMMA RunStep ==
    ASSUME Safe, NEW p \in Procs, ~underwriteLoan(p),
           \/ Run(p) \/ postDocument(p) \/ Ingest(p)
           \/ applyRevisionDelta(p) \/ insertEdit(p) \/ Throw(p)
    PROVE  /\ \A q \in Procs : q # p => h'[q] = h[q]
           /\ h'[p].op = "run" => h[p].op = "run"
           /\ OpensDeal(p)' => OpensDeal(p) /\ h'[p].name = h[p].name
           /\ OpensDeal(p)' /\ h'[p].at \in {"ingest", "context", "keep", "promote"} =>
                \/ h[p].at \in {"ingest", "context", "keep"}
                \/ findDeal(p) /\ lookupAnalysisByDealRef = {}
<1>0. h \in [Procs -> Handler] /\ h[p] \in Handler /\ Relies(p)
  BY DEF Safe, TypeOK
<1>1. \A q \in Procs : q # p => h'[q] = h[q]
  BY <1>0 DEF Run, Ingest, underwriteLoan, findDeal, saveGathered, appendGathered, postDocument,
         AppendTo, ingestExtractionResult, insertRevisionEvaluationContext, updateAnalysis,
         saveAppended, saveAtRoot, promoteFromGraph, applyRevisionDelta, insertEdit, Throw
<1> DEFINE Goal == /\ h'[p].op = "run" => h[p].op = "run"
                   /\ OpensDeal(p)' => OpensDeal(p) /\ h'[p].name = h[p].name
                   /\ OpensDeal(p)' /\ h'[p].at \in {"ingest", "context", "keep", "promote"} =>
                        \/ h[p].at \in {"ingest", "context", "keep"}
                        \/ findDeal(p) /\ lookupAnalysisByDealRef = {}
<1>2. CASE h' = [h EXCEPT ![p] = Idle]
  <2>1. h'[p] = Idle
    BY <1>0, <1>2
  <2>2. h'[p].op = "none"
    BY <2>1 DEF Idle
  <2>. QED
    BY <1>1, <2>2 DEF OpensDeal
<1>3. CASE findDeal(p)
  <2>1. CASE \E a \in lookupAnalysisByDealRef :
               h' = [h EXCEPT ![p].at = "save", ![p].deal = a,
                              ![p].new = h[p].todo[Len(h[p].todo)]]
    <3>1. PICK a \in lookupAnalysisByDealRef :
               h' = [h EXCEPT ![p].at = "save", ![p].deal = a,
                              ![p].new = h[p].todo[Len(h[p].todo)]]
      BY <2>1
    <3>2. a # 0
      BY DealRow DEF lookupAnalysisByDealRef, bridged, namesakes, Safe
    <3>3. h'[p].op = h[p].op /\ h'[p].deal = a
      BY <1>0, <3>1 DEF Handler
    <3>. QED
      BY <1>1, <3>2, <3>3 DEF OpensDeal
  <2>2. CASE lookupAnalysisByDealRef = {}
             /\ h' = [h EXCEPT ![p].at = "ingest", ![p].set = DocsOf(h[p].todo)]
    <3>1. h'[p].op = h[p].op /\ h'[p].deal = h[p].deal /\ h'[p].name = h[p].name
      BY <1>0, <2>2 DEF Handler
    <3>. QED
      BY <1>1, <1>3, <2>2, <3>1 DEF OpensDeal
  <2>. QED
    BY <1>2, <1>3, <2>1, <2>2 DEF findDeal
<1>4. CASE saveGathered(p)
  <2>1. h[p].deal \in DOMAIN deals
    BY <1>0, <1>4 DEF saveGathered, At, Relies, Begins, OnDeal
  <2>2. h'[p].op = h[p].op /\ h'[p].deal = h[p].deal
    BY <1>0, <1>4 DEF saveGathered, Handler
  <2>. QED
    BY <1>1, <2>1, <2>2, DealRow DEF OpensDeal, Safe
<1>5. CASE \E op \in {"run", "append"}, a \in DOMAIN deals, d \in Docs :
             AppendTo(p, op, a, d) /\ (op = "run" => h[p].op = "run")
  <2>1. PICK op \in {"run", "append"}, a \in DOMAIN deals, d \in Docs :
          AppendTo(p, op, a, d) /\ (op = "run" => h[p].op = "run")
    BY <1>5
  <2>2. h'[p].op = op /\ h'[p].deal = a
    BY <1>0, <2>1 DEF AppendTo, Idle
  <2>3. a # 0
    BY DealRow DEF Safe
  <2>. QED
    BY <1>1, <2>1, <2>2, <2>3 DEF OpensDeal
<1>6. CASE ingestExtractionResult(p) \/ insertRevisionEvaluationContext(p) \/ saveAtRoot(p)
           \/ updateAnalysis(p)
  <2>1. /\ h'[p].op = h[p].op /\ h'[p].deal = h[p].deal /\ h'[p].name = h[p].name
        /\ h[p].at \in {"ingest", "context", "keep"} \/ h'[p].at = "persist"
    BY <1>0, <1>6 DEF ingestExtractionResult, insertRevisionEvaluationContext, saveAtRoot,
         updateAnalysis, At, Handler
  <2>. QED
    BY <1>1, <2>1 DEF OpensDeal
<1>7. CASE applyRevisionDelta(p)
  <2>1. h'[p].op = "edit"
    BY <1>0, <1>7 DEF applyRevisionDelta, Idle
  <2>. QED
    BY <1>1, <2>1 DEF OpensDeal
<1>8. CASE appendGathered(p)
  <2>1. AppendTo(p, "run", h[p].deal, h[p].new)
    BY <1>8 DEF appendGathered
  <2>2. h[p].deal \in DOMAIN deals /\ h[p].new \in Docs
    BY <1>0, <1>8 DEF appendGathered, At, Relies, Begins, OnDeal
  <2>3. h'[p].deal = h[p].deal
    BY <1>0, <2>1 DEF AppendTo, Idle
  <2>4. h'[p].deal # 0
    BY <2>2, <2>3, DealRow DEF Safe
  <2>5. h[p].op = "run"
    BY <1>0, <1>8 DEF appendGathered, At, Relies, Begins
  <2>. QED
    BY <1>1, <2>4, <2>5 DEF OpensDeal
<1>9. CASE postDocument(p)
  BY <1>5, <1>9, DataAssumption DEF postDocument
<1>10. CASE saveAppended(p) \/ promoteFromGraph(p) \/ insertEdit(p) \/ Throw(p)
  BY <1>2, <1>10 DEF saveAppended, promoteFromGraph, insertEdit, Throw
<1>. QED
  BY <1>3, <1>4, <1>6, <1>7, <1>8, <1>9, <1>10 DEF Run, Ingest

LEMMA OneRunStep ==
    ASSUME Safe, OneRun, [Next]_vars
    PROVE  OneRun'
<1>1. CASE UNCHANGED h
  BY <1>1 DEF OneRun
<1>2. ASSUME NEW p \in Procs, underwriteLoan(p) PROVE OneRun'
  <2>1. \A q \in Procs : q # p => h'[q] = h[q]
    BY <1>2 DEF underwriteLoan, Safe, TypeOK
  <2>2. \A q \in Procs : h[q].op # "run"
    BY <1>2 DEF underwriteLoan
  <2>. QED
    BY <2>1, <2>2 DEF OneRun
<1>3. ASSUME NEW p \in Procs, ~underwriteLoan(p),
             \/ Run(p) \/ postDocument(p) \/ Ingest(p)
             \/ applyRevisionDelta(p) \/ insertEdit(p) \/ Throw(p)
      PROVE  OneRun'
  <2>1. \A q \in Procs : h'[q].op = "run" => h[q].op = "run"
    BY <1>3, RunStep
  <2>. QED
    BY <2>1 DEF OneRun
<1>4. CASE Restart
  <2>1. \A q \in Procs : h'[q].op = "none"
    BY <1>4 DEF Restart, Idle
  <2>. QED
    BY <2>1 DEF OneRun
<1>. QED
  BY <1>1, <1>2, <1>3, <1>4 DEF Next, FileDoc, Rekey, vars

LEMMA RekeysStay ==
    ASSUME Safe, [Next]_vars, rekeys' = 0
    PROVE  rekeys = 0 /\ ref' = ref
<1>0. rekeys \in Nat
  BY DEF Safe, TypeOK
<1>1. CASE \E r \in Refs : Rekey(r)
  BY <1>0, <1>1 DEF Rekey
<1>2. CASE UNCHANGED <<ref, rekeys>>
  BY <1>2
<1>. QED
  BY <1>1, <1>2
     DEF Next, Run, Ingest, FileDoc, underwriteLoan, findDeal, saveGathered, appendGathered,
         postDocument, ingestExtractionResult, insertRevisionEvaluationContext, updateAnalysis,
         saveAppended, saveAtRoot, promoteFromGraph, applyRevisionDelta, insertEdit, Throw,
         Restart, env, vars

LEMMA NamedStep ==
    ASSUME Single, [Next]_vars
    PROVE  Named'
<1> SUFFICES ASSUME rekeys' = 0, FoundByName(ref')
             PROVE  /\ \A a \in DOMAIN deals' : deals'[a].name = ref'
                    /\ \A p \in Procs : h'[p].op = "run" /\ h'[p].deal = 0 => h'[p].name = ref'
                    /\ \A p \in Procs :
                         h'[p].at \in {"ingest", "context", "keep", "promote"} /\ OpensDeal(p)' =>
                           deals' = <<>>
  BY DEF Named, OpensDeal, FoundByName
<1>0. Safe /\ OneRun /\ TypeOK /\ rekeys \in Nat /\ h \in [Procs -> Handler]
  BY DEF Single, Safe, TypeOK
<1>1. rekeys = 0 /\ ref' = ref /\ FoundByName(ref)
  BY <1>0, RekeysStay
<1>2. /\ \A a \in DOMAIN deals : deals[a].name = ref
      /\ \A p \in Procs : OpensDeal(p) => h[p].name = ref
      /\ \A p \in Procs :
           h[p].at \in {"ingest", "context", "keep", "promote"} /\ OpensDeal(p) => deals = <<>>
  BY <1>1 DEF Single, Named, OpensDeal
<1>3. CASE UNCHANGED <<h, deals>>
  BY <1>1, <1>2, <1>3 DEF OpensDeal
<1>4. CASE Restart
  <2>1. \A q \in Procs : h'[q].op = "none"
    BY <1>4 DEF Restart, Idle
  <2>. QED
    BY <1>1, <1>2, <1>4, <2>1 DEF Restart, store, OpensDeal
<1>5. ASSUME NEW p \in Procs, underwriteLoan(p)
      PROVE  /\ \A a \in DOMAIN deals' : deals'[a].name = ref'
             /\ \A q \in Procs : h'[q].op = "run" /\ h'[q].deal = 0 => h'[q].name = ref'
             /\ \A q \in Procs :
                  h'[q].at \in {"ingest", "context", "keep", "promote"} /\ OpensDeal(q)' =>
                    deals' = <<>>
  <2>1. h'[p].name = ref /\ h'[p].at = "find"
    BY <1>0, <1>5 DEF underwriteLoan, Idle
  <2>2. \A q \in Procs : q # p => h'[q] = h[q]
    BY <1>0, <1>5 DEF underwriteLoan
  <2>3. deals' = deals
    BY <1>5 DEF underwriteLoan, store
  <2>. QED
    BY <1>1, <1>2, <2>1, <2>2, <2>3 DEF OpensDeal
<1>6. ASSUME NEW p \in Procs, ~underwriteLoan(p),
             \/ Run(p) \/ postDocument(p) \/ Ingest(p)
             \/ applyRevisionDelta(p) \/ insertEdit(p) \/ Throw(p)
      PROVE  /\ \A a \in DOMAIN deals' : deals'[a].name = ref'
             /\ \A q \in Procs : h'[q].op = "run" /\ h'[q].deal = 0 => h'[q].name = ref'
             /\ \A q \in Procs :
                  h'[q].at \in {"ingest", "context", "keep", "promote"} /\ OpensDeal(q)' =>
                    deals' = <<>>
  <2>1. /\ \A q \in Procs : q # p => h'[q] = h[q]
        /\ h'[p].op = "run" => h[p].op = "run"
        /\ OpensDeal(p)' => OpensDeal(p) /\ h'[p].name = h[p].name
        /\ OpensDeal(p)' /\ h'[p].at \in {"ingest", "context", "keep", "promote"} =>
             \/ h[p].at \in {"ingest", "context", "keep"}
             \/ findDeal(p) /\ lookupAnalysisByDealRef = {}
    BY <1>0, <1>6, RunStep
  <2>2. \A q \in Procs : OpensDeal(q)' => OpensDeal(q) /\ h'[q].name = ref'
    BY <1>1, <1>2, <2>1 DEF OpensDeal
  <2>3. CASE deals' = deals
    <3>1. \A q \in Procs :
            h'[q].at \in {"ingest", "context", "keep", "promote"} /\ OpensDeal(q)' => deals = <<>>
      <4> SUFFICES ASSUME NEW q \in Procs, OpensDeal(q)',
                          h'[q].at \in {"ingest", "context", "keep", "promote"}
                   PROVE  deals = <<>>
        OBVIOUS
      <4>1. CASE h[q].at \in {"ingest", "context", "keep", "promote"}
        BY <1>2, <2>2, <4>1
      <4>2. CASE q = p /\ lookupAnalysisByDealRef = {}
        <5>1. namesakes = {}
          BY <4>2 DEF lookupAnalysisByDealRef
        <5>2. DOMAIN deals = {}
          BY <1>1, <1>2, <5>1 DEF namesakes, FoundByName
        <5>. QED
          BY <1>0, <5>2, LenProperties, EmptySeq DEF TypeOK
      <4>. QED
        BY <2>1, <4>1, <4>2
    <3>. QED
      BY <1>1, <1>2, <2>2, <2>3, <3>1 DEF OpensDeal
  <2>4. CASE updateAnalysis(p)
    <3>1. /\ DOMAIN deals' = DOMAIN deals
          /\ \A a \in DOMAIN deals : deals'[a].name = deals[a].name
      <4>1. \A a \in DOMAIN deals : deals[a] \in Deal
        BY <1>0, DealRow
      <4>. QED
        BY <2>4, <4>1 DEF updateAnalysis, Deal
    <3>2. \A q \in Procs :
            h'[q].at \in {"ingest", "context", "keep", "promote"} /\ OpensDeal(q)' => deals' = <<>>
      <4> SUFFICES ASSUME NEW q \in Procs, OpensDeal(q)',
                          h'[q].at \in {"ingest", "context", "keep", "promote"}
                   PROVE  FALSE
        OBVIOUS
      <4>1. h[p].deal \in DOMAIN deals
        BY <1>0, <2>4 DEF updateAnalysis, At, Safe, Relies, Ingests, OnLineage, OnDeal
      <4>2. q # p
        BY <1>0, <2>4 DEF updateAnalysis, Handler
      <4>3. deals = <<>>
        BY <1>2, <2>1, <2>2, <4>2
      <4>. QED
        BY <4>1, <4>3
    <3>. QED
      BY <1>1, <1>2, <2>2, <3>1, <3>2 DEF OpensDeal
  <2>5. CASE promoteFromGraph(p)
    <3>1. OpensDeal(p) /\ h[p].at = "promote"
      BY <1>0, <2>5 DEF promoteFromGraph, At, Safe, Relies, Finishes
    <3>2. deals = <<>> /\ h[p].name = ref
      BY <1>2, <3>1
    <3>3. deals' = <<[name |-> h[p].name, head |-> h[p].rev]>>
      BY <2>5, <3>2 DEF promoteFromGraph
    <3>4. \A a \in DOMAIN deals' : deals'[a].name = ref'
      BY <1>1, <3>2, <3>3
    <3>5. \A q \in Procs : ~OpensDeal(q)'
      <4> SUFFICES ASSUME NEW q \in Procs, OpensDeal(q)' PROVE FALSE
        OBVIOUS
      <4>1. q = p
        BY <1>0, <2>2, <3>1 DEF OpensDeal, OneRun
      <4>2. h'[p].op = "none"
        BY <1>0, <2>5 DEF promoteFromGraph, Idle
      <4>. QED
        BY <4>1, <4>2 DEF OpensDeal
    <3>. QED
      BY <3>4, <3>5 DEF OpensDeal
  <2>. QED
    BY <1>6, <2>3, <2>4, <2>5
       DEF Run, Ingest, findDeal, saveGathered, appendGathered, postDocument,
           ingestExtractionResult, insertRevisionEvaluationContext, saveAppended, saveAtRoot,
           applyRevisionDelta, insertEdit, Throw, store
<1>7. CASE (\E d \in Filed : FileDoc(d)) \/ (\E r \in Refs : Rekey(r)) \/ UNCHANGED vars
  BY <1>3, <1>7 DEF FileDoc, Rekey, vars, store
<1>. QED
  BY <1>4, <1>5, <1>6, <1>7 DEF Next

LEMMA OneDealStep ==
    ASSUME Single, [Next]_vars, rekeys' = 0, FoundByName(ref')
    PROVE  Len(deals') <= 1
<1>1. rekeys = 0 /\ FoundByName(ref)
  BY RekeysStay DEF Single
<1>2. Len(deals) <= 1 /\ deals \in Seq(Deal)
  BY <1>1 DEF Single, OneDealUnlessRekeyed, Safe, TypeOK
<1>3. CASE UNCHANGED deals
  BY <1>2, <1>3
<1>4. ASSUME NEW p \in Procs, updateAnalysis(p) PROVE Len(deals') <= 1
  <2>1. Sound'
    BY StoreStep DEF Single
  <2>2. DOMAIN deals' = DOMAIN deals
    BY <1>4 DEF updateAnalysis
  <2>3. Len(deals') = Len(deals)
    BY <1>2, <2>1, <2>2, LenProperties DEF Sound, StoreTyped
  <2>. QED
    BY <1>2, <2>3
<1>5. ASSUME NEW p \in Procs, promoteFromGraph(p) PROVE Len(deals') <= 1
  <2>1. OpensDeal(p) /\ h[p].at = "promote"
    BY <1>5 DEF promoteFromGraph, At, Single, Safe, Relies, Finishes
  <2>2. deals = <<>>
    BY <1>1, <2>1 DEF Single, Named
  <2>3. deals' = <<[name |-> h[p].name, head |-> h[p].rev]>>
    BY <1>5, <2>2 DEF promoteFromGraph
  <2>. QED
    BY <2>3
<1>. QED
  BY <1>3, <1>4, <1>5
     DEF Next, Run, Ingest, FileDoc, Rekey, underwriteLoan, findDeal, saveGathered, appendGathered,
         postDocument, ingestExtractionResult, insertRevisionEvaluationContext, saveAppended,
         saveAtRoot, applyRevisionDelta, insertEdit, Throw, Restart, store, vars

LEMMA SingleAlways == Spec => []Single
<1>1. Single /\ [Next]_vars => Single'
  <2> SUFFICES ASSUME Single, [Next]_vars PROVE Single'
    OBVIOUS
  <2>1. Safe'
    BY SafeStep DEF Single
  <2>2. OneRun'
    BY OneRunStep DEF Single
  <2>. QED
    BY <2>1, <2>2, NamedStep, OneDealStep
       DEF Single, OneDealUnlessRekeyed, FoundByName
<1>. QED
  BY <1>1, SingleInit, PTL DEF Spec

(***************************************************************************)
(* A loan that is found by its name and that no tape has re-keyed has one  *)
(* deal at most, for any number of runs, deaths and builds.                *)
(***************************************************************************)
THEOREM OneDealPerReference == Spec => []OneDealUnlessRekeyed
<1>1. Single => OneDealUnlessRekeyed
  BY DEF Single
<1>. QED
  BY <1>1, SingleAlways, PTL

-----------------------------------------------------------------------------
(***************************************************************************)
(* Without deaths and failed writes, the documents of a head stay covered: *)
(* on file, or in the hands of an append that has moved a head.            *)
(***************************************************************************)
LEMMA NoUpsets ==
    ASSUME Safe, [Next]_vars, crashes' = 0, faults' = 0
    PROVE  /\ crashes = 0 /\ faults = 0 /\ ~Restart
           /\ \A root, d : SaveOrMiss(root, d) => saveDealSourceDoc(root, d)
<1>0. crashes \in Nat /\ faults \in Nat
  BY DEF Safe, TypeOK
<1>1. ~Restart
  BY <1>0 DEF Restart
<1>2. crashes = 0
  BY <1>1 DEF Next, Run, Ingest, FileDoc, Rekey, underwriteLoan, findDeal, saveGathered,
         appendGathered, postDocument, ingestExtractionResult, insertRevisionEvaluationContext,
         updateAnalysis, saveAppended, saveAtRoot, promoteFromGraph, applyRevisionDelta, insertEdit,
         Throw, env, vars
<1>3. ASSUME NEW root, NEW d, SaveOrMiss(root, d)
      PROVE  faults = 0 /\ saveDealSourceDoc(root, d)
  BY <1>0, <1>3 DEF SaveOrMiss
<1>4. faults = 0
  <2>1. CASE UNCHANGED faults
    BY <2>1
  <2>2. ASSUME NEW p \in Procs, saveAppended(p) \/ saveAtRoot(p) PROVE faults = 0
    BY <1>3, <2>2 DEF saveAppended, saveAtRoot
  <2>. QED
    BY <1>1, <2>1, <2>2 DEF Next, Run, Ingest, FileDoc, Rekey, underwriteLoan, findDeal,
         saveGathered, appendGathered, postDocument, ingestExtractionResult,
         insertRevisionEvaluationContext, updateAnalysis, promoteFromGraph, applyRevisionDelta,
         insertEdit, Throw, env, vars
<1>. QED
  BY <1>1, <1>2, <1>3, <1>4

LEMMA SavedAppended ==
    ASSUME Safe, [Next]_vars, crashes' = 0, faults' = 0, NEW p \in Procs, saveAppended(p),
           NEW root, root = lineageRootId(h[p].rev), NEW d, d = h[p].new
    PROVE  d \in DocsOf(getDealSourceDocs(root))'
<1>1. h[p].rev \in revs /\ d \in Docs
  BY DEF saveAppended, At, Safe, Relies, Finishes, TypeOK
<1>2. root \in Roots
  BY <1>1, RootRevision DEF Roots, Safe, Chained, TypeOK
<1>3. saveDealSourceDoc(root, d)
  BY NoUpsets DEF saveAppended
<1>. QED
  BY <1>1, <1>2, <1>3, KeptDocs DEF Safe

LEMMA CoverStays ==
    ASSUME Safe, [Next]_vars, crashes' = 0, faults' = 0, NEW root
    PROVE  Cover(root) \subseteq Cover(root)'
<1>1. DocsOf(getDealSourceDocs(root)) \subseteq DocsOf(getDealSourceDocs(root))'
  BY StoreStep DEF Grows, DocsStay
<1>2. ASSUME NEW q \in Procs, h[q].at = "persist", lineageRootId(h[q].rev) = root
      PROVE  h[q].new \in Cover(root)'
  <2>1. CASE h'[q] = h[q]
    BY <1>2, <2>1 DEF Cover, Unkept
  <2>2. CASE saveAppended(q)
    BY <1>2, <2>2, SavedAppended DEF Cover, Unkept
  <2>3. ASSUME NEW p \in Procs,
               \/ Run(p) \/ postDocument(p) \/ Ingest(p)
               \/ applyRevisionDelta(p) \/ insertEdit(p) \/ Throw(p)
        PROVE  h'[q] = h[q] \/ saveAppended(q)
    <3>1. CASE p # q
      BY <2>3, <3>1, OthersStay
    <3>2. CASE p = q
      BY <1>2, <2>3, <3>2
         DEF Run, Ingest, underwriteLoan, findDeal, saveGathered, appendGathered, postDocument,
             ingestExtractionResult, insertRevisionEvaluationContext, updateAnalysis,
             saveAtRoot, promoteFromGraph, applyRevisionDelta, insertEdit, Throw, At
    <3>. QED
      BY <3>1, <3>2
  <2>4. h'[q] = h[q] \/ saveAppended(q)
    BY <2>3, NoUpsets DEF Next, FileDoc, Rekey, vars
  <2>. QED
    BY <2>1, <2>2, <2>4
<1>. QED
  BY <1>1, <1>2 DEF Cover, Unkept

LEMMA KeptIsCover ==
    ASSUME NEW root
    PROVE  DocsOf(getDealSourceDocs(root)) \subseteq Cover(root)
BY DEF Cover, Unkept

LEMMA CoveredStays ==
    ASSUME Safe, [Next]_vars, AllCovered, crashes' = 0, faults' = 0, NEW q \in Procs, h'[q] = h[q]
    PROVE  Covered(q)'
<1>1. Covered(q) /\ Relies(q)
  BY NoUpsets DEF AllCovered, Safe
<1>2. RevisionsStay
  BY StoreStep DEF Grows
<1> DEFINE r == h[q].rev
<1>3. h[q].at \in {"ingest", "context", "head", "keep", "promote"} /\ (h[q].deal = 0 => h[q].at # "ingest")
        => r \in revs
  BY <1>1 DEF Relies, Ingests, Finishes, OnLineage, OpensDeal, Roots
<1>4. PICK rr : rr = h[q].rev
  OBVIOUS
<1>5. Cover(lineageRootId(rr)) \subseteq Cover(lineageRootId(rr))'
  BY CoverStays
<1>6. r \in revs => source'[rr] = source[rr]
  BY <1>2, <1>4 DEF RevisionsStay
<1>. QED
  BY <1>1, <1>3, <1>4, <1>5, <1>6 DEF Covered, Reads, DocsOf

LEMMA DeltaAt ==
    ASSUME TypeOK, NEW p \in Procs, applyRevisionDelta(p)
    PROVE  h'[p].at = "evaluate"
BY DEF applyRevisionDelta, Idle, TypeOK

LEMMA CoveredOwn ==
    ASSUME Safe, Safe', [Next]_vars, AllCovered, crashes' = 0, faults' = 0, NEW p \in Procs,
           \/ Run(p) \/ postDocument(p) \/ Ingest(p)
           \/ applyRevisionDelta(p) \/ insertEdit(p) \/ Throw(p)
    PROVE  Covered(p)'
<1>0. /\ TypeOK /\ h[p] \in Handler /\ Relies(p) /\ h \in [Procs -> Handler]
      /\ Covered(p) /\ RevisionsStay
      /\ \A a \in DOMAIN deals : Reads(deals[a].head) \subseteq Cover(lineageRootId(deals[a].head))
  BY NoUpsets, StoreStep DEF Safe, TypeOK, AllCovered, Grows
<1>1. ASSUME h'[p].at \notin {"ingest", "context", "head", "keep", "promote"}
      PROVE  Covered(p)'
  BY <1>1 DEF Covered
<1>2. ASSUME h'[p].at = "ingest", h'[p].deal = 0
      PROVE  Covered(p)'
  BY <1>2 DEF Covered
<1>3. CASE h' = [h EXCEPT ![p] = Idle]
  BY <1>0, <1>1, <1>3 DEF Idle
<1>4. CASE underwriteLoan(p)
  BY <1>0, <1>1, <1>4 DEF underwriteLoan, Idle
<1>5. CASE findDeal(p)
  <2>1. h[p].deal = 0
    BY <1>0, <1>5 DEF findDeal, At, Relies, Begins
  <2>2. CASE h' = [h EXCEPT ![p].at = "ingest", ![p].set = DocsOf(h[p].todo)]
    BY <1>0, <1>2, <2>1, <2>2 DEF Handler
  <2>3. CASE \E a \in lookupAnalysisByDealRef :
               h' = [h EXCEPT ![p].at = "save", ![p].deal = a,
                              ![p].new = h[p].todo[Len(h[p].todo)]]
    BY <1>0, <1>1, <2>3 DEF Handler
  <2>. QED
    BY <1>3, <1>5, <2>2, <2>3 DEF findDeal
<1>6. CASE saveGathered(p)
  BY <1>0, <1>1, <1>6 DEF saveGathered, Handler
<1>7. ASSUME NEW op \in {"run", "append"}, NEW a \in DOMAIN deals, NEW d \in Docs,
             AppendTo(p, op, a, d), UNCHANGED store
      PROVE  Covered(p)'
  <2>1. PICK head : head = deals[a].head
    OBVIOUS
  <2>2. PICK root : root = lineageRootId(head)
    OBVIOUS
  <2> DEFINE set == LastOfSlots(Append(getDealSourceDocs(root), d))
  <2>3. set \ {d} \subseteq DocsOf(getDealSourceDocs(root))
    BY <1>0, KeptTyped, ComposedSet
  <2>4. Reads(head) \cup (set \ {d}) \subseteq Cover(root)
    BY <1>0, <2>1, <2>2, <2>3, KeptIsCover
  <2>5. Cover(root) \subseteq Cover(root)'
    BY CoverStays
  <2>7. h'[p].at = "ingest" /\ h'[p].rev = head /\ h'[p].new = d /\ h'[p].set = set
    BY <1>0, <1>7, <2>1, <2>2, BegunAppend
  <2> HIDE DEF set
  <2>. QED
    BY <1>7, <2>2, <2>4, <2>5, <2>7 DEF Covered, Reads, store
<1>8. CASE appendGathered(p)
  <2>1. h[p].deal \in DOMAIN deals /\ h[p].new \in Docs
    BY <1>0, <1>8 DEF appendGathered, At, Relies, Begins, OnDeal
  <2>. QED
    BY <1>7, <1>8, <2>1 DEF appendGathered
<1>9. CASE postDocument(p)
  BY <1>7, <1>9, DataAssumption DEF postDocument
<1>10. CASE ingestExtractionResult(p)
  <2>1. PICK u \in Units :
          LET x == Composed(h[p], u)
              r == computeRevisionId(h[p].rev, applyJudgmentAdjustments(x))
          IN /\ insertRevisionLineageEnvelope(r, x)
             /\ h' = [h EXCEPT ![p].at = "context", ![p].rev = r]
    BY <1>10 DEF ingestExtractionResult
  <2>2. h[p].at = "ingest"
    BY <1>10 DEF ingestExtractionResult, At
  <2>3. PICK x : x = Composed(h[p], u)
    OBVIOUS
  <2>4. PICK r : r = computeRevisionId(h[p].rev, applyJudgmentAdjustments(x))
    OBVIOUS
  <2>5. /\ r[Len(r)].docs = x.docs
        /\ h[p].rev # NoRev => lineageRootId(r) = lineageRootId(h[p].rev)
    BY <1>0, <2>2, <2>3, <2>4, ChildOfComposed
  <2>6. /\ OpensDeal(p) /\ h[p].rev = NoRev => x.docs = h[p].set
        /\ OnLineage(p) => x.docs \in {source[h[p].rev].docs, h[p].set}
    BY <1>0, <2>2, <2>3, ComposedExtraction
  <2>7. r \in revs' /\ h' = [h EXCEPT ![p].at = "context", ![p].rev = r]
    BY <2>1, <2>3, <2>4 DEF insertRevisionLineageEnvelope
  <2>8. source'[r].docs = x.docs
    BY <2>5, <2>7 DEF Safe, Chained
  <2>9. /\ h'[p].at = "context" /\ h'[p].rev = r /\ h'[p].deal = h[p].deal
        /\ h'[p].todo = h[p].todo /\ h'[p].new = h[p].new
    BY <1>0, <2>7 DEF Handler
  <2>10. Cover(lineageRootId(r)) \subseteq Cover(lineageRootId(r))'
    BY CoverStays
  <2>11. CASE OpensDeal(p) /\ h[p].rev = NoRev /\ h[p].set = DocsOf(h[p].todo)
    <3>1. source'[r].docs = DocsOf(h[p].todo)
      BY <2>6, <2>8, <2>11
    <3>. QED
      BY <2>9, <2>11, <3>1 DEF Covered, Reads, OpensDeal, DocsOf
  <2>12. CASE OnLineage(p)
    <3>1. h[p].rev # NoRev /\ h[p].deal # 0
      BY <1>0, <2>12, DealRow DEF OnLineage, OnDeal, TypeOK, Revisions, NoRev
    <3>2. source[h[p].rev].docs \cup (h[p].set \ {h[p].new}) \subseteq Cover(lineageRootId(r))
      BY <1>0, <2>2, <2>5, <3>1 DEF Covered, Reads
    <3>3. x.docs \ {h[p].new} \subseteq Cover(lineageRootId(r))
      BY <2>6, <2>12, <3>2
    <3>4. source'[r].docs \ {h[p].new} \subseteq Cover(lineageRootId(r))'
      BY <2>8, <2>10, <3>3
    <3>. QED
      BY <2>9, <3>1, <3>4 DEF Covered, Reads
  <2>. QED
    BY <1>0, <2>2, <2>11, <2>12 DEF Relies, Ingests
<1>11. CASE insertRevisionEvaluationContext(p)
  <2>1. PICK r : r = h[p].rev
    OBVIOUS
  <2>2. /\ h[p].at = "context" /\ h'[p].rev = r /\ h'[p].deal = h[p].deal
        /\ h'[p].todo = h[p].todo /\ h'[p].new = h[p].new
        /\ h'[p].at = IF h[p].deal = 0 THEN "keep" ELSE "head"
        /\ source' = source
    BY <1>0, <1>11, <2>1 DEF insertRevisionEvaluationContext, Handler
  <2>3. Cover(lineageRootId(r)) \subseteq Cover(lineageRootId(r))'
    BY CoverStays
  <2>4. /\ h[p].deal # 0 => Reads(r) \ {h[p].new} \subseteq Cover(lineageRootId(r))
        /\ h[p].deal = 0 => Reads(r) \subseteq Cover(lineageRootId(r)) \cup DocsOf(h[p].todo)
    BY <1>0, <2>1, <2>2 DEF Covered
  <2>5. source'[r].docs = Reads(r)
    BY <2>2 DEF Reads
  <2>6. CASE h[p].deal = 0
    <3>1. source'[r].docs \subseteq Cover(lineageRootId(r))' \cup DocsOf(h[p].todo)
      BY <2>3, <2>4, <2>5, <2>6
    <3>. QED
      BY <2>2, <2>6, <3>1 DEF Covered, Reads, DocsOf
  <2>7. CASE h[p].deal # 0
    <3>1. source'[r].docs \ {h[p].new} \subseteq Cover(lineageRootId(r))'
      BY <2>3, <2>4, <2>5, <2>7
    <3>. QED
      BY <2>2, <2>7, <3>1 DEF Covered, Reads
  <2>. QED
    BY <2>6, <2>7
<1>12. CASE updateAnalysis(p)
  BY <1>0, <1>1, <1>12 DEF updateAnalysis, Handler
<1>13. CASE saveAtRoot(p)
  <2>1. PICK r \in Roots : r = h[p].rev
    BY <1>0, <1>13 DEF saveAtRoot, At, Relies, Finishes
  <2>2. PICK s \in Seq(Docs) : s = h[p].todo /\ Len(s) > 0
    BY <1>0, <1>13 DEF saveAtRoot, At, Relies, Finishes, Handler
  <2>3. /\ h[p].at = "keep" /\ h[p].deal = 0
        /\ h'[p].rev = r /\ h'[p].deal = 0 /\ h'[p].todo = Tail(s)
        /\ h'[p].at = IF Len(s) = 1 THEN "promote" ELSE "keep"
        /\ source' = source
    BY <1>0, <1>13, <2>1, <2>2 DEF saveAtRoot, At, Handler, Relies, Finishes, OpensDeal
  <2>4. lineageRootId(r) = r
    BY <2>1, RootRevision DEF Roots, Safe, TypeOK
  <2>5. Head(s) \in Docs /\ DocsOf(s) = {Head(s)} \cup DocsOf(Tail(s))
        /\ (Len(s) = 1 => Tail(s) = <<>>)
    BY <2>2, TailShorter
  <2>6. saveDealSourceDoc(r, Head(s))
    BY <1>13, <2>1, <2>2, <2>4, NoUpsets DEF saveAtRoot
  <2>7. PICK d \in Docs : d = Head(s)
    BY <2>5
  <2>8. d \in DocsOf(getDealSourceDocs(r))'
    BY <2>1, <2>6, <2>7, KeptDocs DEF Safe
  <2>9. d \in Cover(r)'
    BY <2>8 DEF Cover, Unkept
  <2>10. Cover(r) \subseteq Cover(r)'
    BY CoverStays
  <2>11. source[r].docs \subseteq Cover(r) \cup DocsOf(s)
    BY <1>0, <2>1, <2>2, <2>3, <2>4 DEF Covered, Reads
  <2>12. source'[r].docs \subseteq Cover(r)' \cup DocsOf(Tail(s))
    BY <2>3, <2>5, <2>7, <2>9, <2>10, <2>11
  <2>. QED
    BY <2>3, <2>4, <2>5, <2>12 DEF Covered, Reads, DocsOf
<1>14. CASE applyRevisionDelta(p)
  BY <1>0, <1>1, <1>14, DeltaAt
<1>15. CASE saveAppended(p) \/ promoteFromGraph(p) \/ insertEdit(p) \/ Throw(p)
  BY <1>3, <1>15 DEF saveAppended, promoteFromGraph, insertEdit, Throw
<1>. QED
  BY <1>4, <1>5, <1>6, <1>8, <1>9, <1>10, <1>11, <1>12, <1>13, <1>14, <1>15 DEF Run, Ingest

LEMMA HeadsCovered ==
    ASSUME Safe, Safe', [Next]_vars, AllCovered, crashes' = 0, faults' = 0, NEW a \in DOMAIN deals'
    PROVE  (Reads(deals[a].head) \subseteq Cover(lineageRootId(deals[a].head)))'
<1>0. /\ RevisionsStay /\ StoreTyped /\ TypeOK /\ StoreTyped'
      /\ \A b \in DOMAIN deals : Reads(deals[b].head) \subseteq Cover(lineageRootId(deals[b].head))
  BY NoUpsets, StoreStep, Typed DEF Safe, AllCovered, Grows, Sound
<1>1. ASSUME a \in DOMAIN deals, deals'[a].head = deals[a].head
      PROVE  (Reads(deals[a].head) \subseteq Cover(lineageRootId(deals[a].head)))'
  <2>1. PICK r : r = deals[a].head
    OBVIOUS
  <2>2. r \in revs
    BY <1>0, <1>1, <2>1 DEF Safe, HeadsAreAppendable, TypeOK
  <2>3. source'[r] = source[r]
    BY <1>0, <2>2 DEF RevisionsStay
  <2>4. PICK root : root = lineageRootId(r)
    OBVIOUS
  <2>5. Reads(r) \subseteq Cover(root)
    BY <1>0, <1>1, <2>1, <2>4
  <2>6. Cover(root) \subseteq Cover(root)'
    BY CoverStays
  <2>. QED
    BY <1>1, <2>1, <2>3, <2>4, <2>5, <2>6 DEF Reads
<1>2. CASE UNCHANGED deals
  BY <1>1, <1>2
<1>3. ASSUME NEW p \in Procs, updateAnalysis(p)
      PROVE  (Reads(deals[a].head) \subseteq Cover(lineageRootId(deals[a].head)))'
  <2>1. /\ h[p].at = "head" /\ h[p].deal \in DOMAIN deals /\ h[p].deal # 0
        /\ deals' = [deals EXCEPT ![h[p].deal].head = h[p].rev]
        /\ h' = [h EXCEPT ![p].at = "persist"] /\ source' = source
        /\ h \in [Procs -> Handler] /\ deals \in Seq(Deal) /\ h[p].deal \in Nat
    BY <1>0, <1>3, DealRow
       DEF updateAnalysis, At, Safe, Relies, Finishes, OnLineage, OnDeal, TypeOK
  <2>2. PICK r : r = h[p].rev
    OBVIOUS
  <2>3. PICK root : root = lineageRootId(r)
    OBVIOUS
  <2>4. Covered(p)
    BY NoUpsets DEF AllCovered
  <2>5. Reads(r) \ {h[p].new} \subseteq Cover(root)
    BY <2>1, <2>2, <2>3, <2>4 DEF Covered
  <2>6. Cover(root) \subseteq Cover(root)'
    BY CoverStays
  <2>7. h'[p].at = "persist" /\ h'[p].rev = r /\ h'[p].new = h[p].new
    BY <2>1, <2>2
  <2>8. h[p].new \in Cover(root)'
    BY <2>3, <2>7 DEF Cover, Unkept
  <2>9. CASE a = h[p].deal
    <3>1. deals[a] \in Deal
      BY <1>0, <2>1, <2>9, DealRow
    <3>2. deals' = [deals EXCEPT ![a].head = r]
      BY <2>1, <2>2, <2>9
    <3>3. deals'[a] = [deals[a] EXCEPT !.head = r]
      BY <2>1, <2>9, <3>2
    <3>4. deals'[a].head = r
      BY <3>1, <3>3 DEF Deal
    <3>. QED
      BY <2>1, <2>3, <2>5, <2>6, <2>8, <3>4 DEF Reads
  <2>10. CASE a # h[p].deal
    BY <1>1, <2>1, <2>10
  <2>. QED
    BY <2>9, <2>10
<1>4. ASSUME NEW p \in Procs, promoteFromGraph(p)
      PROVE  (Reads(deals[a].head) \subseteq Cover(lineageRootId(deals[a].head)))'
  <2>1. /\ h[p].at = "promote" /\ h[p].deal = 0
        /\ deals' = Append(deals, [name |-> h[p].name, head |-> h[p].rev])
        /\ source' = source /\ deals \in Seq(Deal)
    BY <1>4 DEF promoteFromGraph, At, Safe, Relies, Finishes, OpensDeal, TypeOK
  <2>2. PICK r : r = h[p].rev
    OBVIOUS
  <2>3. PICK root : root = lineageRootId(r)
    OBVIOUS
  <2>4. Reads(r) \subseteq Cover(root)
    BY <2>1, <2>2, <2>3, NoUpsets DEF AllCovered, Covered, DocsOf
  <2>5. Cover(root) \subseteq Cover(root)'
    BY CoverStays
  <2>6. CASE a \in DOMAIN deals
    BY <1>1, <2>1, <2>6
  <2>7. CASE a \notin DOMAIN deals
    <3>1. deals'[a].head = r
      BY <2>1, <2>2, <2>7
    <3>. QED
      BY <2>1, <2>3, <2>4, <2>5, <3>1 DEF Reads
  <2>. QED
    BY <2>6, <2>7
<1>. QED
  BY <1>2, <1>3, <1>4, NoUpsets
     DEF Next, Run, Ingest, FileDoc, Rekey, underwriteLoan, findDeal, saveGathered, appendGathered,
         postDocument, ingestExtractionResult, insertRevisionEvaluationContext, saveAppended,
         saveAtRoot, applyRevisionDelta, insertEdit, Throw, store, vars

LEMMA CoveredStep ==
    ASSUME Safe, Safe', [Next]_vars, AllCovered
    PROVE  AllCovered'
<1> SUFFICES ASSUME crashes' = 0, faults' = 0 PROVE AllCovered'
  BY DEF AllCovered
<1>1. ASSUME NEW q \in Procs PROVE Covered(q)'
  <2>1. CASE h'[q] = h[q]
    BY <2>1, CoveredStays
  <2>2. ASSUME NEW p \in Procs,
               \/ Run(p) \/ postDocument(p) \/ Ingest(p)
               \/ applyRevisionDelta(p) \/ insertEdit(p) \/ Throw(p)
        PROVE  Covered(q)'
    <3>1. CASE p = q
      BY <2>2, <3>1, CoveredOwn
    <3>2. CASE p # q
      BY <2>1, <2>2, <3>2, OthersStay
    <3>. QED
      BY <3>1, <3>2
  <2>. QED
    BY <2>1, <2>2, NoUpsets DEF Next, FileDoc, Rekey, vars
<1>2. ASSUME NEW a \in DOMAIN deals'
      PROVE  (Reads(deals[a].head) \subseteq Cover(lineageRootId(deals[a].head)))'
  BY <1>2, HeadsCovered
<1>. QED
  BY <1>1, <1>2 DEF AllCovered

LEMMA CoveredInit == Init => AllCovered
BY DEF Init, AllCovered, Covered, Idle

(***************************************************************************)
(* Without deaths and failed writes, a head's documents are kept or in the *)
(* hands of the append that moved it, whatever ran in between.             *)
(***************************************************************************)
THEOREM HeadDocsKept == Spec => []HeadDocsAreKept
<1>1. Safe /\ AllCovered => HeadDocsAreKept
  BY DEF AllCovered, HeadDocsAreKept, Cover, Unkept, Reads
<1>2. Init => Safe /\ AllCovered
  BY SafeInit, CoveredInit
<1>3. Safe /\ AllCovered /\ [Next]_vars => (Safe /\ AllCovered)'
  BY SafeStep, CoveredStep
<1>. QED
  BY <1>1, <1>2, <1>3, PTL DEF Spec

-----------------------------------------------------------------------------
(***************************************************************************)
(* An append composes a document of every slot that is on file or new.     *)
(***************************************************************************)
LEMMA LastOfSlotsCovers ==
    ASSUME NEW s \in Seq(Docs), NEW d \in Docs, NEW x \in DocsOf(s)
    PROVE  \E y \in LastOfSlots(Append(s, d)) : SlotOf[y] = SlotOf[x]
<1> DEFINE a == Append(s, d)
<1>1. PICK n \in Nat : /\ n = Len(s) /\ DOMAIN s = 1 .. n
                       /\ DOMAIN a = 1 .. n + 1
                       /\ \A i \in 1 .. n : a[i] = s[i]
  BY AppendProperties, LenProperties
<1>2. PICK i \in 1 .. n : s[i] = x
  BY <1>1 DEF DocsOf
<1> HIDE DEF a
<1> DEFINE Same(k) == k \in 1 .. n + 1 /\ SlotOf[a[k]] = SlotOf[x]
           After == {m \in Nat : Same(n + 1 - m)}
<1>3. n + 1 - i \in After
  <2>1. n + 1 - i \in Nat /\ n + 1 - (n + 1 - i) = i /\ i \in 1 .. n + 1
    BY <1>2
  <2>2. a[i] = x
    BY <1>1, <1>2
  <2>. QED
    BY <2>1, <2>2
<1>4. PICK m \in After : \A l \in After : <<l, m>> \notin OpToRel(<, Nat)
  BY <1>3, NatLessThanWellFounded, WFMin
<1>5. PICK k \in 1 .. n + 1 : k = n + 1 - m /\ m \in Nat /\ SlotOf[a[k]] = SlotOf[x]
  BY <1>4
<1>6. ASSUME NEW j \in 1 .. n + 1, j > k PROVE SlotOf[a[j]] # SlotOf[a[k]]
  <2> SUFFICES ASSUME SlotOf[a[j]] = SlotOf[a[k]] PROVE FALSE
    OBVIOUS
  <2>1. n + 1 - j \in Nat /\ n + 1 - (n + 1 - j) = j /\ n + 1 - j < m
    BY <1>5, <1>6
  <2>2. n + 1 - j \in After
    BY <1>5, <2>1
  <2>. QED
    BY <1>4, <1>5, <2>1, <2>2 DEF OpToRel
<1>7. a[k] \in LastOfSlots(a)
  BY <1>1, <1>5, <1>6 DEF LastOfSlots
<1>. QED
  BY <1>5, <1>7 DEF a

(***************************************************************************)
(* What an append that is not hasty carries over from its parent.          *)
(***************************************************************************)
SlotsOf(set) == {SlotOf[d] : d \in set}

Remembers(p) ==
    h[p].deal # 0 /\ ~h[p].hasty =>
        /\ h[p].at = "ingest" => SlotsRead(h[p].rev) \subseteq SlotsOf(h[p].set)
        /\ h[p].at \in {"context", "head"} =>
             /\ parentRevisionId(h[p].rev) \in revs
             /\ SlotsRead(parentRevisionId(h[p].rev)) \subseteq SlotsRead(h[p].rev)

AllRemember == crashes = 0 /\ faults = 0 => \A p \in Procs : Remembers(p)

LEMMA RemembersStays ==
    ASSUME Safe, [Next]_vars, NEW q \in Procs, Remembers(q), h'[q] = h[q]
    PROVE  Remembers(q)'
<1>1. RevisionsStay /\ Relies(q)
  BY StoreStep DEF Grows, Safe
<1>2. PICK r : r = h[q].rev
  OBVIOUS
<1>3. PICK parent : parent = parentRevisionId(r)
  OBVIOUS
<1>4. h[q].deal # 0 /\ h[q].at \in {"ingest", "context", "head"} => r \in revs
  BY <1>1, <1>2 DEF Relies, Ingests, OnLineage, OpensDeal
<1>5. /\ r \in revs => source'[r] = source[r]
      /\ parent \in revs => parent \in revs' /\ source'[parent] = source[parent]
  BY <1>1 DEF RevisionsStay
<1>6. h'[q].rev = r /\ h[q].rev = r /\ parentRevisionId(h[q].rev) = parent
  BY <1>2, <1>3
<1>. QED
  BY <1>3, <1>4, <1>5, <1>6 DEF Remembers, SlotsRead, SlotsOf

LEMMA RemembersBegun ==
    ASSUME Safe, AllCovered, crashes = 0, faults = 0, NEW p \in Procs,
           NEW op \in {"run", "append"}, NEW a \in DOMAIN deals, NEW d \in Docs,
           AppendTo(p, op, a, d), UNCHANGED store
    PROVE  Remembers(p)'
<1>1. PICK head : head = deals[a].head
  OBVIOUS
<1>2. PICK root : root = lineageRootId(head)
  OBVIOUS
<1>3. PICK s \in Seq(Docs) : s = getDealSourceDocs(root)
  BY KeptTyped DEF Safe
<1>4. /\ h'[p].at = "ingest" /\ h'[p].rev = head
      /\ h'[p].set = LastOfSlots(Append(s, d))
  BY <1>1, <1>2, <1>3, BegunAppend DEF Safe
<1>8. Unkept(root) # {} => h'[p].hasty = TRUE
  BY <1>1, <1>2, BegunHasty DEF Safe
<1>9. ~h'[p].hasty => Unkept(root) = {}
  BY <1>8
<1>5. Reads(head) \subseteq DocsOf(s) \cup Unkept(root)
  BY <1>1, <1>2, <1>3 DEF AllCovered, Cover
<1>6. ASSUME Unkept(root) = {}
      PROVE  SlotsRead(head) \subseteq SlotsOf(LastOfSlots(Append(s, d)))
  BY <1>5, <1>6, LastOfSlotsCovers DEF SlotsRead, SlotsOf, Reads
<1>7. SlotsRead(head)' = SlotsRead(head)
  BY DEF SlotsRead, store
<1>. QED
  BY <1>4, <1>6, <1>7, <1>9 DEF Remembers, SlotsRead, SlotsOf

LEMMA RemembersComposed ==
    ASSUME Safe, Safe', [Next]_vars, NEW p \in Procs, Remembers(p), ingestExtractionResult(p)
    PROVE  Remembers(p)'
<1>0. /\ TypeOK /\ h[p] \in Handler /\ Relies(p) /\ h \in [Procs -> Handler]
      /\ RevisionsStay /\ h[p].at = "ingest"
  BY StoreStep DEF Safe, TypeOK, Grows, ingestExtractionResult, At
<1>1. PICK u \in Units :
        LET x == Composed(h[p], u)
            r == computeRevisionId(h[p].rev, applyJudgmentAdjustments(x))
        IN /\ insertRevisionLineageEnvelope(r, x)
           /\ h' = [h EXCEPT ![p].at = "context", ![p].rev = r]
  BY DEF ingestExtractionResult
<1>2. PICK x : x = Composed(h[p], u)
  OBVIOUS
<1>3. PICK r : r = computeRevisionId(h[p].rev, applyJudgmentAdjustments(x))
  OBVIOUS
<1>4. PICK parent : parent = h[p].rev
  OBVIOUS
<1>5. r[Len(r)].docs = x.docs /\ parentRevisionId(r) = parent
  BY <1>0, <1>2, <1>3, <1>4, ChildOfComposed
<1>6. r \in revs' /\ h' = [h EXCEPT ![p].at = "context", ![p].rev = r]
  BY <1>1, <1>2, <1>3 DEF insertRevisionLineageEnvelope
<1>7. source'[r].docs = x.docs
  BY <1>5, <1>6 DEF Safe, Chained
<1>8. /\ h'[p].at = "context" /\ h'[p].rev = r /\ h'[p].deal = h[p].deal
      /\ h'[p].hasty = h[p].hasty
  BY <1>0, <1>6 DEF Handler
<1>9. CASE h[p].deal = 0 \/ h[p].hasty
  BY <1>8, <1>9 DEF Remembers
<1>10. CASE h[p].deal # 0 /\ ~h[p].hasty
  <2>1. OnLineage(p) /\ SlotsRead(parent) \subseteq SlotsOf(h[p].set)
    BY <1>0, <1>4, <1>10 DEF Relies, Ingests, OpensDeal, Remembers
  <2>2. parent \in revs /\ parent \in revs' /\ source'[parent] = source[parent]
    BY <1>0, <1>4, <2>1 DEF OnLineage, RevisionsStay
  <2>3. x.docs \in {source[parent].docs, h[p].set}
    BY <1>0, <1>2, <1>4, <2>1, ComposedExtraction
  <2>4. SlotsRead(parent) \subseteq SlotsOf(x.docs)
    BY <2>1, <2>3 DEF SlotsRead, SlotsOf
  <2>5. SlotsRead(parent)' = SlotsRead(parent) /\ SlotsRead(r)' = SlotsOf(x.docs)
    BY <1>7, <2>2 DEF SlotsRead, SlotsOf
  <2>. QED
    BY <1>5, <1>8, <2>2, <2>4, <2>5 DEF Remembers, SlotsRead
<1>. QED
  BY <1>9, <1>10

LEMMA RemembersOwn ==
    ASSUME Safe, Safe', [Next]_vars, AllCovered, crashes = 0, faults = 0, NEW p \in Procs,
           Remembers(p),
           \/ Run(p) \/ postDocument(p) \/ Ingest(p)
           \/ applyRevisionDelta(p) \/ insertEdit(p) \/ Throw(p)
    PROVE  Remembers(p)'
<1>0. /\ TypeOK /\ h[p] \in Handler /\ Relies(p) /\ h \in [Procs -> Handler]
  BY DEF Safe, TypeOK
<1>1. ASSUME h'[p].at \notin {"ingest", "context", "head"} \/ h'[p].deal = 0
      PROVE  Remembers(p)'
  BY <1>1 DEF Remembers
<1>2. CASE h' = [h EXCEPT ![p] = Idle]
  BY <1>0, <1>1, <1>2 DEF Idle
<1>3. CASE underwriteLoan(p)
  BY <1>0, <1>1, <1>3 DEF underwriteLoan, Idle
<1>4. CASE findDeal(p)
  <2>1. h[p].deal = 0
    BY <1>0, <1>4 DEF findDeal, At, Relies, Begins
  <2>2. CASE h' = [h EXCEPT ![p].at = "ingest", ![p].set = DocsOf(h[p].todo)]
    BY <1>0, <1>1, <2>1, <2>2 DEF Handler
  <2>3. CASE \E a \in lookupAnalysisByDealRef :
               h' = [h EXCEPT ![p].at = "save", ![p].deal = a,
                              ![p].new = h[p].todo[Len(h[p].todo)]]
    BY <1>0, <1>1, <2>3 DEF Handler
  <2>. QED
    BY <1>2, <1>4, <2>2, <2>3 DEF findDeal
<1>5. CASE saveGathered(p)
  BY <1>0, <1>1, <1>5 DEF saveGathered, Handler
<1>6. CASE appendGathered(p)
  <2>1. h[p].deal \in DOMAIN deals /\ h[p].new \in Docs
    BY <1>0, <1>6 DEF appendGathered, At, Relies, Begins, OnDeal
  <2>. QED
    BY <1>6, <2>1, RemembersBegun DEF appendGathered
<1>7. CASE postDocument(p)
  BY <1>7, RemembersBegun, DataAssumption DEF postDocument
<1>8. CASE ingestExtractionResult(p)
  BY <1>8, RemembersComposed
<1>9. CASE insertRevisionEvaluationContext(p)
  <2>1. /\ h[p].at = "context" /\ h'[p].rev = h[p].rev /\ h'[p].deal = h[p].deal
        /\ h'[p].hasty = h[p].hasty
        /\ h'[p].at = IF h[p].deal = 0 THEN "keep" ELSE "head"
        /\ source' = source /\ revs' = revs
    BY <1>0, <1>9 DEF insertRevisionEvaluationContext, Handler
  <2>. QED
    BY <2>1 DEF Remembers, SlotsRead
<1>10. CASE updateAnalysis(p)
  BY <1>0, <1>1, <1>10 DEF updateAnalysis, Handler
<1>11. CASE saveAtRoot(p)
  BY <1>0, <1>1, <1>11 DEF saveAtRoot, Handler
<1>12. CASE applyRevisionDelta(p)
  BY <1>0, <1>1, <1>12, DeltaAt
<1>13. CASE saveAppended(p) \/ promoteFromGraph(p) \/ insertEdit(p) \/ Throw(p)
  BY <1>2, <1>13 DEF saveAppended, promoteFromGraph, insertEdit, Throw
<1>. QED
  BY <1>3, <1>4, <1>5, <1>6, <1>7, <1>8, <1>9, <1>10, <1>11, <1>12, <1>13 DEF Run, Ingest

LEMMA RememberStep ==
    ASSUME Safe, Safe', [Next]_vars, AllCovered, AllRemember
    PROVE  AllRemember'
<1> SUFFICES ASSUME crashes' = 0, faults' = 0, NEW q \in Procs PROVE Remembers(q)'
  BY DEF AllRemember
<1>1. crashes = 0 /\ faults = 0 /\ Remembers(q)
  BY NoUpsets DEF AllRemember
<1>2. CASE h'[q] = h[q]
  BY <1>1, <1>2, RemembersStays
<1>3. ASSUME NEW p \in Procs,
             \/ Run(p) \/ postDocument(p) \/ Ingest(p)
             \/ applyRevisionDelta(p) \/ insertEdit(p) \/ Throw(p)
      PROVE  Remembers(q)'
  <2>1. CASE p = q
    BY <1>1, <1>3, <2>1, RemembersOwn
  <2>2. CASE p # q
    BY <1>2, <1>3, <2>2, OthersStay
  <2>. QED
    BY <2>1, <2>2
<1>. QED
  BY <1>2, <1>3, NoUpsets DEF Next, FileDoc, Rekey, vars

LEMMA RememberInit == Init => AllRemember
BY DEF Init, AllRemember, Remembers, Idle

(***************************************************************************)
(* What an append is about to make a deal's head was read from every slot  *)
(* of the head it was begun on, unless it was begun before another's       *)
(* document was kept: for every number of handlers, documents and slots.   *)
(***************************************************************************)
THEOREM NothingForgotten == Spec => []AppendsForgetNothing
<1>1. Safe /\ AllRemember => AppendsForgetNothing
  <2> SUFFICES ASSUME Safe, AllRemember, crashes = 0, faults = 0, NEW p \in Procs,
                      h[p].at = "head", ~h[p].hasty
               PROVE  SlotsRead(parentRevisionId(h[p].rev)) \subseteq SlotsRead(h[p].rev)
    BY DEF AppendsForgetNothing
  <2>1. h[p].deal # 0
    BY DealRow DEF Safe, Relies, Ingests, OnLineage, OnDeal
  <2>. QED
    BY <2>1 DEF AllRemember, Remembers
<1>2. Init => Safe /\ AllCovered /\ AllRemember
  BY SafeInit, CoveredInit, RememberInit
<1>3. Safe /\ AllCovered /\ AllRemember /\ [Next]_vars => (Safe /\ AllCovered /\ AllRemember)'
  BY SafeStep, CoveredStep, RememberStep
<1>. QED
  BY <1>1, <1>2, <1>3, PTL DEF Spec

=============================================================================
