---------------------------- MODULE UwLibraryProofs ----------------------------
(***************************************************************************)
(* The library of historical underwritings, for every number of files,     *)
(* callers, asset types and outcome rows: proofs about UwLibrary.          *)
(***************************************************************************)
EXTENDS UwLibrary, FiniteSetTheorems, FunctionTheorems, TLAPS

(***************************************************************************)
(* What rows are linked to, what is on disk and what a re-extraction holds *)
(* was made.                                                               *)
(***************************************************************************)
Made ==
    /\ LibraryTypeOK
    /\ Present(saved) \subseteq 1 .. born
    /\ \A k \in Rereads : DOMAIN reread[k] \subseteq 1 .. born
    /\ \A u \in Rows : unmatched[u] \in {NoRow, Unlinked} \cup 1 .. born

(***************************************************************************)
(* A re-extraction that has no object of its own reads a record.           *)
(***************************************************************************)
LiveIsPresent ==
    \A k \in Rereads : \A i \in DOMAIN reread[k] :
      reread[k][i] = Live => records[i] # NoRecord

(***************************************************************************)
(* What LinkedMeansTold says of the records, of any version of them.       *)
(***************************************************************************)
ToldIn(recs) ==
    \A u \in Rows, i \in Ids :
      unmatched[u] = i /\ recs[i] # NoRecord /\ i \notin setBack =>
        u \in recs[i].told

(***************************************************************************)
(* What DuplicatesAreOverlaps says of the records, of any version of them. *)
(***************************************************************************)
Excused(i) == i \in besides \cup setBack

OverlapsIn(recs) ==
    \A i, j \in Ids :
      i # j /\ recs[i] # NoRecord /\ recs[j] # NoRecord
        /\ recs[i].file = recs[j].file => Excused(i) \/ Excused(j)

(***************************************************************************)
(* Of two ingestions of one file under way, one began beside the other;    *)
(* and the file of an automatic one that did not came, if at all, from     *)
(* another that did.                                                       *)
(***************************************************************************)
OneIsBeside ==
    \A c, d \in Callers :
      c # d /\ calls[c] # NoCall /\ calls[d] # NoCall
        /\ calls[c].file = calls[d].file => calls[c].beside \/ calls[d].beside

Unseen(c) ==
    \A i \in Ids :
      records[i] # NoRecord /\ records[i].file = calls[c].file => Excused(i)

AutoIsUnseen ==
    \A c \in Callers :
      calls[c] # NoCall /\ calls[c].how = "auto" /\ ~calls[c].beside => Unseen(c)

(***************************************************************************)
(* The inductive invariant.                                                *)
(***************************************************************************)
RecordsSafe ==
    /\ Made /\ LiveIsPresent
    /\ KeptStaysOnRecord
    /\ ToldIn(records) /\ ToldIn(saved)
    /\ OverlapsIn(records) /\ OverlapsIn(saved)
    /\ OneIsBeside /\ AutoIsUnseen

LibrarySafe == RecordsSafe /\ StaleProposalsAreUntold

-----------------------------------------------------------------------------
(***************************************************************************)
(* What a step does to the records is one of few things.                   *)
(***************************************************************************)
LEMMA RecordFields ==
    ASSUME NEW x \in Records
    PROVE  /\ x # NoRecord /\ x # Live
           /\ x.file \in Files /\ x.type \in Types /\ x.label \in Labels
           /\ x.told \subseteq Rows
BY NoRecordAssumption DEF Records

LEMMA CallFields ==
    ASSUME LibraryTypeOK, NEW c \in Callers, calls[c] # NoCall
    PROVE  /\ calls[c] \in Ingestions
           /\ calls[c].file \in Files /\ calls[c].beside \in BOOLEAN
           /\ calls[c].how \in {"upload", "auto"}
BY DEF LibraryTypeOK, Ingestions

(***************************************************************************)
(* A type none of whose deals changed has as many as before.               *)
(***************************************************************************)
LEMMA StaleStep ==
    ASSUME StaleProposalsAreUntold,
           outdated' \subseteq Types,
           outdated' \ outdated \subseteq pending' \cup untold',
           Affected(records, records') \subseteq pending' \cup untold',
           pending \cup untold \subseteq pending' \cup untold'
    PROVE  StaleProposalsAreUntold'
<1>. SUFFICES ASSUME NEW t \in outdated',
                     Cardinality(qualifyingDeals(records', t)) >= Enough
              PROVE  t \in pending' \cup untold'
  BY DEF StaleProposalsAreUntold, qualifyingDeals, Present
<1>1. CASE t \in Affected(records, records')
  BY <1>1
<1>2. CASE t \notin Affected(records, records') /\ t \in outdated
  <2>1. t \in outdated /\ qualifyingDeals(records', t) = qualifyingDeals(records, t)
    BY <1>2 DEF Affected
  <2>. QED  BY <2>1 DEF StaleProposalsAreUntold
<1>3. CASE t \notin outdated
  BY <1>3
<1>. QED  BY <1>1, <1>2, <1>3

(***************************************************************************)
(* As long as no record goes, re-extractions keep reading what there is.   *)
(***************************************************************************)
LEMMA LiveStep ==
    ASSUME LibraryTypeOK, LiveIsPresent, UNCHANGED reread,
           \A i \in Ids : records[i] # NoRecord => records'[i] # NoRecord
    PROVE  LiveIsPresent'
BY DEF LibraryTypeOK, LiveIsPresent

(***************************************************************************)
(* Writing a record changes the deals of the types it had and has.         *)
(***************************************************************************)
LEMMA AffectedByOne ==
    ASSUME NEW was, NEW is, NEW i \in Ids, NEW touched,
           \A j \in Ids : j # i => is[j] = was[j],
           was[i] # NoRecord => was[i].type \in touched,
           is[i] # NoRecord => is[i].type \in touched
    PROVE  Affected(was, is) \subseteq touched
<1>. SUFFICES ASSUME NEW t \in Types, t \notin touched
              PROVE  qualifyingDeals(was, t) = qualifyingDeals(is, t)
  BY DEF Affected
<1>1. \A j \in Ids : (j \in Present(was) /\ was[j].type = t)
                       <=> (j \in Present(is) /\ is[j].type = t)
  BY DEF Present
<1>2. \A j \in Ids : j \in Present(was) /\ was[j].type = t => was[j] = is[j]
  BY DEF Present
<1>. DEFINE Of(recs) == {j \in Present(recs) : recs[j].type = t}
<1>3. Of(was) = Of(is)
  BY <1>1 DEF Present
<1>4. \A j \in Of(was) : <<j, was[j].label>> = <<j, is[j].label>>
  BY <1>2 DEF Present
<1>5. {<<j, was[j].label>> : j \in Of(was)} = {<<j, is[j].label>> : j \in Of(is)}
  <2>. HIDE DEF Of
  <2>. QED  BY <1>3, <1>4
<1>. QED  BY <1>5 DEF qualifyingDeals

(***************************************************************************)
(* Rules that are made leave no type with enough deals behind.             *)
(***************************************************************************)
LEMMA RegenerateStep ==
    ASSUME StaleProposalsAreUntold, NEW types, NEW atLeast \in Nat,
           atLeast <= Enough, Regenerate(types, atLeast),
           UNCHANGED records, pending \ types \subseteq pending',
           \A t \in Types : Cardinality(qualifyingDeals(records, t)) \in Nat,
           outdated \subseteq Types
    PROVE  StaleProposalsAreUntold'
<1>. SUFFICES ASSUME NEW t \in outdated',
                     Cardinality(qualifyingDeals(records, t)) >= Enough
              PROVE  t \in pending' \cup untold'
  BY DEF StaleProposalsAreUntold, qualifyingDeals, Present
<1>1. t \in outdated /\ t \in Types
  BY DEF Regenerate
<1>2. Cardinality(qualifyingDeals(records, t)) >= atLeast
  BY <1>1, LibraryAssumption
<1>3. t \notin types
  BY <1>1, <1>2 DEF Regenerate
<1>. QED  BY <1>1, <1>3 DEF StaleProposalsAreUntold, Regenerate

LEMMA DealsAreCounted ==
    ASSUME NEW recs, NEW t
    PROVE  Cardinality(qualifyingDeals(recs, t)) \in Nat
<1>. DEFINE Of == {j \in Present(recs) : recs[j].type = t}
<1>1. IsFiniteSet(Of)
  <2>1. IsFiniteSet(Ids) /\ Of \subseteq Ids
    BY LibraryAssumption, FS_Interval DEF Ids, Present
  <2>. QED  BY <2>1, FS_Subset
<1>2. IsFiniteSet({<<i, recs[i].label>> : i \in Of})
  <2>. HIDE DEF Of
  <2>. DEFINE f == [i \in Of |-> <<i, recs[i].label>>]
  <2>1. f \in Surjection(Of, {<<i, recs[i].label>> : i \in Of})
    BY DEF Surjection
  <2>. QED  BY <1>1, <2>1, FS_Surjection
<1>. QED  BY <1>2, FS_CardinalityType DEF qualifyingDeals

(***************************************************************************)
(* A change that gives no record another file than it had keeps the        *)
(* duplicates excused.                                                     *)
(***************************************************************************)
FilesFrom(was, is) ==
    \A i \in Ids :
      is[i] # NoRecord /\ ~Excused(i)' =>
        was[i] # NoRecord /\ is[i].file = was[i].file

LEMMA OverlapStep ==
    ASSUME NEW was, NEW is, OverlapsIn(was), FilesFrom(was, is),
           besides \cup setBack \subseteq besides' \cup setBack'
    PROVE  \A i, j \in Ids :
             i # j /\ is[i] # NoRecord /\ is[j] # NoRecord
               /\ is[i].file = is[j].file => Excused(i)' \/ Excused(j)'
BY DEF OverlapsIn, FilesFrom, Excused

(***************************************************************************)
(* Ingestions under way that stay what they are, or end, stay excused.     *)
(***************************************************************************)
LEMMA CallStep ==
    ASSUME OneIsBeside, AutoIsUnseen,
           \A c \in Callers : calls'[c] \in {NoCall, calls[c]},
           FilesFrom(records, records'),
           besides \cup setBack \subseteq besides' \cup setBack'
    PROVE  OneIsBeside' /\ AutoIsUnseen'
<1>1. OneIsBeside'
  BY DEF OneIsBeside
<1>2. AutoIsUnseen'
  BY DEF AutoIsUnseen, Unseen, FilesFrom, Excused
<1>. QED  BY <1>1, <1>2

-----------------------------------------------------------------------------
(***************************************************************************)
(* Ingestions.                                                             *)
(***************************************************************************)
LEMMA BeginSafe ==
    ASSUME RecordsSafe, NEW c \in Callers, NEW how \in {"upload", "auto"},
           NEW f \in Files, calls[c] = NoCall,
           how = "auto" => exactDuplicates(f) = {},
           Begin(c, how, f),
           UNCHANGED <<records, saved, unmatched, reread, pending, born,
                       besides, kept, setBack, rereads, crashes>>,
           rules' \in [Types -> SUBSET Standings],
           outdated' \subseteq outdated, untold' \subseteq untold
    PROVE  RecordsSafe'
<1>. DEFINE beside == \E d \in Callers : calls[d] # NoCall /\ calls[d].file = f
            call == [how |-> how, file |-> f, beside |-> beside]
<1>1. beside \in BOOLEAN
  OBVIOUS
<1>2. call \in Ingestions
  <2>. HIDE DEF beside
  <2>. QED  BY <1>1 DEF Ingestions
<1>3. call # NoCall
  BY <1>2, NoCallAssumption
<1>4. calls' = [calls EXCEPT ![c] = call]
  BY DEF Begin
<1>5. calls \in [Callers -> Ingestions \cup {NoCall}]
  BY DEF RecordsSafe, Made, LibraryTypeOK
<1>6. calls' \in [Callers -> Ingestions \cup {NoCall}]
  <2>. HIDE DEF call
  <2>. QED  BY <1>2, <1>4, <1>5
<1>7. Made'
  BY <1>6 DEF RecordsSafe, Made, LibraryTypeOK, Present
<1>8. /\ KeptStaysOnRecord' /\ ToldIn(records)' /\ ToldIn(saved)'
      /\ OverlapsIn(records)' /\ OverlapsIn(saved)' /\ LiveIsPresent'
  BY DEF RecordsSafe, KeptStaysOnRecord, ToldIn, OverlapsIn, Excused,
     LiveIsPresent
<1>9. \A d \in Callers : calls'[d] = IF d = c THEN call ELSE calls[d]
  <2>. HIDE DEF call
  <2>. QED  BY <1>4, <1>5
<1>10. OneIsBeside'
  <2>. SUFFICES ASSUME NEW d \in Callers, NEW e \in Callers, d # e,
                       calls'[d] # NoCall, calls'[e] # NoCall,
                       calls'[d].file = calls'[e].file
                PROVE  calls'[d].beside \/ calls'[e].beside
    BY DEF OneIsBeside
  <2>1. CASE d = c
    <3>1. calls'[e] = calls[e] /\ calls'[d] = call
      BY <2>1, <1>9
    <3>. QED  BY <3>1
  <2>2. CASE e = c
    <3>1. calls'[d] = calls[d] /\ calls'[e] = call
      BY <2>2, <1>9
    <3>. QED  BY <3>1
  <2>3. CASE d # c /\ e # c
    BY <2>3, <1>9 DEF RecordsSafe, OneIsBeside
  <2>. QED  BY <2>1, <2>2, <2>3
<1>11. AutoIsUnseen'
  <2>. SUFFICES ASSUME NEW d \in Callers, calls'[d] # NoCall,
                       calls'[d].how = "auto", ~calls'[d].beside
                PROVE  Unseen(d)'
    BY DEF AutoIsUnseen
  <2>1. CASE d = c
    <3>1. calls'[d] = call
      BY <2>1, <1>9
    <3>2. \A i \in Ids : records[i] # NoRecord => records[i].file # f
      BY <3>1 DEF exactDuplicates, Present
    <3>. QED  BY <3>1, <3>2 DEF Unseen
  <2>2. CASE d # c
    BY <2>2, <1>9 DEF RecordsSafe, AutoIsUnseen, Unseen, Excused
  <2>. QED  BY <2>1, <2>2
<1>. QED  BY <1>7, <1>8, <1>10, <1>11 DEF RecordsSafe

LEMMA WaitSafe ==
    ASSUME LibrarySafe, NEW c \in Callers, NEW how \in {"upload", "auto"},
           NEW f \in Files, calls[c] = NoCall,
           how = "auto" => exactDuplicates(f) = {}, Wait(c, how, f)
    PROVE  LibrarySafe'
<1>1. RecordsSafe'
  BY BeginSafe DEF LibrarySafe, RecordsSafe, Made, LibraryTypeOK, Wait
<1>2. StaleProposalsAreUntold'
  BY DEF LibrarySafe, Wait, StaleProposalsAreUntold, qualifyingDeals, Present
<1>. QED  BY <1>1, <1>2 DEF LibrarySafe

(***************************************************************************)
(* What ends without a record changes nothing else.                        *)
(***************************************************************************)
LEMMA LeaveSafe ==
    ASSUME LibrarySafe, NEW c \in Callers, skip(c) \/ throw(c)
    PROVE  LibrarySafe'
<1>1. calls \in [Callers -> Ingestions \cup {NoCall}]
  BY DEF LibrarySafe, RecordsSafe, Made, LibraryTypeOK
<1>2. /\ calls' = [calls EXCEPT ![c] = NoCall]
      /\ UNCHANGED <<records, saved, unmatched, reread, pending, rules,
                     outdated, born, besides, kept, setBack, untold, rereads, crashes>>
  BY DEF skip, throw, Leave
<1>3. /\ \A d \in Callers : calls'[d] \in {NoCall, calls[d]}
      /\ calls' \in [Callers -> Ingestions \cup {NoCall}]
  BY <1>1, <1>2
<1>4. OneIsBeside' /\ AutoIsUnseen'
  <2>1. FilesFrom(records, records')
    BY <1>2 DEF FilesFrom
  <2>. QED  BY <1>2, <1>3, <2>1, CallStep DEF LibrarySafe, RecordsSafe
<1>5. Made'
  BY <1>2, <1>3 DEF LibrarySafe, RecordsSafe, Made, LibraryTypeOK, Present
<1>6. /\ KeptStaysOnRecord' /\ ToldIn(records)' /\ ToldIn(saved)'
      /\ OverlapsIn(records)' /\ OverlapsIn(saved)' /\ StaleProposalsAreUntold'
      /\ LiveIsPresent'
  BY <1>2 DEF LibrarySafe, RecordsSafe, KeptStaysOnRecord, ToldIn, OverlapsIn,
     LiveIsPresent, Excused, StaleProposalsAreUntold, qualifyingDeals, Present
<1>. QED  BY <1>4, <1>5, <1>6 DEF LibrarySafe, RecordsSafe

(***************************************************************************)
(* A record is new: nothing is linked to it; and if another of its file is *)
(* there, then it came while the ingestion waited.                         *)
(***************************************************************************)
LEMMA InsertSafe ==
    ASSUME LibrarySafe, NEW c \in Callers, NEW t \in Types,
           NEW label \in Labels, insert(c, t, label)
    PROVE  LibrarySafe'
<1>. DEFINE x == [file |-> calls[c].file, type |-> t, label |-> label, told |-> {}]
<1>0. LibraryTypeOK /\ calls[c] # NoCall /\ MaxRecords \in Nat
  BY LibraryAssumption DEF LibrarySafe, RecordsSafe, Made, insert
<1>n. PICK n \in Ids : n = born + 1
  BY <1>0 DEF LibraryTypeOK, insert, Ids
<1>1. born \in Nat /\ n \in Ids /\ born' = n /\ n = born + 1
  BY <1>0, <1>n DEF LibraryTypeOK, insert, add, Ids
<1>2. /\ calls[c].file \in Files /\ calls[c].beside \in BOOLEAN
      /\ calls[c].how \in {"upload", "auto"}
  BY <1>0, CallFields
<1>3. x \in Records
  BY <1>2 DEF Records
<1>4. x # NoRecord
  BY <1>3, NoRecordAssumption
<1>5. /\ records' = [records EXCEPT ![n] = x] /\ saved' = records'
      /\ kept' = kept \cup {n}
      /\ besides' = IF calls[c].beside THEN besides \cup {n} ELSE besides
      /\ outdated' = outdated \cup Affected(records, records')
      /\ pending' = pending \cup {t}
      /\ calls' = [calls EXCEPT ![c] = NoCall]
      /\ UNCHANGED <<unmatched, reread, rules, setBack, untold, rereads,
                     crashes>>
  BY <1>n DEF insert, add, persistUWs, Outdate, triggerBackgroundRuleUpdate, Leave
<1>. HIDE DEF x
<1>6. /\ records' \in [Ids -> Records \cup {NoRecord}]
      /\ records'[n] = x
      /\ \A i \in Ids \ {n} : records'[i] = records[i]
  BY <1>0, <1>1, <1>3, <1>5 DEF LibraryTypeOK
<1>7. \A d \in Callers : d # c => calls'[d] = calls[d]
  BY <1>0, <1>5 DEF LibraryTypeOK
<1>8. /\ calls'[c] = NoCall
      /\ calls' \in [Callers -> Ingestions \cup {NoCall}]
  BY <1>0, <1>5 DEF LibraryTypeOK
<1>9. Present(records') \subseteq 1 .. n /\ 1 .. born \subseteq 1 .. n /\ n \in 1 .. n
  <2>1. 1 .. born \subseteq 1 .. n /\ n \in 1 .. n
    BY <1>1
  <2>2. \A i \in Present(records') : i = n \/ i \in Present(records)
    BY <1>6 DEF Present
  <2>. QED  BY <1>0, <2>1, <2>2 DEF LibraryTypeOK
<1>10. Affected(records, records') \subseteq {t}
  <2>1. records[n] = NoRecord
    BY <1>0, <1>1 DEF LibraryTypeOK, Present
  <2>2. x.type = t
    BY DEF x
  <2>3. /\ records[n] # NoRecord => records[n].type \in {t}
        /\ records'[n] # NoRecord => records'[n].type \in {t}
        /\ \A j \in Ids : j # n => records'[j] = records[j]
    BY <1>6, <2>1, <2>2
  <2>. QED  BY <1>1, <2>3, AffectedByOne DEF Affected, qualifyingDeals, Present
<1>11. Made'
  <2>1. LibraryTypeOK'
    <3>1. born' \in 0 .. MaxRecords
      BY <1>0, <1>1 DEF Ids
    <3>2. kept' \subseteq 1 .. born' /\ besides' \subseteq 1 .. born'
          /\ Present(records)' \subseteq 1 .. born' /\ setBack' \subseteq 1 .. born'
      BY <1>0, <1>1, <1>5, <1>9 DEF LibraryTypeOK, Present
    <3>. QED  BY <1>0, <1>5, <1>6, <1>8, <1>10, <3>1, <3>2 DEF LibraryTypeOK
  <2>. QED  BY <2>1, <1>1, <1>5, <1>9 DEF LibrarySafe, RecordsSafe, Made, Present
<1>12. KeptStaysOnRecord'
  BY <1>1, <1>4, <1>5, <1>6 DEF LibrarySafe, RecordsSafe, Made, KeptStaysOnRecord, LibraryTypeOK, Ids
<1>13. ToldIn(records)' /\ ToldIn(saved)'
  <2>1. \A u \in Rows : unmatched[u] # n
    BY <1>1, NoCallAssumption DEF LibrarySafe, RecordsSafe, Made, Unlinked
  <2>. QED  BY <2>1, <1>5, <1>6 DEF LibrarySafe, RecordsSafe, ToldIn
<1>14. \A i \in Ids : i # n /\ records[i] # NoRecord /\ records[i].file = calls[c].file
         => Excused(i)' \/ Excused(n)'
  <2>. SUFFICES ASSUME NEW i \in Ids, i # n, records[i] # NoRecord,
                       records[i].file = calls[c].file
                PROVE  Excused(i)' \/ Excused(n)'
    OBVIOUS
  <2>1. CASE calls[c].beside
    BY <2>1, <1>5 DEF Excused
  <2>2. CASE ~calls[c].beside
    <3>1. i \in exactDuplicates(calls[c].file)
      BY DEF exactDuplicates, Present
    <3>2. calls[c].how = "auto"
      BY <1>2, <3>1 DEF insert, IsSkipped, findDuplicates
    <3>. QED  BY <2>2, <3>2, <1>0, <1>5 DEF LibrarySafe, RecordsSafe, AutoIsUnseen, Unseen, Excused
  <2>. QED  BY <2>1, <2>2, <1>2
<1>15. OverlapsIn(records)' /\ OverlapsIn(saved)'
  <2>1. x.file = calls[c].file
    BY DEF x
  <2>2. \A i \in Ids : Excused(i) => Excused(i)'
    BY <1>5 DEF Excused
  <2>. QED  BY <2>1, <2>2, <1>5, <1>6, <1>14 DEF LibrarySafe, RecordsSafe, OverlapsIn
<1>16. OneIsBeside'
  BY <1>7, <1>8 DEF LibrarySafe, RecordsSafe, OneIsBeside
<1>17. AutoIsUnseen'
  <2>. SUFFICES ASSUME NEW d \in Callers, calls'[d] # NoCall,
                       calls'[d].how = "auto", ~calls'[d].beside,
                       NEW i \in Ids, records'[i] # NoRecord,
                       records'[i].file = calls'[d].file
                PROVE  Excused(i)'
    BY DEF AutoIsUnseen, Unseen
  <2>1. d # c /\ calls'[d] = calls[d]
    BY <1>7, <1>8
  <2>2. CASE i = n
    <3>1. calls[c].beside
      BY <1>0, <1>6, <2>1, <2>2 DEF x, LibrarySafe, RecordsSafe, OneIsBeside
    <3>. QED  BY <2>2, <3>1, <1>5 DEF Excused
  <2>3. CASE i # n
    BY <2>1, <2>3, <1>5, <1>6 DEF LibrarySafe, RecordsSafe, AutoIsUnseen, Unseen, Excused
  <2>. QED  BY <2>2, <2>3
<1>18. StaleProposalsAreUntold'
  <2>1. /\ outdated' \subseteq Types
        /\ outdated' \ outdated \subseteq pending' \cup untold'
    BY <1>0, <1>5, <1>10 DEF LibraryTypeOK, Affected
  <2>. QED  BY <1>5, <1>10, <2>1, StaleStep DEF LibrarySafe
<1>19. LiveIsPresent'
  BY <1>0, <1>4, <1>5, <1>6, LiveStep DEF LibrarySafe, RecordsSafe
<1>. QED  BY <1>11, <1>12, <1>13, <1>15, <1>16, <1>17, <1>18, <1>19 DEF LibrarySafe, RecordsSafe

-----------------------------------------------------------------------------
(***************************************************************************)
(* A record written, edited or deleted, and its file with it, possibly in  *)
(* a process that dies of it.                                              *)
(***************************************************************************)
RereadTyped(is) ==
    /\ DOMAIN is = Rereads
    /\ \A k \in Rereads :
         /\ DOMAIN is[k] \subseteq Ids \cap 1 .. born
         /\ \A i \in DOMAIN is[k] : is[k][i] \in Records \cup {Live}

Settled ==
    /\ unmatched' \in [Rows -> {NoRow, Unlinked} \cup Ids]
    /\ RereadTyped(reread') /\ LiveIsPresent'
    /\ rules' \in [Types -> SUBSET Standings]
    /\ pending' \subseteq Types /\ untold' \subseteq Types
    /\ rereads' \in 0 .. MaxRereads /\ crashes' \in 0 .. MaxCrashes
    /\ \A c \in Callers : calls'[c] \in {NoCall, calls[c]}
    /\ calls' \in [Callers -> Ingestions \cup {NoCall}]

LEMMA EditSafe ==
    ASSUME LibrarySafe, Settled,
           NEW i \in Ids, NEW x \in Records \cup {NoRecord},
           records[i] # NoRecord,
           records' = [records EXCEPT ![i] = x], saved' = records',
           x # NoRecord => /\ x.file = records[i].file
                           /\ records[i].told \subseteq x.told,
           kept' \subseteq kept, x = NoRecord => i \notin kept',
           \A u \in Rows :
             unmatched'[u] # unmatched[u] =>
               unmatched'[u] = i /\ x # NoRecord /\ u \in x.told,
           outdated' \subseteq Types,
           outdated' \ outdated \subseteq pending' \cup untold',
           Affected(records, records') \subseteq pending' \cup untold',
           pending \cup untold \subseteq pending' \cup untold',
           UNCHANGED <<born, besides, setBack>>
    PROVE  LibrarySafe'
<1>1. LibraryTypeOK /\ Made
  BY DEF LibrarySafe, RecordsSafe, Made
<1>2. /\ records' \in [Ids -> Records \cup {NoRecord}]
      /\ records'[i] = x
      /\ \A j \in Ids : j # i => records'[j] = records[j]
  BY <1>1 DEF LibraryTypeOK
<1>3. i \in 1 .. born /\ Present(records') \subseteq 1 .. born
  BY <1>1, <1>2 DEF LibraryTypeOK, Present
<1>4. LibraryTypeOK'
  <2>1. Present(records)' \subseteq 1 .. born
    BY <1>3 DEF Present
  <2>. QED  BY <1>1, <1>2, <2>1 DEF LibraryTypeOK, Settled, RereadTyped, Outdate, Affected
<1>5. Made'
  <2>1. Present(saved)' \subseteq 1 .. born
    BY <1>3 DEF Present
  <2>2. \A u \in Rows : unmatched'[u] \in {NoRow, Unlinked} \cup 1 .. born
    BY <1>1, <1>3 DEF Made
  <2>. QED  BY <1>4, <2>1, <2>2 DEF Made, Settled, RereadTyped
<1>6. KeptStaysOnRecord'
  <2>1. kept \subseteq Ids
    BY <1>1, LibraryAssumption DEF LibraryTypeOK, Ids
  <2>. QED  BY <1>2, <2>1 DEF LibrarySafe, RecordsSafe, KeptStaysOnRecord
<1>7. ToldIn(records)' /\ ToldIn(saved)'
  BY <1>2 DEF LibrarySafe, RecordsSafe, ToldIn
<1>8. FilesFrom(records, records')
  BY <1>2 DEF FilesFrom
<1>9. OverlapsIn(records)' /\ OverlapsIn(saved)'
  BY <1>2 DEF LibrarySafe, RecordsSafe, OverlapsIn, Excused
<1>10. OneIsBeside' /\ AutoIsUnseen'
  BY <1>8, CallStep DEF LibrarySafe, RecordsSafe, Settled
<1>11. StaleProposalsAreUntold'
  BY StaleStep DEF LibrarySafe
<1>. QED  BY <1>5, <1>6, <1>7, <1>9, <1>10, <1>11 DEF LibrarySafe, RecordsSafe, Settled

(***************************************************************************)
(* Steps that leave the records and their file alone.                      *)
(***************************************************************************)
LEMMA StillSafe ==
    ASSUME LibrarySafe, Settled, UNCHANGED <<records, saved, calls>>,
           \A u \in Rows : unmatched'[u] \in {unmatched[u], NoRow, Unlinked},
           outdated' \subseteq Types, StaleProposalsAreUntold',
           UNCHANGED <<born, besides, kept, setBack>>
    PROVE  LibrarySafe'
<1>1. LibraryTypeOK'
  BY DEF LibrarySafe, RecordsSafe, Made, LibraryTypeOK, Settled, RereadTyped, Present
<1>2. Made'
  BY <1>1 DEF LibrarySafe, RecordsSafe, Made, Present, Settled, RereadTyped
<1>3. ToldIn(records)' /\ ToldIn(saved)'
  <2>1. \A u \in Rows, i \in Ids : unmatched'[u] = i => unmatched[u] = i
    BY NoCallAssumption DEF Unlinked, Ids
  <2>. QED  BY <2>1 DEF LibrarySafe, RecordsSafe, ToldIn
<1>4. /\ KeptStaysOnRecord' /\ OverlapsIn(records)' /\ OverlapsIn(saved)'
      /\ OneIsBeside' /\ AutoIsUnseen'
  BY DEF LibrarySafe, RecordsSafe, KeptStaysOnRecord, OverlapsIn, OneIsBeside,
     AutoIsUnseen, Unseen, Excused
<1>. QED  BY <1>2, <1>3, <1>4 DEF LibrarySafe, RecordsSafe, Settled

LEMMA Unsettled ==
    ASSUME Made
    PROVE  /\ unmatched \in [Rows -> {NoRow, Unlinked} \cup Ids]
           /\ RereadTyped(reread)
           /\ rules \in [Types -> SUBSET Standings]
           /\ pending \subseteq Types /\ untold \subseteq Types
           /\ outdated \subseteq Types
           /\ rereads \in 0 .. MaxRereads /\ crashes \in 0 .. MaxCrashes
           /\ calls \in [Callers -> Ingestions \cup {NoCall}]
           /\ records \in [Ids -> Records \cup {NoRecord}]
BY DEF Made, LibraryTypeOK, RereadTyped

(***************************************************************************)
(* The object a record had stays with the re-extraction that holds it.     *)
(***************************************************************************)
LEMMA DetachTyped ==
    ASSUME Made, LiveIsPresent, NEW i \in Ids, records[i] # NoRecord,
           Detach(i), \A j \in Ids \ {i} : records'[j] = records[j]
    PROVE  RereadTyped(reread') /\ LiveIsPresent'
<1>1. records[i] \in Records /\ records[i] # Live
  BY RecordFields DEF Made, LibraryTypeOK
<1>2. \A k \in Rereads :
        /\ DOMAIN reread'[k] = DOMAIN reread[k]
        /\ \A j \in DOMAIN reread[k] :
             reread'[k][j] = IF j = i /\ reread[k][j] = Live THEN records[i]
                             ELSE reread[k][j]
  BY DEF Detach
<1>3. RereadTyped(reread')
  BY <1>1, <1>2 DEF Made, LibraryTypeOK, Detach, RereadTyped
<1>4. LiveIsPresent'
  BY <1>1, <1>2 DEF Made, LibraryTypeOK, LiveIsPresent
<1>. QED  BY <1>3, <1>4

LEMMA UpdateSafe ==
    ASSUME LibrarySafe, NEW i \in Ids, NEW t \in Types, NEW label \in Labels,
           updateHistoricalUW(i, t, label)
    PROVE  LibrarySafe'
<1>. DEFINE x == [records[i] EXCEPT !.type = t, !.label = label]
<1>1. Made /\ LibraryTypeOK /\ records[i] # NoRecord /\ records[i] \in Records
  BY DEF LibrarySafe, RecordsSafe, Made, LibraryTypeOK, updateHistoricalUW
<1>2. x \in Records /\ x.file = records[i].file /\ x.told = records[i].told
  BY <1>1 DEF Records
<1>3. records' = [records EXCEPT ![i] = x]
  BY <1>1 DEF LibraryTypeOK, updateHistoricalUW
<1>. HIDE DEF x
<1>4. Settled
  <2>1. RereadTyped(reread') /\ LiveIsPresent'
    <3>1. \A j \in Ids \ {i} : records'[j] = records[j]
      BY <1>1, <1>3 DEF LibraryTypeOK
    <3>. QED  BY <1>1, <3>1, DetachTyped DEF updateHistoricalUW, LibrarySafe, RecordsSafe
  <2>. QED  BY <1>1, <2>1, Unsettled DEF updateHistoricalUW, Settled, Affected
<1>5. /\ saved' = records' /\ outdated' \subseteq Types /\ kept' \subseteq kept
      /\ outdated' \ outdated \subseteq pending' \cup untold'
      /\ Affected(records, records') \subseteq pending' \cup untold'
      /\ pending \cup untold \subseteq pending' \cup untold'
      /\ UNCHANGED <<unmatched, born, besides, setBack>>
  BY <1>1 DEF updateHistoricalUW, persistUWs, Outdate, Affected, LibraryTypeOK
<1>6. x # NoRecord
  BY <1>2, NoRecordAssumption
<1>. QED
  BY <1>1, <1>2, <1>3, <1>4, <1>5, <1>6, EditSafe

LEMMA DeleteSafe ==
    ASSUME LibrarySafe, NEW i \in Ids, deleteHistoricalUW(i)
    PROVE  LibrarySafe'
<1>1. Made /\ LibraryTypeOK /\ records[i] # NoRecord
  BY DEF LibrarySafe, RecordsSafe, Made, deleteHistoricalUW
<1>2. Settled
  <2>1. RereadTyped(reread') /\ LiveIsPresent'
    <3>1. \A j \in Ids \ {i} : records'[j] = records[j]
      BY <1>1 DEF LibraryTypeOK, deleteHistoricalUW
    <3>. QED  BY <1>1, <3>1, DetachTyped DEF deleteHistoricalUW, LibrarySafe, RecordsSafe
  <2>. QED  BY <1>1, <2>1, Unsettled DEF deleteHistoricalUW, Settled, Affected
<1>3. outdated' \subseteq Types /\ outdated' \ outdated \subseteq pending' \cup untold'
  BY <1>1 DEF deleteHistoricalUW, Outdate, Affected, LibraryTypeOK
<1>. QED  BY <1>1, <1>2, <1>3, EditSafe DEF deleteHistoricalUW, persistUWs

(***************************************************************************)
(* An outcome written into a record, of whatever row.                      *)
(***************************************************************************)
Outcome(i, label, rows) ==
    [records[i] EXCEPT !.label = label, !.told = @ \cup rows]

LEMMA OutcomeFields ==
    ASSUME LibraryTypeOK, NEW i \in Ids, NEW label \in Labels,
           NEW rows \in SUBSET Rows, records[i] # NoRecord
    PROVE  /\ Outcome(i, label, rows) \in Records
           /\ Outcome(i, label, rows) # NoRecord
           /\ Outcome(i, label, rows).file = records[i].file
           /\ Outcome(i, label, rows).type = records[i].type
           /\ Outcome(i, label, rows).told = records[i].told \cup rows
<1>1. records[i] \in Records
  BY DEF LibraryTypeOK
<1>2. Outcome(i, label, rows) \in Records
  BY <1>1 DEF Records, Outcome
<1>3. Outcome(i, label, rows) # NoRecord
  BY <1>2, NoRecordAssumption
<1>4. /\ Outcome(i, label, rows).file = records[i].file
      /\ Outcome(i, label, rows).type = records[i].type
      /\ Outcome(i, label, rows).told = records[i].told \cup rows
  BY <1>1 DEF Records, Outcome
<1>. QED  BY <1>2, <1>3, <1>4

(***************************************************************************)
(* Writing an outcome changes the deals of the record's type only.         *)
(***************************************************************************)
LEMMA OutcomeAffects ==
    ASSUME LibraryTypeOK, NEW i \in Ids, NEW label \in Labels,
           NEW rows \in SUBSET Rows, records[i] # NoRecord,
           records' = [records EXCEPT ![i] = Outcome(i, label, rows)]
    PROVE  Affected(records, records') \subseteq {records[i].type}
<1>0. Outcome(i, label, rows).type = records[i].type
  BY OutcomeFields
<1>1. /\ records'[i].type = records[i].type
      /\ \A j \in Ids : j # i => records'[j] = records[j]
  BY <1>0 DEF LibraryTypeOK
<1>. QED  BY <1>1, AffectedByOne DEF Affected, qualifyingDeals, Present

LEMMA LabelSafe ==
    ASSUME LibrarySafe, NEW i \in Ids, NEW label \in Labels,
           NEW rows \in SUBSET Rows, records[i] # NoRecord,
           Label(i, label, rows),
           unmatched' \in [Rows -> {NoRow, Unlinked} \cup Ids],
           \A u \in Rows : unmatched'[u] # unmatched[u] =>
             unmatched'[u] = i /\ u \in rows,
           UNCHANGED <<calls, reread, rules, born, besides, kept, setBack,
                       untold, rereads, crashes>>
    PROVE  LibrarySafe'
<1>. DEFINE x == Outcome(i, label, rows)
<1>1. Made /\ LibraryTypeOK
  BY DEF LibrarySafe, RecordsSafe, Made
<1>2. /\ x \in Records /\ x # NoRecord /\ x.file = records[i].file
      /\ x.told = records[i].told \cup rows
  BY <1>1, OutcomeFields
<1>3. [records EXCEPT ![i].label = label,
                      ![i].told = records[i].told \cup rows]
        = [records EXCEPT ![i] = x]
  <2>1. records[i] \in Records
    BY <1>1 DEF LibraryTypeOK
  <2>. QED  BY <1>1, <2>1 DEF LibraryTypeOK, Records, Outcome
<1>4. records' = [records EXCEPT ![i] = x]
  BY <1>3 DEF Label
<1>5. Affected(records, records') \subseteq {records[i].type}
  BY <1>1, <1>4, OutcomeAffects
<1>6. /\ pending' = pending \cup {records[i].type} /\ saved' = records' /\ Outdate
  BY DEF Label, persistUWs, triggerBackgroundRuleUpdate
<1>7. records[i].type \in Types
  BY <1>1 DEF LibraryTypeOK, Records
<1>. HIDE DEF x
<1>8. Settled
  <2>1. \A j \in Ids : records[j] # NoRecord => records'[j] # NoRecord
    BY <1>1, <1>2, <1>4 DEF LibraryTypeOK
  <2>2. LiveIsPresent'
    BY <1>1, <2>1, LiveStep DEF LibrarySafe, RecordsSafe
  <2>. QED  BY <1>1, <1>6, <1>7, <2>2, Unsettled DEF Settled
<1>9. outdated' \subseteq Types /\ outdated' \ outdated \subseteq pending' \cup untold'
  BY <1>1, <1>5, <1>6 DEF LibraryTypeOK, Outdate, Affected
<1>. QED  BY <1>2, <1>4, <1>5, <1>6, <1>8, <1>9, EditSafe

LEMMA LinkSafe ==
    ASSUME LibrarySafe, NEW i \in Ids, NEW label \in Labels,
           \/ applyOutcomeMatch(i, label)
           \/ \E u \in Rows : linkUnmatchedOutcome(u, i, label)
    PROVE  LibrarySafe'
<1>1. Made /\ LibraryTypeOK
  BY DEF LibrarySafe, RecordsSafe, Made
<1>2. CASE applyOutcomeMatch(i, label)
  BY <1>1, <1>2, LabelSafe DEF applyOutcomeMatch, LibraryTypeOK
<1>3. CASE \E u \in Rows : linkUnmatchedOutcome(u, i, label)
  <2>1. PICK u \in Rows : linkUnmatchedOutcome(u, i, label)
    BY <1>3
  <2>2. /\ unmatched' \in [Rows -> {NoRow, Unlinked} \cup Ids]
        /\ \A v \in Rows : unmatched'[v] # unmatched[v] =>
             unmatched'[v] = i /\ v \in {u}
    BY <1>1, <2>1 DEF linkUnmatchedOutcome, LibraryTypeOK
  <2>. QED  BY <2>1, <2>2, LabelSafe DEF linkUnmatchedOutcome
<1>. QED  BY <1>2, <1>3

(***************************************************************************)
(* Rows of outcomes and rules.                                             *)
(***************************************************************************)
LEMMA RowsSafe ==
    ASSUME LibrarySafe, NEW u \in Rows,
           ingestDealOutcomes(u) \/ deleteUnmatchedOutcome(u)
    PROVE  LibrarySafe'
<1>1. Made /\ LibraryTypeOK
  BY DEF LibrarySafe, RecordsSafe, Made
<1>2. /\ unmatched' \in [Rows -> {NoRow, Unlinked} \cup Ids]
      /\ \A v \in Rows : unmatched'[v] \in {unmatched[v], NoRow, Unlinked}
      /\ UNCHANGED <<records, saved, calls, reread, pending, rules, outdated,
                     born, besides, kept, setBack, untold, rereads, crashes>>
  BY <1>1 DEF ingestDealOutcomes, deleteUnmatchedOutcome, LibraryTypeOK
<1>3. Settled
  <2>1. LiveIsPresent'
    BY <1>1, <1>2, LiveStep DEF LibrarySafe, RecordsSafe
  <2>. QED  BY <1>1, <1>2, <2>1, Unsettled DEF Settled
<1>4. StaleProposalsAreUntold'
  BY <1>2 DEF LibrarySafe, StaleProposalsAreUntold, qualifyingDeals, Present
<1>5. outdated' \subseteq Types
  BY <1>1, <1>2 DEF LibraryTypeOK
<1>. QED  BY <1>2, <1>3, <1>4, <1>5, StillSafe

LEMMA RulesSafe ==
    ASSUME LibrarySafe,
           backgroundRuleUpdate \/ \E t \in Types : generateRulesFromPatterns(t)
    PROVE  LibrarySafe'
<1>1. Made /\ LibraryTypeOK /\ StaleProposalsAreUntold
  BY DEF LibrarySafe, RecordsSafe, Made
<1>2. /\ UNCHANGED <<records, saved, unmatched, calls, reread, born, besides,
                     kept, setBack, rereads, crashes>>
      /\ pending' \subseteq pending
      /\ outdated' \subseteq outdated /\ untold' \subseteq untold
  BY DEF backgroundRuleUpdate, generateRulesFromPatterns, Regenerate,
     postIngestionIntelligenceUpdate
<1>3. Settled
  <2>1. rules' \in [Types -> SUBSET Standings]
    BY <1>1 DEF LibraryTypeOK, backgroundRuleUpdate, generateRulesFromPatterns,
       Regenerate, postIngestionIntelligenceUpdate, Standings
  <2>2. LiveIsPresent'
    BY <1>1, <1>2, LiveStep DEF LibrarySafe, RecordsSafe
  <2>. QED  BY <1>1, <1>2, <2>1, <2>2, Unsettled DEF Settled
<1>4. StaleProposalsAreUntold'
  <2>1. \A t \in Types : Cardinality(qualifyingDeals(records, t)) \in Nat
    BY DealsAreCounted
  <2>2. outdated \subseteq Types /\ Enough \in Nat /\ MinSample \in Nat
        /\ MinSample <= Enough
    BY <1>1, LibraryAssumption DEF LibraryTypeOK
  <2>3. CASE backgroundRuleUpdate
    <3>1. /\ Regenerate(pending, Enough) /\ UNCHANGED records
          /\ pending \ pending \subseteq pending'
      BY <2>3 DEF backgroundRuleUpdate, postIngestionIntelligenceUpdate
    <3>. QED  BY <1>1, <2>1, <2>2, <3>1, RegenerateStep
  <2>4. CASE \E t \in Types : generateRulesFromPatterns(t)
    <3>1. PICK t \in Types : generateRulesFromPatterns(t)
      BY <2>4
    <3>2. /\ Regenerate({t}, MinSample) /\ UNCHANGED records
          /\ pending \ {t} \subseteq pending'
      BY <3>1 DEF generateRulesFromPatterns
    <3>. QED  BY <1>1, <2>1, <2>2, <3>2, RegenerateStep
  <2>. QED  BY <2>3, <2>4
<1>5. outdated' \subseteq Types
  BY <1>1, <1>2 DEF LibraryTypeOK
<1>. QED  BY <1>2, <1>3, <1>4, <1>5, StillSafe

(***************************************************************************)
(* What a person does to the rules of a type.                              *)
(***************************************************************************)
LEMMA ReviewSafe ==
    ASSUME LibrarySafe, NEW t \in Types,
           \/ \E was, is \in Standings, wasLast \in BOOLEAN :
                updateLearnedRule(t, was, is, wasLast)
           \/ \E was \in Standings : deleteLearnedRule(t, was)
    PROVE  LibrarySafe'
<1>1. Made /\ LibraryTypeOK /\ StaleProposalsAreUntold
  BY DEF LibrarySafe, RecordsSafe, Made
<1>2. /\ UNCHANGED <<records, saved, unmatched, calls, reread, pending, born,
                     besides, kept, setBack, rereads, crashes>>
      /\ \/ outdated' = outdated \cup {t} /\ untold' = untold \cup {t}
         \/ UNCHANGED <<outdated, untold>>
  BY DEF updateLearnedRule, deleteLearnedRule, Rule
<1>3. rules' \in [Types -> SUBSET Standings]
  BY <1>1 DEF LibraryTypeOK, updateLearnedRule, deleteLearnedRule, Rule
<1>4. Settled
  <2>1. LiveIsPresent'
    BY <1>1, <1>2, LiveStep DEF LibrarySafe, RecordsSafe
  <2>2. untold' \subseteq Types
    BY <1>1, <1>2 DEF LibraryTypeOK
  <2>. QED  BY <1>1, <1>2, <1>3, <2>1, <2>2, Unsettled DEF Settled
<1>5. outdated' \subseteq Types
  BY <1>1, <1>2 DEF LibraryTypeOK
<1>6. StaleProposalsAreUntold'
  BY <1>1, <1>2 DEF StaleProposalsAreUntold, qualifyingDeals, Present
<1>. QED  BY <1>2, <1>4, <1>5, <1>6, StillSafe

(***************************************************************************)
(* A re-extraction, which changes a record only to set an old object back. *)
(***************************************************************************)
LEMMA ListSafe ==
    ASSUME LibrarySafe, reExtractAllNarratives
    PROVE  LibrarySafe'
<1>1. Made /\ LibraryTypeOK
  BY DEF LibrarySafe, RecordsSafe, Made
<1>. DEFINE n == rereads + 1
            listed == [i \in Present(records) |-> Live]
<1>2. RereadTyped(reread') /\ LiveIsPresent'
  <2>1. /\ UNCHANGED records
        /\ reread' = [reread EXCEPT ![n] = listed]
        /\ DOMAIN listed \subseteq Ids \cap 1 .. born
        /\ \A i \in DOMAIN listed : listed[i] = Live /\ records[i] # NoRecord
    BY <1>1 DEF LibraryTypeOK, reExtractAllNarratives, Present
  <2>. HIDE DEF listed, n
  <2>2. DOMAIN reread' = Rereads
        /\ \A k \in Rereads : reread'[k] \in {reread[k], listed}
    BY <1>1, <2>1 DEF LibraryTypeOK
  <2>3. RereadTyped(reread')
    BY <1>1, <2>1, <2>2 DEF LibraryTypeOK, Made, RereadTyped
  <2>4. LiveIsPresent'
    BY <2>1, <2>2 DEF LibrarySafe, RecordsSafe, LiveIsPresent
  <2>. QED  BY <2>3, <2>4
<1>3. rereads' \in 0 .. MaxRereads
  BY <1>1, LibraryAssumption DEF reExtractAllNarratives, LibraryTypeOK
<1>4. Settled
  BY <1>1, <1>2, <1>3, Unsettled DEF Settled, reExtractAllNarratives, Affected
<1>5. StaleProposalsAreUntold'
  BY DEF LibrarySafe, StaleProposalsAreUntold, qualifyingDeals, Present,
     reExtractAllNarratives
<1>6. outdated' \subseteq Types
  BY <1>1 DEF LibraryTypeOK, reExtractAllNarratives
<1>. QED  BY <1>4, <1>5, <1>6, StillSafe DEF reExtractAllNarratives

LEMMA SetSafe ==
    ASSUME LibrarySafe, NEW k \in Rereads, NEW i \in Ids,
           NEW answered \in BOOLEAN, NEW same \in BOOLEAN,
           setNarratives(k, i, answered, same)
    PROVE  LibrarySafe'
<1>. DEFINE old == IF answered THEN reread[k][i] ELSE Live
<1>1. /\ Made /\ LibraryTypeOK /\ StaleProposalsAreUntold /\ KeptStaysOnRecord
      /\ ToldIn(records) /\ ToldIn(saved) /\ OverlapsIn(records) /\ OverlapsIn(saved)
      /\ OneIsBeside /\ AutoIsUnseen
  BY DEF LibrarySafe, RecordsSafe, Made
<1>2. /\ i \in DOMAIN reread[k] /\ i \in 1 .. born
      /\ old \in Records \cup {Live}
  BY <1>1 DEF setNarratives, Made, LibraryTypeOK
<1>3. /\ reread' = [m \in Rereads |->
           IF m = k THEN [j \in DOMAIN reread[k] \ {i} |-> reread[k][j]]
           ELSE [j \in DOMAIN reread[m] |->
                   IF j = i THEN HeldBeside(old, i, reread[m][i], same)
                   ELSE reread[m][j]]]
      /\ records' = IF old = Live THEN records ELSE [records EXCEPT ![i] = old]
      /\ saved' = records' \/ saved' = saved
      /\ setBack' = IF old = Live THEN setBack ELSE setBack \cup {i}
      /\ Outdate /\ untold' = untold \cup Affected(records, records')
      /\ UNCHANGED <<unmatched, calls, pending, rules, born, besides, kept,
                     rereads, crashes>>
  BY DEF setNarratives
<1>. HIDE DEF old
<1>4. /\ records' \in [Ids -> Records \cup {NoRecord}]
      /\ \A j \in Ids : j \in setBack' \/ records'[j] = records[j]
      /\ \A j \in Ids : records[j] # NoRecord => records'[j] # NoRecord
      /\ Present(records') \subseteq 1 .. born
      /\ setBack \subseteq setBack' /\ setBack' \subseteq 1 .. born
  BY <1>1, <1>2, <1>3, NoRecordAssumption DEF LibraryTypeOK, Present
<1>5. Settled
  <2>1. RereadTyped(reread')
    <3>1. \A m \in Rereads :
            /\ DOMAIN reread'[m] \subseteq DOMAIN reread[m]
            /\ \A j \in DOMAIN reread'[m] :
                 \/ reread'[m][j] \in {reread[m][j], Live}
                 \/ j = i /\ reread[m][i] = Live /\ reread'[m][j] = records[i]
      BY <1>3 DEF HeldBeside
    <3>2. \A m \in Rereads : \A j \in DOMAIN reread'[m] :
            reread'[m][j] \in Records \cup {Live}
      <4>. SUFFICES ASSUME NEW m \in Rereads, NEW j \in DOMAIN reread'[m],
                           reread'[m][j] \notin Records \cup {Live}
                    PROVE  FALSE
        OBVIOUS
      <4>1. j = i /\ reread[m][i] = Live /\ reread'[m][j] = records[i]
            /\ i \in DOMAIN reread[m]
        BY <1>1, <3>1 DEF LibraryTypeOK
      <4>2. records[i] # NoRecord
        BY <4>1 DEF LibrarySafe, RecordsSafe, LiveIsPresent
      <4>. QED  BY <1>1, <4>1, <4>2 DEF LibraryTypeOK
    <3>3. DOMAIN reread' = Rereads
      BY <1>3
    <3>. QED  BY <1>1, <3>1, <3>2, <3>3 DEF Made, LibraryTypeOK, RereadTyped
  <2>2. LiveIsPresent'
    <3>1. \A m \in Rereads : \A j \in DOMAIN reread'[m] :
            reread'[m][j] = Live =>
              j \in DOMAIN reread[m] /\ (reread[m][j] = Live \/ (j = i /\ old # Live))
      BY <1>1, <1>2, <1>3, NoRecordAssumption DEF HeldBeside, LibraryTypeOK
    <3>2. old # Live => records'[i] # NoRecord
      BY <1>1, <1>2, <1>3, NoRecordAssumption DEF LibraryTypeOK
    <3>. SUFFICES ASSUME NEW m \in Rereads, NEW j \in DOMAIN reread'[m],
                         reread'[m][j] = Live
                  PROVE  records'[j] # NoRecord
      BY DEF LiveIsPresent
    <3>3. CASE j = i /\ old # Live
      BY <3>2, <3>3
    <3>4. CASE j \in DOMAIN reread[m] /\ reread[m][j] = Live
      <4>1. records[j] # NoRecord /\ j \in Ids
        BY <1>1, <3>4 DEF LibrarySafe, RecordsSafe, LiveIsPresent, LibraryTypeOK
      <4>. QED  BY <1>4, <4>1
    <3>. QED  BY <3>1, <3>3, <3>4
  <2>. QED  BY <1>1, <1>3, <2>1, <2>2, Unsettled DEF Settled, Affected
<1>6. Made'
  <2>1. LibraryTypeOK'
    <3>1. Present(records)' \subseteq 1 .. born
      BY <1>4 DEF Present
    <3>2. outdated' \subseteq Types
      BY <1>1, <1>3 DEF LibraryTypeOK, Outdate, Affected
    <3>3. /\ records' \in [Ids -> Records \cup {NoRecord}]
          /\ saved' \in [Ids -> Records \cup {NoRecord}]
          /\ born' = born /\ kept' = kept /\ besides' = besides
          /\ setBack' \subseteq 1 .. born
      BY <1>1, <1>3, <1>4 DEF LibraryTypeOK
    <3>. QED  BY <1>1, <1>5, <3>1, <3>2, <3>3 DEF LibraryTypeOK, Settled, RereadTyped
  <2>2. Present(saved)' \subseteq 1 .. born
    BY <1>1, <1>3, <1>4 DEF Made, Present
  <2>. QED  BY <1>1, <1>3, <1>5, <2>1, <2>2 DEF Made, Settled, RereadTyped
<1>7. KeptStaysOnRecord'
  <2>1. kept \subseteq Ids
    BY <1>1, LibraryAssumption DEF LibraryTypeOK, Ids
  <2>. QED  BY <1>1, <1>3, <1>4, <2>1 DEF KeptStaysOnRecord
<1>8. ToldIn(records)' /\ ToldIn(saved)'
  BY <1>1, <1>3, <1>4 DEF ToldIn
<1>9. FilesFrom(records, records')
  BY <1>4 DEF FilesFrom, Excused
<1>10. OverlapsIn(records)' /\ OverlapsIn(saved)'
  BY <1>1, <1>3, <1>4 DEF OverlapsIn, Excused
<1>11. OneIsBeside' /\ AutoIsUnseen'
  BY <1>1, <1>3, <1>4, <1>5, <1>9, CallStep DEF Settled
<1>12. StaleProposalsAreUntold'
  <2>1. /\ outdated' \subseteq Types
        /\ outdated' \ outdated \subseteq pending' \cup untold'
    BY <1>1, <1>3 DEF LibraryTypeOK, Outdate, Affected
  <2>. QED  BY <1>1, <1>3, <2>1, StaleStep
<1>. QED  BY <1>5, <1>6, <1>7, <1>8, <1>10, <1>11, <1>12 DEF LibrarySafe, RecordsSafe, Settled

-----------------------------------------------------------------------------
(***************************************************************************)
(* Process deaths: what the files say is as safe as what memory said.      *)
(***************************************************************************)
LEMMA ReloadSafe ==
    ASSUME LibrarySafe, NEW saidUWs, NEW saidRows,
           NEW saidRules \in [Types -> SUBSET Standings],
           Reload(saidUWs, saidRows, saidRules),
           saidUWs = saved \/ saidUWs = [i \in Ids |-> NoRecord],
           saidRows = unmatched \/ saidRows = [u \in Rows |-> NoRow],
           kept' \subseteq kept, \A i \in kept' : saidUWs[i] # NoRecord
    PROVE  LibrarySafe'
<1>. DEFINE lost == {t \in Types : saidRules[t] # rules[t]}
<1>1. /\ Made /\ LibraryTypeOK /\ StaleProposalsAreUntold /\ KeptStaysOnRecord
      /\ ToldIn(saved) /\ OverlapsIn(saved)
  BY DEF LibrarySafe, RecordsSafe, Made
<1>2. /\ crashes' = crashes + 1 /\ crashes < MaxCrashes
      /\ records' = saidUWs /\ saved' = saidUWs /\ unmatched' = saidRows
      /\ calls' = [c \in Callers |-> NoCall] /\ rules' = saidRules
      /\ reread' = [k \in Rereads |-> NothingToRead]
      /\ pending' = {}
      /\ outdated' = outdated \cup lost \cup Affected(records, records')
      /\ untold' = untold \cup pending \cup lost \cup Affected(records, records')
      /\ lost \subseteq Types
      /\ UNCHANGED <<born, besides, setBack, rereads>>
  BY DEF Reload
<1>. HIDE DEF lost
<1>3. /\ saidUWs \in [Ids -> Records \cup {NoRecord}]
      /\ \A i \in Ids : saidUWs[i] # NoRecord => saidUWs[i] = saved[i]
  BY <1>1 DEF LibraryTypeOK
<1>4. /\ saidRows \in [Rows -> {NoRow, Unlinked} \cup Ids]
      /\ \A u \in Rows : saidRows[u] \in {unmatched[u], NoRow}
  BY <1>1 DEF LibraryTypeOK
<1>5. Present(saidUWs) \subseteq 1 .. born
  BY <1>1, <1>3 DEF Made, Present
<1>6. Settled
  <2>1. crashes' \in 0 .. MaxCrashes
    BY <1>1, <1>2, LibraryAssumption DEF LibraryTypeOK
  <2>2. RereadTyped(reread') /\ LiveIsPresent'
    BY <1>2 DEF RereadTyped, LiveIsPresent, NothingToRead
  <2>3. untold' \subseteq Types
    BY <1>1, <1>2 DEF LibraryTypeOK, Affected
  <2>. QED  BY <1>1, <1>2, <1>4, <2>1, <2>2, <2>3 DEF Settled, LibraryTypeOK
<1>7. Made'
  <2>1. Present(records)' \subseteq 1 .. born /\ Present(saved)' \subseteq 1 .. born
    BY <1>2, <1>5 DEF Present
  <2>2. LibraryTypeOK'
    BY <1>1, <1>2, <1>3, <1>6, <2>1 DEF LibraryTypeOK, Settled, RereadTyped, Affected
  <2>. QED  BY <1>1, <1>2, <1>4, <1>6, <2>1, <2>2 DEF Made, Settled, RereadTyped
<1>8. KeptStaysOnRecord'
  BY <1>2 DEF KeptStaysOnRecord
<1>9. ToldIn(records)' /\ ToldIn(saved)'
  <2>1. \A u \in Rows, i \in Ids : saidRows[u] = i => unmatched[u] = i
    BY <1>4, NoCallAssumption
  <2>. QED  BY <1>1, <1>2, <1>3, <2>1 DEF ToldIn
<1>10. OverlapsIn(records)' /\ OverlapsIn(saved)'
  BY <1>1, <1>2, <1>3 DEF OverlapsIn, Excused
<1>11. OneIsBeside' /\ AutoIsUnseen'
  BY <1>2 DEF OneIsBeside, AutoIsUnseen
<1>12. StaleProposalsAreUntold'
  <2>1. /\ outdated' \subseteq Types
        /\ outdated' \ outdated \subseteq pending' \cup untold'
    BY <1>1, <1>2 DEF LibraryTypeOK, Affected
  <2>. QED  BY <1>1, <1>2, <2>1, StaleStep
<1>. QED  BY <1>6, <1>7, <1>8, <1>9, <1>10, <1>11, <1>12 DEF LibrarySafe, RecordsSafe, Settled

LEMMA RestartLinkingSafe ==
    ASSUME LibrarySafe, NEW u \in Rows, NEW i \in Ids, NEW label \in Labels,
           RestartLinking(u, i, label)
    PROVE  LibrarySafe'
<1>. DEFINE x == Outcome(i, label, {u})
<1>1. Made /\ LibraryTypeOK /\ records[i] # NoRecord /\ records[i] \in Records
  BY DEF LibrarySafe, RecordsSafe, Made, LibraryTypeOK, RestartLinking
<1>2. /\ x \in Records /\ x # NoRecord /\ x.file = records[i].file
      /\ x.told = records[i].told \cup {u}
  BY <1>1, OutcomeFields
<1>3. [records EXCEPT ![i].label = label, ![i].told = records[i].told \cup {u}]
        = [records EXCEPT ![i] = x]
  BY <1>1 DEF LibraryTypeOK, Records, Outcome
<1>4. /\ records' = [records EXCEPT ![i] = x] /\ saved' = records'
      /\ crashes' = crashes + 1 /\ crashes < MaxCrashes
      /\ calls' = [c \in Callers |-> NoCall]
      /\ reread' = [k \in Rereads |-> NothingToRead]
      /\ pending' = {}
      /\ outdated' = outdated \cup Affected(records, records')
      /\ untold' = untold \cup pending \cup Affected(records, records')
      /\ UNCHANGED <<unmatched, rules, kept, born, besides, setBack, rereads>>
  BY <1>3 DEF RestartLinking, Reload
<1>. HIDE DEF x
<1>5. Settled
  <2>1. crashes' \in 0 .. MaxCrashes
    BY <1>1, <1>4, LibraryAssumption DEF LibraryTypeOK
  <2>2. RereadTyped(reread') /\ LiveIsPresent'
    BY <1>4 DEF RereadTyped, LiveIsPresent, NothingToRead
  <2>. QED  BY <1>1, <1>4, <2>1, <2>2 DEF Settled, LibraryTypeOK, Affected
<1>6. outdated' \subseteq Types /\ outdated' \ outdated \subseteq pending' \cup untold'
  BY <1>1, <1>4 DEF LibraryTypeOK, Affected
<1>. QED  BY <1>1, <1>2, <1>4, <1>5, <1>6, EditSafe

LEMMA DieSafe ==
    ASSUME LibrarySafe, Die
    PROVE  LibrarySafe'
<1>1. /\ KeptStaysOnRecord /\ kept \subseteq Ids
      /\ rules \in [Types -> SUBSET Standings]
  BY LibraryAssumption DEF LibrarySafe, RecordsSafe, Made, LibraryTypeOK, Ids
<1>2. CASE Restart
  BY <1>1, <1>2, ReloadSafe DEF Restart, KeptStaysOnRecord
<1>3. CASE RestartTorn
  BY <1>1, <1>3, ReloadSafe DEF RestartTorn, KeptStaysOnRecord
<1>4. CASE \E u \in Rows, i \in Ids, label \in Labels : RestartLinking(u, i, label)
  BY <1>4, RestartLinkingSafe
<1>. QED  BY <1>2, <1>3, <1>4 DEF Die

LEMMA IngestSafe ==
    ASSUME LibrarySafe, NEW c \in Callers, Ingest(c)
    PROVE  LibrarySafe'
<1>1. CASE \E f \in Files : ingestUnderwriting(c, f) \/ ingestAutoClassified(c, f)
  BY <1>1, WaitSafe DEF ingestUnderwriting, ingestAutoClassified
<1>2. CASE \E t \in Types, label \in Labels : insert(c, t, label)
  BY <1>2, InsertSafe
<1>3. CASE skip(c) \/ throw(c)
  BY <1>3, LeaveSafe
<1>. QED  BY <1>1, <1>2, <1>3 DEF Ingest

LEMMA CurateSafe ==
    ASSUME LibrarySafe, Curate
    PROVE  LibrarySafe'
BY UpdateSafe, DeleteSafe, LinkSafe, SetSafe, RowsSafe, RulesSafe, ReviewSafe,
   ListSafe
   DEF Curate

LEMMA InitSafe ==
    ASSUME LibraryInit
    PROVE  LibrarySafe
<1>1. /\ 0 \in 0 .. MaxRecords /\ 0 \in 0 .. MaxRereads /\ 0 \in 0 .. MaxCrashes
  BY LibraryAssumption
<1>2. Present(records) = {} /\ Present(saved) = {}
  BY DEF LibraryInit, Present
<1>3. Made /\ LiveIsPresent
  BY <1>1, <1>2 DEF LibraryInit, Made, LibraryTypeOK, NothingToRead, LiveIsPresent
<1>. QED  BY <1>3 DEF LibraryInit, LibrarySafe, RecordsSafe, KeptStaysOnRecord,
             ToldIn, OverlapsIn, OneIsBeside, AutoIsUnseen, StaleProposalsAreUntold

LEMMA StutterSafe ==
    ASSUME LibrarySafe, UNCHANGED libraryVars
    PROVE  LibrarySafe'
BY DEF LibrarySafe, RecordsSafe, Made, LibraryTypeOK, KeptStaysOnRecord, ToldIn,
   LiveIsPresent, OverlapsIn, Excused, OneIsBeside, AutoIsUnseen, Unseen, StaleProposalsAreUntold,
   qualifyingDeals, Present, libraryVars

-----------------------------------------------------------------------------
(***************************************************************************)
(* What the invariant says.                                                *)
(***************************************************************************)
LEMMA SafeImplies ==
    ASSUME LibrarySafe
    PROVE  /\ KeptStaysOnRecord /\ LinkedMeansTold /\ StaleProposalsAreUntold
           /\ DuplicatesAreOverlaps
<1>1. DuplicatesAreOverlaps
  <2>. SUFFICES ASSUME NEW i \in Present(records), NEW j \in Present(records),
                       i < j, records[i].file = records[j].file
                PROVE  {i, j} \cap (besides \cup setBack) # {}
    BY DEF DuplicatesAreOverlaps, Twins
  <2>1. i # j /\ i \in Ids /\ j \in Ids
    BY DEF Present, Ids
  <2>. QED  BY <2>1 DEF LibrarySafe, RecordsSafe, OverlapsIn, Excused, Present
<1>2. LinkedMeansTold
  BY DEF LibrarySafe, RecordsSafe, ToldIn, LinkedMeansTold
<1>. QED  BY <1>1, <1>2 DEF LibrarySafe, RecordsSafe

(***************************************************************************)
(* The invariant holds at all times.                                       *)
(***************************************************************************)
THEOREM LibraryInvariant == LibrarySpec => []LibrarySafe
<1>1. LibraryInit => LibrarySafe
  BY InitSafe
<1>2. LibrarySafe /\ [LibraryNext]_libraryVars => LibrarySafe'
  BY IngestSafe, CurateSafe, DieSafe, StutterSafe DEF LibraryNext
<1>. QED  BY <1>1, <1>2, PTL DEF LibrarySpec

(***************************************************************************)
(* A record that was answered for stays through every restart.             *)
(***************************************************************************)
THEOREM RecordsKept == LibrarySpec => []KeptStaysOnRecord
BY LibraryInvariant, SafeImplies, PTL

(***************************************************************************)
(* An outcome that counts as linked is in its record, although the two are *)
(* in two files and the process may die between them.                      *)
(***************************************************************************)
THEOREM LinksTold == LibrarySpec => []LinkedMeansTold
BY LibraryInvariant, SafeImplies, PTL

(***************************************************************************)
(* The rules that are up for approval lag only behind changes that do not  *)
(* set the timer.                                                          *)
(***************************************************************************)
THEOREM StaleProposalsUntold == LibrarySpec => []StaleProposalsAreUntold
BY LibraryInvariant, SafeImplies, PTL

(***************************************************************************)
(* A file is in the library twice only by overlapping ingestions of it, or *)
(* by a re-extraction.                                                     *)
(***************************************************************************)
THEOREM DuplicatesOverlap == LibrarySpec => []DuplicatesAreOverlaps
BY LibraryInvariant, SafeImplies, PTL

=============================================================================
