------------------------------ MODULE UwLibrary ------------------------------
(***************************************************************************)
(* The library of historical underwritings that rules are learnt from      *)
(* (services/uw-intelligence.service.ts): files are ingested, their deals  *)
(* get outcomes, are edited, deleted, read again by the model, and the     *)
(* rules of an asset type are recomputed two seconds after the last change *)
(* that asks for it.                                                       *)
(*                                                                         *)
(* The records are objects in a Map, written to one JSON file; a handler   *)
(* runs without interruption between its awaits, which are the parsing and *)
(* the model's answer.  A re-extraction holds the objects it read at its   *)
(* start: changes made in place reach it, a record that is replaced or     *)
(* deleted leaves it with the object that was.                             *)
(*                                                                         *)
(* The rules that are made for a type are proposals.  A person approves    *)
(* them, and only what is approved is applied to deals.  Rules made anew   *)
(* take the place of the proposals; what is approved stays as it was made, *)
(* however the deals have changed since.                                   *)
(*                                                                         *)
(* Files are of single deals, whose data is complete, an outcomes sheet    *)
(* has one row, and rules are of one asset type.                           *)
(***************************************************************************)
EXTENDS Naturals, FiniteSets

CONSTANTS
    Files,       \* contents, by their hash
    DealOf,      \* DealOf[f]: name and loan amount, as findDuplicates compares
    Types,       \* asset types
    Labels,      \* outcomes of deals
    Rows,        \* rows of outcomes sheets
    Callers,     \* requests and the batch worker
    MinSample,   \* MIN_SAMPLE_SIZE: the fewest deals that rules are made from
    Enough,      \* deals from which a pattern is more than of low confidence
    NoRecord, NoCall, NoRow, Live,
    MaxRecords, MaxRereads, MaxCrashes    \* bounds

ASSUME LibraryAssumption ==
    /\ IsFiniteSet(Files) /\ IsFiniteSet(Callers) /\ DOMAIN DealOf = Files
    /\ MinSample \in Nat /\ Enough \in Nat /\ MinSample <= Enough
    /\ MaxRecords \in Nat /\ MaxRereads \in Nat /\ MaxCrashes \in Nat

VARIABLES
    records,    \* historicalUWs: records[i], NoRecord when there is none
    saved,      \* the records as UW_FILE has them
    unmatched,  \* unmatched[u]: NoRow, Unlinked, or the record it is linked to
    calls,      \* calls[c]: the ingestion that c waits in
    reread,     \* what re-extractions have yet to read: Live or an old object
    pending,    \* _pendingAssetTypes; the timer is set when there are any
    rules,      \* learnedRules, in memory and in RULES_FILE: the standings
                \* that the rules of a type have
    outdated,   \* types with proposals of other deals than the type has now
    born,       \* how many records were ever made
    besides,    \* history: records whose ingestion began beside another of
                \* the same file
    kept,       \* history: records answered for and neither deleted nor torn
    setBack,    \* history: records that a re-extraction put an old object in
    untold,     \* history: types changed since their proposals with no
                \* timer set
    rereads, crashes

libraryVars ==
    <<records, saved, unmatched, calls, reread, pending, rules, outdated,
      born, besides, kept, setBack, untold, rereads, crashes>>

-----------------------------------------------------------------------------
Ids == 1 .. MaxRecords

Unlinked == 0

(***************************************************************************)
(* told is a history: the rows whose outcome was written into the record.  *)
(***************************************************************************)
Records ==
    [file : Files, type : Types, label : Labels, told : SUBSET Rows]

ASSUME NoRecordAssumption == NoRecord \notin Records /\ Live \notin Records

Ingestions == [how : {"upload", "auto"}, file : Files, beside : BOOLEAN]

Standings == {"proposed", "approved"}

Rereads == 1 .. MaxRereads

NothingToRead == [i \in {} |-> Live]

ASSUME NoCallAssumption ==
    NoCall \notin Ingestions /\ NoRow \notin Ids \cup {Unlinked}

Present(recs) == {i \in Ids : recs[i] # NoRecord}

(***************************************************************************)
(* An exact duplicate hides the probable ones.                             *)
(***************************************************************************)
exactDuplicates(f) == {i \in Present(records) : records[i].file = f}

findDuplicates(f) ==
    [exact |-> exactDuplicates(f),
     probable |->
       IF exactDuplicates(f) # {} THEN {}
       ELSE {i \in Present(records) : DealOf[records[i].file] = DealOf[f]}]

qualifyingDeals(recs, t) ==
    {<<i, recs[i].label>> : i \in {j \in Present(recs) : recs[j].type = t}}

Affected(was, is) ==
    {t \in Types : qualifyingDeals(was, t) # qualifyingDeals(is, t)}

(***************************************************************************)
(* Rules are made for those of the types that have at least so many deals; *)
(* those of the others stay as they are.  Of the rules that the type had,  *)
(* the approved ones stay as they are too; all others make way.            *)
(***************************************************************************)
Regenerate(types, atLeast) ==
    LET ready == {t \in types :
                    Cardinality(qualifyingDeals(records, t)) >= atLeast}
    IN  /\ rules' = [t \in Types |->
             IF t \in ready THEN rules[t] \cup {"proposed"} ELSE rules[t]]
        /\ outdated' = outdated \ ready
        /\ untold' = untold \ ready

postIngestionIntelligenceUpdate(types) == Regenerate(types, Enough)

triggerBackgroundRuleUpdate(t) == pending' = pending \cup {t}

persistUWs == saved' = records'

Outdate == outdated' = outdated \cup Affected(records, records')

(***************************************************************************)
(* A re-extraction keeps the object that a record had when it was replaced *)
(* or deleted.                                                             *)
(***************************************************************************)
Detach(i) ==
    reread' = [k \in Rereads |-> [j \in DOMAIN reread[k] |->
      IF j = i /\ reread[k][j] = Live THEN records[i] ELSE reread[k][j]]]

-----------------------------------------------------------------------------
LibraryInit ==
    /\ records = [i \in Ids |-> NoRecord]
    /\ saved = records
    /\ unmatched = [u \in Rows |-> NoRow]
    /\ calls = [c \in Callers |-> NoCall]
    /\ reread = [k \in Rereads |-> NothingToRead]
    /\ pending = {} /\ rules = [t \in Types |-> {}]
    /\ born = 0 /\ besides = {} /\ kept = {} /\ setBack = {}
    /\ outdated = {} /\ untold = {}
    /\ rereads = 0 /\ crashes = 0

(***************************************************************************)
(* An ingestion up to its awaits.  The automatic one is over when the file *)
(* is in the library already; the other looks for duplicates afterwards.   *)
(***************************************************************************)
Begin(c, how, f) ==
    calls' = [calls EXCEPT ![c] =
      [how |-> how, file |-> f,
       beside |-> \E d \in Callers : calls[d] # NoCall /\ calls[d].file = f]]

Wait(c, how, f) ==
    /\ Begin(c, how, f)
    /\ UNCHANGED <<records, saved, unmatched, reread, pending, rules, outdated,
                   born, besides, kept, setBack, untold, rereads, crashes>>

ingestUnderwriting(c, f) == calls[c] = NoCall /\ Wait(c, "upload", f)

\* A faulty variant: the hash is left to the look after the awaits.
ingestUnchecked(c, f) == calls[c] = NoCall /\ Wait(c, "auto", f)

ingestAutoClassified(c, f) ==
    /\ calls[c] = NoCall
    /\ exactDuplicates(f) = {}
    /\ Wait(c, "auto", f)

(***************************************************************************)
(* ... and after them.  Whether the file has arrived meanwhile matters to  *)
(* the upload only.                                                        *)
(***************************************************************************)
IsSkipped(c) ==
    LET dupes == findDuplicates(calls[c].file)
    IN  \/ dupes.probable # {}
        \/ calls[c].how = "upload" /\ dupes.exact # {}

Leave(c) == calls' = [calls EXCEPT ![c] = NoCall]

skip(c) ==
    /\ calls[c] # NoCall /\ IsSkipped(c)
    /\ Leave(c)
    /\ UNCHANGED <<records, saved, unmatched, reread, pending, rules, outdated,
                   born, besides, kept, setBack, untold, rereads, crashes>>

\* A faulty variant: the file is left to the next write.
addWithoutPersist(c, t, label) ==
    /\ records' = [records EXCEPT ![born + 1] =
         [file |-> calls[c].file, type |-> t, label |-> label, told |-> {}]]
    /\ kept' = kept \cup {born + 1} /\ born' = born + 1
    /\ besides' = IF calls[c].beside THEN besides \cup {born + 1} ELSE besides
    /\ Outdate
    /\ triggerBackgroundRuleUpdate(t)
    /\ Leave(c)
    /\ UNCHANGED <<saved, unmatched, reread, rules, setBack, untold, rereads,
                   crashes>>

add(c, t, label) ==
    /\ records' = [records EXCEPT ![born + 1] =
         [file |-> calls[c].file, type |-> t, label |-> label, told |-> {}]]
    /\ persistUWs /\ Outdate
    /\ kept' = kept \cup {born + 1} /\ born' = born + 1
    /\ besides' = IF calls[c].beside THEN besides \cup {born + 1} ELSE besides
    /\ triggerBackgroundRuleUpdate(t)
    /\ Leave(c)
    /\ UNCHANGED <<unmatched, reread, rules, setBack, untold, rereads, crashes>>

insert(c, t, label) ==
    /\ calls[c] # NoCall /\ ~IsSkipped(c) /\ born < MaxRecords
    /\ add(c, t, label)

throw(c) ==
    /\ calls[c] # NoCall
    /\ Leave(c)
    /\ UNCHANGED <<records, saved, unmatched, reread, pending, rules, outdated,
                   born, besides, kept, setBack, untold, rereads, crashes>>

(***************************************************************************)
(* PUT and DELETE of a record.  Neither asks for new rules.                *)
(***************************************************************************)
updateHistoricalUW(i, t, label) ==
    /\ records[i] # NoRecord
    /\ records' = [records EXCEPT ![i].type = t, ![i].label = label]
    /\ persistUWs /\ Outdate /\ Detach(i)
    /\ untold' = untold \cup Affected(records, records')
    /\ UNCHANGED <<unmatched, calls, pending, rules, born, besides, kept,
                   setBack, rereads, crashes>>

deleteHistoricalUW(i) ==
    /\ records[i] # NoRecord
    /\ records' = [records EXCEPT ![i] = NoRecord]
    /\ persistUWs /\ Outdate /\ Detach(i)
    /\ kept' = kept \ {i}
    /\ untold' = untold \cup Affected(records, records')
    /\ UNCHANGED <<unmatched, calls, pending, rules, born, besides, setBack,
                   rereads, crashes>>

(***************************************************************************)
(* Outcomes are written into the record, in place.                         *)
(***************************************************************************)
Label(i, label, rows) ==
    /\ records' = [records EXCEPT ![i].label = label,
                                  ![i].told = records[i].told \cup rows]
    /\ persistUWs /\ Outdate
    /\ triggerBackgroundRuleUpdate(records[i].type)

applyOutcomeMatch(i, label) ==
    /\ records[i] # NoRecord
    /\ Label(i, label, {})
    /\ UNCHANGED <<unmatched, calls, reread, rules, born, besides, kept,
                   setBack, untold, rereads, crashes>>

(***************************************************************************)
(* A row of an outcomes sheet that matches no record is kept for linking;  *)
(* one that matches well enough is applied, as above, and one in between   *)
(* is left to applyOutcomeMatch.                                           *)
(***************************************************************************)
ingestDealOutcomes(u) ==
    /\ unmatched[u] = NoRow
    /\ unmatched' = [unmatched EXCEPT ![u] = Unlinked]
    /\ UNCHANGED <<records, saved, calls, reread, pending, rules, outdated,
                   born, besides, kept, setBack, untold, rereads, crashes>>

\* A faulty variant: no new rules are asked for.
linkWithoutTrigger(u, i, label) ==
    /\ unmatched[u] # NoRow /\ records[i] # NoRecord
    /\ records' = [records EXCEPT ![i].label = label,
                                  ![i].told = records[i].told \cup {u}]
    /\ persistUWs /\ Outdate
    /\ unmatched' = [unmatched EXCEPT ![u] = i]
    /\ UNCHANGED <<calls, reread, pending, rules, born, besides, kept,
                   setBack, untold, rereads, crashes>>

linkUnmatchedOutcome(u, i, label) ==
    /\ unmatched[u] # NoRow /\ records[i] # NoRecord
    /\ Label(i, label, {u})
    /\ unmatched' = [unmatched EXCEPT ![u] = i]
    /\ UNCHANGED <<calls, reread, rules, born, besides, kept, setBack,
                   untold, rereads, crashes>>

deleteUnmatchedOutcome(u) ==
    /\ unmatched[u] # NoRow
    /\ unmatched' = [unmatched EXCEPT ![u] = NoRow]
    /\ UNCHANGED <<records, saved, calls, reread, pending, rules, outdated,
                   born, besides, kept, setBack, untold, rereads, crashes>>

(***************************************************************************)
(* POST /re-extract: the objects are listed, then each is read by the      *)
(* model and set again, and the file is written at the end.  Requests may  *)
(* overlap: what is set again takes the place of what another one reads,   *)
(* unless they are the same object, as two that look alike may be.         *)
(***************************************************************************)
reExtractAllNarratives ==
    /\ Present(records) # {}
    /\ rereads < MaxRereads /\ rereads' = rereads + 1
    /\ reread' = [reread EXCEPT
         ![rereads + 1] = [i \in Present(records) |-> Live]]
    /\ UNCHANGED <<records, saved, unmatched, calls, pending, rules, outdated,
                   born, besides, kept, setBack, untold, crashes>>

HeldBeside(old, i, held, same) ==
    IF old = Live THEN held
    ELSE IF held = Live THEN records[i]
    ELSE IF held = old /\ same THEN Live ELSE held

setNarratives(k, i, answered, same) ==
    LET rest == DOMAIN reread[k] \ {i}
        old == IF answered THEN reread[k][i] ELSE Live
    IN  /\ i \in DOMAIN reread[k]
        /\ reread' = [m \in Rereads |->
             IF m = k THEN [j \in rest |-> reread[k][j]]
             ELSE [j \in DOMAIN reread[m] |->
                     IF j = i THEN HeldBeside(old, i, reread[m][i], same)
                     ELSE reread[m][j]]]
        /\ records' = IF old = Live THEN records
                      ELSE [records EXCEPT ![i] = old]
        /\ saved' = IF rest = {} THEN records' ELSE saved
        /\ setBack' = IF old = Live THEN setBack ELSE setBack \cup {i}
        /\ Outdate
        /\ untold' = untold \cup Affected(records, records')
        /\ UNCHANGED <<unmatched, calls, pending, rules, born, besides, kept,
                       rereads, crashes>>

(***************************************************************************)
(* The timer, two seconds after the last trigger; and the rules asked for  *)
(* by POST /rules/generate, for which fewer deals do.                      *)
(***************************************************************************)
backgroundRuleUpdate ==
    /\ pending # {}
    /\ postIngestionIntelligenceUpdate(pending)
    /\ pending' = {}
    /\ UNCHANGED <<records, saved, unmatched, calls, reread, born, besides,
                   kept, setBack, rereads, crashes>>

generateRulesFromPatterns(t) ==
    /\ Regenerate({t}, MinSample)
    /\ UNCHANGED <<records, saved, unmatched, calls, reread, pending, born,
                   besides, kept, setBack, rereads, crashes>>

(***************************************************************************)
(* A person approves a rule, takes an approval back, or deletes a rule,    *)
(* which may have been the last of its standing.  A rule whose approval is *)
(* taken back is a proposal of the deals that there once were.             *)
(***************************************************************************)
Rule(t, standings) ==
    /\ rules' = [rules EXCEPT ![t] = standings]
    /\ UNCHANGED <<records, saved, unmatched, calls, reread, pending, born,
                   besides, kept, setBack, rereads, crashes>>

updateLearnedRule(t, was, is, wasLast) ==
    /\ was \in rules[t] /\ was # is
    /\ Rule(t, (IF wasLast THEN rules[t] \ {was} ELSE rules[t]) \cup {is})
    /\ IF is = "proposed"
       THEN outdated' = outdated \cup {t} /\ untold' = untold \cup {t}
       ELSE UNCHANGED <<outdated, untold>>

deleteLearnedRule(t, was) ==
    /\ was \in rules[t]
    /\ Rule(t, rules[t] \ {was})
    /\ UNCHANGED <<outdated, untold>>

(***************************************************************************)
(* The process dies and starts again from what its files say; saidUWs,     *)
(* saidRows and saidRules are what they do.                                *)
(***************************************************************************)
Reload(saidUWs, saidRows, saidRules) ==
    LET lost == {t \in Types : saidRules[t] # rules[t]}
    IN  /\ crashes < MaxCrashes
        /\ crashes' = crashes + 1
        /\ records' = saidUWs /\ saved' = saidUWs
        /\ unmatched' = saidRows
        /\ rules' = saidRules
        /\ calls' = [c \in Callers |-> NoCall]
        /\ reread' = [k \in Rereads |-> NothingToRead]
        /\ pending' = {}
        /\ outdated' = outdated \cup lost \cup Affected(records, records')
        /\ untold' = untold \cup pending \cup lost
                            \cup Affected(records, records')
        /\ UNCHANGED <<born, besides, setBack, rereads>>

Restart == Reload(saved, unmatched, rules) /\ UNCHANGED kept

(***************************************************************************)
(* It dies while it writes one of the files: what does not parse counts as *)
(* empty, and the next write replaces it.                                  *)
(***************************************************************************)
RestartTorn ==
    \/ /\ Reload([i \in Ids |-> NoRecord], unmatched, rules)
       /\ kept' = {}
    \/ /\ \/ Reload(saved, [u \in Rows |-> NoRow], rules)
          \/ Reload(saved, unmatched, [t \in Types |-> {}])
       /\ UNCHANGED kept

(***************************************************************************)
(* It dies between the two files that linking an outcome writes.           *)
(***************************************************************************)
\* A faulty variant: the files are written in the other order.
rowsBeforeRecords(u, i, label) ==
    /\ unmatched[u] # NoRow /\ records[i] # NoRecord
    /\ Reload(saved, [unmatched EXCEPT ![u] = i], rules)
    /\ UNCHANGED kept

RestartLinking(u, i, label) ==
    /\ unmatched[u] # NoRow /\ records[i] # NoRecord
    /\ Reload([records EXCEPT ![i].label = label,
                              ![i].told = records[i].told \cup {u}],
              unmatched, rules)
    /\ UNCHANGED kept

(***************************************************************************)
(* What requests do, c being one of them.                                  *)
(***************************************************************************)
Ingest(c) ==
    \/ \E f \in Files : ingestUnderwriting(c, f) \/ ingestAutoClassified(c, f)
    \/ \E t \in Types, label \in Labels : insert(c, t, label)
    \/ skip(c)
    \/ throw(c)

Curate ==
    \/ \E i \in Ids :
         \/ \E t \in Types, label \in Labels : updateHistoricalUW(i, t, label)
         \/ \E label \in Labels :
              \/ applyOutcomeMatch(i, label)
              \/ \E u \in Rows : linkUnmatchedOutcome(u, i, label)
         \/ \E k \in Rereads, answered, same \in BOOLEAN :
              setNarratives(k, i, answered, same)
         \/ deleteHistoricalUW(i)
    \/ \E u \in Rows : ingestDealOutcomes(u) \/ deleteUnmatchedOutcome(u)
    \/ \E t \in Types :
         \/ generateRulesFromPatterns(t)
         \/ \E was \in Standings :
              \/ \E is \in Standings, wasLast \in BOOLEAN :
                   updateLearnedRule(t, was, is, wasLast)
              \/ deleteLearnedRule(t, was)
    \/ reExtractAllNarratives
    \/ backgroundRuleUpdate

Die ==
    \/ Restart
    \/ RestartTorn
    \/ \E u \in Rows, i \in Ids, label \in Labels : RestartLinking(u, i, label)

LibraryNext == (\E c \in Callers : Ingest(c)) \/ Curate \/ Die

LibrarySpec == LibraryInit /\ [][LibraryNext]_libraryVars

-----------------------------------------------------------------------------
(***************************************************************************)
(* The type of the state.                                                  *)
(***************************************************************************)
LibraryTypeOK ==
    /\ records \in [Ids -> Records \cup {NoRecord}]
    /\ saved \in [Ids -> Records \cup {NoRecord}]
    /\ unmatched \in [Rows -> {NoRow, Unlinked} \cup Ids]
    /\ calls \in [Callers -> Ingestions \cup {NoCall}]
    /\ DOMAIN reread = Rereads
    /\ \A k \in Rereads :
         /\ DOMAIN reread[k] \subseteq Ids
         /\ \A i \in DOMAIN reread[k] : reread[k][i] \in Records \cup {Live}
    /\ rules \in [Types -> SUBSET Standings]
    /\ pending \subseteq Types /\ untold \subseteq Types
    /\ outdated \subseteq Types
    /\ born \in 0 .. MaxRecords /\ rereads \in 0 .. MaxRereads
    /\ crashes \in 0 .. MaxCrashes
    /\ kept \subseteq 1 .. born /\ besides \subseteq 1 .. born
    /\ Present(records) \subseteq 1 .. born /\ setBack \subseteq 1 .. born

(***************************************************************************)
(* Of two records of one file, one was ingested beside another ingestion   *)
(* of it, or was put back by a re-extraction after its deletion.           *)
(***************************************************************************)
Twins ==
    {p \in Present(records) \X Present(records) :
       p[1] < p[2] /\ records[p[1]].file = records[p[2]].file}

DuplicatesAreOverlaps ==
    \A p \in Twins : {p[1], p[2]} \cap (besides \cup setBack) # {}

(***************************************************************************)
(* A record that was answered for stays through every restart until it is  *)
(* deleted, unless the process died writing the file.                      *)
(***************************************************************************)
KeptStaysOnRecord ==
    \A i \in kept : records[i] # NoRecord /\ saved[i] # NoRecord

(***************************************************************************)
(* An outcome row that counts as linked, and no longer asks to be, is in   *)
(* its record, wherever the process died; only a re-extraction that put an *)
(* older object back can have undone it.                                   *)
(***************************************************************************)
LinkedMeansTold ==
    \A u \in Rows, i \in Ids :
      unmatched[u] = i /\ records[i] # NoRecord /\ i \notin setBack =>
        u \in records[i].told

(***************************************************************************)
(* What is up for approval, in an asset type with enough deals, was made   *)
(* from the deals and outcomes that are in the library, or will be when    *)
(* the timer fires.  It lags only behind what does not set the timer:      *)
(* edits, deletions, re-extractions, approvals taken back; and behind a    *)
(* restart, which forgets the timer and may find the rules' file torn.  It *)
(* says nothing of the rules that are approved already, which are never    *)
(* made anew.                                                              *)
(***************************************************************************)
StaleProposalsAreUntold ==
    \A t \in outdated :
      Cardinality(qualifyingDeals(records, t)) >= Enough =>
        t \in pending \cup untold

=============================================================================
