---------------------------- MODULE DealRevision ----------------------------
(***************************************************************************)
(* The revision lineage of a loan's deal: the envelopes in the record      *)
(* graph, the deal's row in analyses whose graph_revision_id is its head,  *)
(* the raw documents kept per lineage, and the three handlers that write   *)
(* them while other handlers run in between:                               *)
(*                                                                         *)
(*   a run      the underwrite worker's (at most one at a time): it finds  *)
(*              the loan's deal and appends to it, or mints a root;        *)
(*   an append  POST /:id/append-document, one document;                   *)
(*   an edit    POST /:id/revisions, an analyst's override or assessment.  *)
(*                                                                         *)
(* A revision's id hashes its parent and its inputs, so it is modelled by  *)
(* what it stands for: the inputs from the root down to it.  An insert of  *)
(* a revision that exists changes nothing, as ON CONFLICT DO NOTHING does. *)
(***************************************************************************)
EXTENDS Naturals, Sequences, FiniteSets

CONSTANTS
    Docs,        \* documents (contents)
    Filed, Posted, \* those that are filed in the data room, and posted to the deal
    Slots, SlotOf,
    AsrSlot,     \* the slot whose adapter's version an extraction records
    Units,       \* what an extraction may read off a rent roll
    Edits,       \* what analysts may override
    Refs,        \* what an originator may call the loan
    DealRef,     \* the pool's own handle of the loan's deal
    Keys, NoKey, \* what names are compared by, and that of an empty name
    normalizePropertyName,         \* the key of a reference
    normalizeAnalysisNameForMatch, \* that of a deal's name: bare of a last (...)
    Procs,       \* the handlers that may be in progress together
    NoDoc,
    MaxRevs, MaxDeals, \* bounds: revisions, rows of analyses
    MaxVersion,  \* bound: versions of the ASR adapter deployed
    MaxUpsets    \* bound: re-keys, process deaths and failed writes, together

ASSUME DataAssumption ==
    /\ SlotOf \in [Docs -> Slots]
    /\ Filed \subseteq Docs /\ Posted \subseteq Docs
    /\ AsrSlot \in Slots
    /\ Units \subseteq Nat
    /\ NoDoc \notin Docs

ASSUME NameAssumption ==
    /\ normalizePropertyName \in [Refs -> Keys \cup {NoKey}]
    /\ normalizeAnalysisNameForMatch \in [Refs \cup {DealRef} -> Keys \cup {NoKey}]

ASSUME BoundsAssumption ==
    /\ MaxRevs \in Nat /\ MaxDeals \in Nat /\ MaxVersion \in Nat \ {0}
    /\ MaxUpsets \in Nat

VARIABLES
    room,      \* the loan's documents in the data room, in order of filing
    ref,       \* the loan's originator_loan_ref
    revs,      \* revision_lineage_envelopes
    source,    \* source[r]: the extraction that revision r was judged on
    contexts,  \* the revisions with a row in revision_evaluation_context
    deals,     \* the rows of analyses: name and head (graph_revision_id)
    kept,      \* kept[root]: the raw documents kept for a lineage, in order
    h,         \* h[p]: a handler in progress, by the statement it makes next
    version,   \* ASR_ADAPTER_VERSION of the running build
    rekeys, crashes, faults

store == <<revs, source, contexts, deals, kept>>
env == <<room, ref, version, rekeys, crashes, faults>>
vars == <<store, env, h>>

-----------------------------------------------------------------------------
(***************************************************************************)
(* Revisions.  The inputs of one are what it was read from and by how much *)
(* the rent roll was read, which differs between two readings of the same  *)
(* documents, and the edits made to them.                                  *)
(***************************************************************************)
Inputs == [docs : SUBSET Docs, units : Units, edits : SUBSET Edits]

Revisions == Seq(Inputs) \ {<<>>}

computeRevisionId(parent, inputs) == Append(parent, inputs)

NoRev == <<>>
parentRevisionId(r) == SubSeq(r, 1, Len(r) - 1)
lineageRootId(r) == <<r[1]>>
revisionOrdinal(r) == Len(r) - 1

Lineage(root) == {r \in revs : lineageRootId(r) = root}
Roots == {r \in revs : Len(r) = 1}

(***************************************************************************)
(* The highest ordinal of a lineage; which one, on a tie, SQL leaves open. *)
(***************************************************************************)
getLatestRevisionByLineageRoot(root) ==
    {r \in Lineage(root) : \A q \in Lineage(root) : revisionOrdinal(q) <= revisionOrdinal(r)}

(***************************************************************************)
(* An extraction: its source documents, the units of its rent roll, the    *)
(* version of the ASR adapter (none without an ASR) and the reference it   *)
(* was made under.                                                         *)
(***************************************************************************)
Extractions ==
    [docs : SUBSET Docs, units : Units, version : 0 .. MaxVersion, ref : Refs \cup {DealRef}]

(***************************************************************************)
(* Storing a document again moves it to the end.                           *)
(***************************************************************************)
DocsOf(s) == {s[i] : i \in DOMAIN s}

MoveToEnd(s, d) ==
    IF d \notin DocsOf(s) THEN Append(s, d)
    ELSE LET at == CHOOSE i \in DOMAIN s : s[i] = d
         IN [i \in DOMAIN s |->
                IF i = Len(s) THEN d ELSE IF i < at THEN s[i] ELSE s[i + 1]]

saveDealSourceDoc(root, d) ==
    kept' = [r \in DOMAIN kept \cup {root} |->
                IF r = root THEN MoveToEnd(IF root \in DOMAIN kept THEN kept[root] ELSE <<>>, d)
                            ELSE kept[r]]

getDealSourceDocs(root) == IF root \in DOMAIN kept THEN kept[root] ELSE <<>>

(***************************************************************************)
(* A later document of a slot takes the place of an earlier one.           *)
(***************************************************************************)
LastOfSlots(s) ==
    {s[i] : i \in {j \in DOMAIN s : \A k \in DOMAIN s : k > j => SlotOf[s[k]] # SlotOf[s[j]]}}

(***************************************************************************)
(* gatherTierADocs: one version of every slot on file (a pin, a content    *)
(* date or the upload date decides which), the slots in the order in which *)
(* each was first filed.                                                   *)
(***************************************************************************)
FirstFiled(slot) ==
    CHOOSE i \in DOMAIN room :
        SlotOf[room[i]] = slot /\ \A j \in DOMAIN room : SlotOf[room[j]] = slot => i <= j

gatherTierADocs ==
    {t \in UNION {[1 .. n -> DocsOf(room)] : n \in 1 .. Len(room)} :
        /\ \A i, j \in DOMAIN t : i < j => FirstFiled(SlotOf[t[i]]) < FirstFiled(SlotOf[t[j]])
        /\ \A d \in DocsOf(room) : \E i \in DOMAIN t : SlotOf[t[i]] = SlotOf[d]}

-----------------------------------------------------------------------------
(***************************************************************************)
(* Handlers.  name: what a run will call the deal it opens.  deal: the row *)
(* of analyses it works on.  todo: documents it has yet to keep.  new: the *)
(* document it appends.  set: the documents it composes from.  rev: the    *)
(* revision it starts from, then the one it makes.  hasty: that it began   *)
(* while another had moved the head and was yet to keep its document; no   *)
(* handler knows this of itself.                                           *)
(***************************************************************************)
Handler ==
    [op : {"none", "run", "append", "edit"},
     at : {"idle", "find", "save", "read", "ingest", "context", "head", "persist",
           "keep", "promote", "evaluate"},
     name : Refs \cup {DealRef}, deal : Nat, todo : Seq(Docs),
     new : Docs \cup {NoDoc}, set : SUBSET Docs, rev : Seq(Inputs),
     hasty : BOOLEAN]

Idle == [op |-> "none", at |-> "idle", name |-> DealRef, deal |-> 0, todo |-> <<>>,
         new |-> NoDoc, set |-> {}, rev |-> NoRev, hasty |-> FALSE]

(***************************************************************************)
(* An ingest makes two statements without an await between them; nothing   *)
(* but the death of the process separates them.                            *)
(***************************************************************************)
Quiet == \A p \in Procs : h[p].at # "context"

At(p, point) == h[p].at = point /\ Quiet

Calm == rekeys + crashes + faults < MaxUpsets

Init ==
    /\ room = <<>>
    /\ ref \in Refs
    /\ revs = {} /\ source = <<>> /\ contexts = {} /\ deals = <<>> /\ kept = <<>>
    /\ h = [p \in Procs |-> Idle]
    /\ version = 1 /\ rekeys = 0 /\ crashes = 0 /\ faults = 0

-----------------------------------------------------------------------------
(***************************************************************************)
(* Around the handlers: a document is filed in the data room; a tape calls *)
(* the loan by another reference.                                          *)
(***************************************************************************)
FileDoc(d) ==
    /\ Quiet
    /\ d \notin DocsOf(room)
    /\ room' = Append(room, d)
    /\ UNCHANGED <<ref, store, h, version, rekeys, crashes, faults>>

Rekey(r) ==
    /\ Quiet
    /\ Calm
    /\ r # ref
    /\ ref' = r
    /\ rekeys' = rekeys + 1
    /\ UNCHANGED <<room, store, h, version, crashes, faults>>

-----------------------------------------------------------------------------
(***************************************************************************)
(* A run begins: it gathers its documents and awaits their bytes.          *)
(***************************************************************************)
underwriteLoan(p) ==
    /\ At(p, "idle")
    /\ \A q \in Procs : h[q].op # "run"
    /\ \E gathered \in gatherTierADocs :
         h' = [h EXCEPT ![p] = [Idle EXCEPT !.op = "run", !.at = "find", !.name = ref,
                                            !.todo = gathered]]
    /\ UNCHANGED <<store, env>>

(***************************************************************************)
(* The deal of a loan: one whose head was extracted under the pool's       *)
(* handle, else one with the name by which the tape now calls the loan.    *)
(***************************************************************************)
bridged == {a \in DOMAIN deals : source[deals[a].head].ref = DealRef}

namesakes ==
    {a \in DOMAIN deals :
        /\ normalizePropertyName[ref] # NoKey
        /\ normalizeAnalysisNameForMatch[deals[a].name] = normalizePropertyName[ref]}

\* A faulty variant: a deal is found by its present build only.
lookupOnlyExact == bridged

lookupAnalysisByDealRef == IF bridged # {} THEN bridged ELSE namesakes

(***************************************************************************)
(* With a deal, the run will keep its documents and append the last one;   *)
(* the head must have an evaluation context to take over.  Without one, it *)
(* extracts a root (from a registry some earlier deal has left).           *)
(***************************************************************************)
findDeal(p) ==
    /\ At(p, "find")
    /\ \/ \E a \in lookupAnalysisByDealRef :
            /\ deals[a].head \in contexts
            /\ h' = [h EXCEPT ![p].at = "save", ![p].deal = a,
                              ![p].new = h[p].todo[Len(h[p].todo)]]
       \/ /\ \E a \in lookupAnalysisByDealRef : deals[a].head \notin contexts
          /\ h' = [h EXCEPT ![p] = Idle]
       \/ /\ lookupAnalysisByDealRef = {}
          /\ h' = [h EXCEPT ![p].at = "ingest", ![p].set = DocsOf(h[p].todo)]
    /\ UNCHANGED <<store, env>>

DealRoot(p) == lineageRootId(deals[h[p].deal].head)

saveGathered(p) ==
    /\ At(p, "save")
    /\ saveDealSourceDoc(DealRoot(p), Head(h[p].todo))
    /\ h' = [h EXCEPT ![p].todo = Tail(h[p].todo),
                      ![p].at = IF Len(h[p].todo) = 1 THEN "read" ELSE "save"]
    /\ UNCHANGED <<revs, source, contexts, deals, env>>

(***************************************************************************)
(* Documents of appends that have moved a head and not kept them yet.      *)
(***************************************************************************)
Unkept(root) ==
    {h[p].new : p \in {q \in Procs : h[q].at = "persist" /\ lineageRootId(h[q].rev) = root}}

\* A faulty variant: only the new document is composed.
AppendOnlyTheNew(p, op, a, d) ==
    h' = [h EXCEPT ![p] =
            [Idle EXCEPT !.op = op, !.at = "ingest", !.deal = a, !.new = d,
               !.rev = deals[a].head, !.set = {d},
               !.hasty = Unkept(lineageRootId(deals[a].head)) # {}]]

(***************************************************************************)
(* appendSourceDocToDeal up to its first await: the head is the parent,    *)
(* and the lineage's documents with the new one are the set to compose.    *)
(***************************************************************************)
AppendTo(p, op, a, d) ==
    LET head == deals[a].head
        root == lineageRootId(head) IN
    h' = [h EXCEPT ![p] =
            [Idle EXCEPT !.op = op, !.at = "ingest", !.deal = a, !.new = d, !.rev = head,
               !.set = LastOfSlots(Append(getDealSourceDocs(root), d)),
               !.hasty = Unkept(root) # {}]]

appendGathered(p) ==
    /\ At(p, "read")
    /\ AppendTo(p, "run", h[p].deal, h[p].new)
    /\ UNCHANGED <<store, env>>

postDocument(p) ==
    /\ At(p, "idle")
    /\ \E a \in DOMAIN deals, d \in Posted :
         deals[a].head \in contexts /\ AppendTo(p, "append", a, d)
    /\ UNCHANGED <<store, env>>

(***************************************************************************)
(* What the handler composes, once its extraction returns.  A root is read *)
(* from the gathered set.  An append whose document the parent has already *)
(* carries the parent's extraction over; when the adapter has improved     *)
(* since, only the rent roll is taken from a new reading, and only one as  *)
(* complete; else the whole set is read again, under the deal's name.      *)
(***************************************************************************)
AsrVersion(set) == IF \E d \in set : SlotOf[d] = AsrSlot THEN version ELSE 0

Reading(set, u, by) ==
    [docs |-> set, units |-> u, version |-> AsrVersion(set), ref |-> by]

composeFromParentCarryWithFreshRentRoll(parent, u) ==
    [parent EXCEPT !.units = IF u >= parent.units /\ u > 0 THEN u ELSE parent.units]

Composed(s, u) ==
    IF s.rev = NoRev THEN Reading(s.set, u, DealRef)
    ELSE LET parent == source[s.rev] IN
         IF parent.version \notin {0, version} THEN
            composeFromParentCarryWithFreshRentRoll(parent, u)
         ELSE IF s.new \in parent.docs THEN parent
         ELSE Reading(s.set, u, deals[s.deal].name)

applyJudgmentAdjustments(x) == [docs |-> x.docs, units |-> x.units, edits |-> {}]

\* A faulty variant: a revision takes the place of its parent.
envelopeReplacesParent(r, x) ==
    /\ revs' = (revs \ {parentRevisionId(r)}) \cup {r}
    /\ source' = [q \in revs' |-> IF q \in revs THEN source[q] ELSE x]

\* A faulty variant: the extraction of a revision is not stored.
envelopeWithoutEvaluation(r, x) == revs' = revs \cup {r} /\ UNCHANGED source

insertRevisionLineageEnvelope(r, x) ==
    /\ revs' = revs \cup {r}
    /\ source' = [q \in revs \cup {r} |-> IF q \in revs THEN source[q] ELSE x]

ingestExtractionResult(p) ==
    /\ At(p, "ingest")
    /\ Cardinality(revs) < MaxRevs
    /\ \E u \in Units :
         LET x == Composed(h[p], u)
             r == computeRevisionId(h[p].rev, applyJudgmentAdjustments(x))
         IN /\ insertRevisionLineageEnvelope(r, x)
            /\ h' = [h EXCEPT ![p].at = "context", ![p].rev = r]
    /\ UNCHANGED <<contexts, deals, kept, env>>

insertRevisionEvaluationContext(p) ==
    /\ h[p].at = "context"
    /\ contexts' = contexts \cup {h[p].rev}
    /\ h' = [h EXCEPT ![p].at = IF h[p].deal = 0 THEN "keep" ELSE "head"]
    /\ UNCHANGED <<revs, source, deals, kept, env>>

(***************************************************************************)
(* An append moves the deal to the child, then keeps its document; that    *)
(* this may fail is only told to the caller.                               *)
(***************************************************************************)
updateAnalysis(p) ==
    /\ At(p, "head")
    /\ deals' = [deals EXCEPT ![h[p].deal].head = h[p].rev]
    /\ h' = [h EXCEPT ![p].at = "persist"]
    /\ UNCHANGED <<revs, source, contexts, kept, env>>

\* A faulty variant: the document is never kept.
SaveNothing(root, d) == UNCHANGED <<kept, faults>>

SaveOrMiss(root, d) ==
    \/ saveDealSourceDoc(root, d) /\ UNCHANGED faults
    \/ Calm /\ faults' = faults + 1 /\ UNCHANGED kept

saveAppended(p) ==
    /\ At(p, "persist")
    /\ SaveOrMiss(lineageRootId(h[p].rev), h[p].new)
    /\ h' = [h EXCEPT ![p] = Idle]
    /\ UNCHANGED <<revs, source, contexts, deals, room, ref, version, rekeys, crashes>>

(***************************************************************************)
(* A root's documents are kept, as far as that goes, and the deal's row is *)
(* made, with the root as its head.                                        *)
(***************************************************************************)
saveAtRoot(p) ==
    /\ At(p, "keep")
    /\ SaveOrMiss(lineageRootId(h[p].rev), Head(h[p].todo))
    /\ h' = [h EXCEPT ![p].todo = Tail(h[p].todo),
                      ![p].at = IF Len(h[p].todo) = 1 THEN "promote" ELSE "keep"]
    /\ UNCHANGED <<revs, source, contexts, deals, room, ref, version, rekeys, crashes>>

promoteFromGraph(p) ==
    /\ At(p, "promote")
    /\ Len(deals) < MaxDeals
    /\ deals' = Append(deals, [name |-> h[p].name, head |-> h[p].rev])
    /\ h' = [h EXCEPT ![p] = Idle]
    /\ UNCHANGED <<revs, source, contexts, kept, env>>

(***************************************************************************)
(* An analyst's edit applies to the latest revision of the lineage.  The   *)
(* linear-chain guard compares that with the latest, in the same section;  *)
(* an edit that changes nothing, or was made before, returns what exists.  *)
(***************************************************************************)
applyRevisionDelta(p) ==
    /\ At(p, "idle")
    /\ \E root \in Roots, e \in Edits :
         \E latest \in getLatestRevisionByLineageRoot(root) :
            LET inputs == latest[Len(latest)]
                child == computeRevisionId(latest, [inputs EXCEPT !.edits = @ \cup {e}])
            IN /\ e \notin inputs.edits
               /\ child \notin revs
               /\ h' = [h EXCEPT ![p] = [Idle EXCEPT !.op = "edit", !.at = "evaluate",
                                                     !.rev = child]]
    /\ UNCHANGED <<store, env>>

\* A faulty variant: an edit moves the head to its revision.
headFollowsEdit(p) ==
    /\ At(p, "evaluate")
    /\ Cardinality(revs) < MaxRevs
    /\ insertRevisionLineageEnvelope(h[p].rev, source[parentRevisionId(h[p].rev)])
    /\ deals' = [a \in DOMAIN deals |->
                    IF deals[a].head = parentRevisionId(h[p].rev)
                    THEN [deals[a] EXCEPT !.head = h[p].rev] ELSE deals[a]]
    /\ h' = [h EXCEPT ![p] = Idle]
    /\ UNCHANGED <<contexts, kept, env>>

(***************************************************************************)
(* The evaluation returns, and the revision is inserted.  It is judged on  *)
(* its parent's extraction, gets no evaluation context, and no head moves. *)
(***************************************************************************)
insertEdit(p) ==
    /\ At(p, "evaluate")
    /\ Cardinality(revs) < MaxRevs
    /\ insertRevisionLineageEnvelope(h[p].rev, source[parentRevisionId(h[p].rev)])
    /\ h' = [h EXCEPT ![p] = Idle]
    /\ UNCHANGED <<contexts, deals, kept, env>>

(***************************************************************************)
(* What a handler awaits may throw; what it wrote before stays.            *)
(***************************************************************************)
Throw(p) ==
    /\ h[p].at \in {"find", "save", "read", "ingest", "evaluate"}
    /\ Quiet
    /\ h' = [h EXCEPT ![p] = Idle]
    /\ UNCHANGED <<store, env>>

(***************************************************************************)
(* The process dies and is started again, perhaps from a newer build.      *)
(***************************************************************************)
Restart ==
    /\ Calm
    /\ crashes' = crashes + 1
    /\ h' = [p \in Procs |-> Idle]
    /\ version' \in version .. MaxVersion
    /\ UNCHANGED <<store, room, ref, rekeys, faults>>

Run(p) ==
    \/ underwriteLoan(p) \/ findDeal(p) \/ saveGathered(p) \/ appendGathered(p)
    \/ saveAtRoot(p) \/ promoteFromGraph(p)

Ingest(p) ==
    \/ ingestExtractionResult(p) \/ insertRevisionEvaluationContext(p)
    \/ updateAnalysis(p) \/ saveAppended(p)

Next ==
    \/ \E d \in Filed : FileDoc(d)
    \/ \E r \in Refs : Rekey(r)
    \/ \E p \in Procs :
         \/ Run(p) \/ postDocument(p) \/ Ingest(p)
         \/ applyRevisionDelta(p) \/ insertEdit(p) \/ Throw(p)
    \/ Restart

Spec == Init /\ [][Next]_vars

-----------------------------------------------------------------------------
(* Properties                                                              *)

Deal == [name : Refs \cup {DealRef}, head : Revisions]

TypeOK ==
    /\ room \in Seq(Docs) /\ ref \in Refs
    /\ revs \subseteq Revisions
    /\ source \in [revs -> Extractions]
    /\ contexts \subseteq revs
    /\ deals \in Seq(Deal)
    /\ DOMAIN kept \subseteq Roots /\ \A root \in DOMAIN kept : kept[root] \in Seq(Docs)
    /\ h \in [Procs -> Handler]
    /\ version \in 1 .. MaxVersion
    /\ rekeys \in Nat /\ crashes \in Nat /\ faults \in Nat

(***************************************************************************)
(* Every deal can take another document: its head has an evaluation        *)
(* context, whichever handlers moved it and wherever they died.  An edit's *)
(* revision has none, so a head that followed edits would end appending.   *)
(***************************************************************************)
HeadsAreAppendable == \A a \in DOMAIN deals : deals[a].head \in contexts

(***************************************************************************)
(* A loan that keeps its reference keeps its one deal: however its runs    *)
(* fail, its head moves and its build changes, a run finds the deal again. *)
(* This is promised to a reference whose key the deal named by it has too: *)
(* one that ends in a (...) is lost once a re-read has replaced the pool's *)
(* handle in the head, for its (...) is cut on one side only.              *)
(***************************************************************************)
FoundByName(r) ==
    /\ normalizePropertyName[r] # NoKey
    /\ normalizeAnalysisNameForMatch[r] = normalizePropertyName[r]

OneDealUnlessRekeyed == rekeys = 0 /\ FoundByName(ref) => Len(deals) <= 1

(***************************************************************************)
(* No append forgets: what is about to become a deal's head was read from  *)
(* every slot that the head it was begun on was read from.  An append that *)
(* was begun while another had moved the head and not yet kept its         *)
(* document does forget that document's slot, as one does after a death or *)
(* a failed write.                                                         *)
(***************************************************************************)
SlotsRead(r) == {SlotOf[d] : d \in source[r].docs}

AppendsForgetNothing ==
    crashes = 0 /\ faults = 0 =>
        \A p \in Procs :
            h[p].at = "head" /\ ~h[p].hasty
                => SlotsRead(parentRevisionId(h[p].rev)) \subseteq SlotsRead(h[p].rev)

(***************************************************************************)
(* What a deal's head was read from is kept, or is about to be by the      *)
(* append that moved it, so the next append can read it again; only a      *)
(* death or a failed write in between loses it.                            *)
(***************************************************************************)
HeadDocsAreKept ==
    crashes = 0 /\ faults = 0 =>
        \A a \in DOMAIN deals : LET head == deals[a].head IN
            source[head].docs \subseteq
                DocsOf(getDealSourceDocs(lineageRootId(head))) \cup Unkept(lineageRootId(head))

(***************************************************************************)
(* The store keeps its promise: revisions are only added, under a parent   *)
(* on record, and a deal never leaves the lineage it was opened on.        *)
(***************************************************************************)
Log == INSTANCE RevisionLog WITH log <- revs,
                                 heads <- [a \in DOMAIN deals |-> deals[a].head]

ImplementsRevisionLog == Log!Spec

(***************************************************************************)
(* underwrite-loan.service.ts:347-350 says of a run's one append that it   *)
(* re-extracts the full set: what a run gathered and kept, its revision    *)
(* was read from.                                                          *)
(***************************************************************************)
FullSetIsScored ==
    \A p \in Procs :
        h[p].op = "run" /\ h[p].at = "persist" => h[p].set \subseteq source[h[p].rev].docs

=============================================================================
