---------------------------- MODULE DealWorkflow ----------------------------
(***************************************************************************)
(* The committee's record of a deal: the actions taken on it, the overlays *)
(* opened on its rendered analysis and the comments put on them.  Three    *)
(* append-only tables hold them: committee_actions and audit_events, whose *)
(* rows are chained by the id of the row before, and overlay_patches.      *)
(* Nothing stores a deal's state: it is projected from the rows each time. *)
(*                                                                         *)
(* A row's id hashes its body, the previous id included, so that it is     *)
(* modelled by what it stands for: the bodies from the first row of its    *)
(* chain down to it.  Rows are read by occurred_at, which a client may     *)
(* choose, and those of the same time in the order of their insertion; a   *)
(* table is modelled in the order in which it is read.                     *)
(*                                                                         *)
(* A handler does not await, so that it is one step; a process death cuts  *)
(* it between its statements.                                              *)
(***************************************************************************)
EXTENDS Naturals, FiniteSets, SequencesExt

CONSTANTS
    Roots,       \* deals
    Renders,     \* rendered analyses
    Keys,        \* what a deal's overlays are kept apart by
    Kinds,       \* the kinds of action in use
    Texts,       \* what comments say
    MaxTime,     \* bound: instants that rows are dated by
    MaxRows,     \* bound: rows of committee_actions and audit_events
    MaxCrashes   \* bound: process deaths

ASSUME BoundsAssumption ==
    /\ MaxTime \in Nat /\ MaxRows \in Nat /\ MaxCrashes \in Nat

(***************************************************************************)
(* What each kind of action makes of the deal.  An override is no decision *)
(* and has no entry.                                                       *)
(***************************************************************************)
STATE_CHANGING_KINDS ==
    [APPROVE_DEAL        |-> "APPROVED",
     REJECT_DEAL         |-> "REJECTED",
     POSTPONE_DEAL       |-> "POSTPONED",
     SUBMIT_TO_COMMITTEE |-> "IN_COMMITTEE",
     REQUEST_MORE_INFO   |-> "IN_REVIEW",
     SEND_TO_BUYER       |-> "SENT_TO_BUYER",
     ORIGINATOR_PUSHBACK |-> "PUSHED_BACK",
     CALL_REQUESTED      |-> "CALL_REQUESTED"]

ASSUME KindsAssumption ==
    Kinds \subseteq DOMAIN STATE_CHANGING_KINDS \cup {"OVERRIDE_DECISION"}

VARIABLES
    now,        \* the server's clock
    actions,    \* actions[r]: the rows of committee_actions of deal r
    events,     \* events[o]: the rows of audit_events of overlay o
    patches,    \* the rows of overlay_patches
    crashes

vars == <<now, actions, events, patches, crashes>>

-----------------------------------------------------------------------------
Times == 1 .. MaxTime

(***************************************************************************)
(* An overlay's id hashes its deal, its rendered analysis and its key.     *)
(***************************************************************************)
Overlays == [root : Roots, render : Renders, key : Keys]

ActionBodies == [kind : Kinds, at : Times]

(***************************************************************************)
(* A comment's id hashes its path, author, text and time, and neither its  *)
(* overlay nor its side.                                                   *)
(***************************************************************************)
Comments == [text : Texts, at : Times]

(***************************************************************************)
(* What an event adds to its overlay: a comment, or nothing when it is the *)
(* one that creates the overlay.                                           *)
(***************************************************************************)
Created == {}

Adding(patch) == {patch}

EventBodies == [adds : {Created} \cup {Adding(c) : c \in Comments}, at : Times]

Chains(Bodies) == Seq(Bodies) \ {<<>>}

Prev(id) == Front(id)

Body(id) == Last(id)

(***************************************************************************)
(* INSERT ... ON CONFLICT(id) DO NOTHING, read back ORDER BY occurred_at.  *)
(***************************************************************************)
insert(rows, id) ==
    LET earlier == {i \in DOMAIN rows : Body(rows[i]).at <= Body(id).at}
    IN  IF id \in ToSet(rows) THEN rows
        ELSE InsertAt(rows, Cardinality(earlier) + 1, id)

-----------------------------------------------------------------------------
(***************************************************************************)
(* Walking a chain from its root: of the rows after one, and of the roots, *)
(* the first that was read counts, and what it does not reach is dropped;  *)
(* the walk ends at a row that none comes after.  It is its bodies in      *)
(* order, hence the last id that it reaches.                               *)
(***************************************************************************)
Counts(rows, id) ==
    \E i \in DOMAIN rows :
      /\ rows[i] = id
      /\ \A j \in 1 .. i - 1 : Prev(rows[j]) # Prev(id)

Walk(rows) ==
    CHOOSE id \in {<<>>} \cup ToSet(rows) :
      /\ \A j \in DOMAIN rows : Prev(rows[j]) # id
      /\ \A n \in 1 .. Len(id) : Counts(rows, SubSeq(id, 1, n))

\* A faulty variant: actions are shown by their dates.
orderedByTime(r) == [i \in DOMAIN actions[r] |-> Body(actions[r][i])]

sortActionChain(r) == Walk(actions[r])

getOverlayBinding(o) ==
    \E i \in DOMAIN events[o] : Body(events[o][i]).adds = Created

hasOverlay(r) == \E o \in Overlays : o.root = r /\ getOverlayBinding(o)

deriveStateFromChain(chain, overlay) ==
    LET decisions == {i \in DOMAIN chain : chain[i].kind \in DOMAIN STATE_CHANGING_KINDS}
    IN  IF chain = <<>> THEN IF overlay THEN "IN_REVIEW" ELSE "DRAFT"
        ELSE IF decisions = {} THEN "IN_COMMITTEE"
        ELSE STATE_CHANGING_KINDS[chain[Max(decisions)].kind]

computeDealWorkflowState(r) ==
    deriveStateFromChain(sortActionChain(r), hasOverlay(r))

(***************************************************************************)
(* The comments an overlay shows once its events are replayed: those its   *)
(* chain adds, as far as their patches are on record.                      *)
(***************************************************************************)
rebuildAuditChain(o) == Walk(events[o])

replayOverlay(o) ==
    (UNION {body.adds : body \in ToSet(rebuildAuditChain(o))})
      \cap {row.patch : row \in patches}

-----------------------------------------------------------------------------
Init ==
    /\ now = 1
    /\ actions = [r \in Roots |-> <<>>]
    /\ events = [o \in Overlays |-> <<>>]
    /\ patches = {}
    /\ crashes = 0

RowsSoFar ==
    FoldSet(LAMBDA r, n : n + Len(actions[r]), 0, Roots)
      + FoldSet(LAMBDA o, n : n + Len(events[o]), 0, Overlays)

Tick ==
    /\ now < MaxTime
    /\ now' = now + 1
    /\ UNCHANGED <<actions, events, patches, crashes>>

\* A faulty variant: an action follows the one with the latest date.
mostRecentAction(rows) == IF rows = <<>> THEN <<>> ELSE Last(rows)

(***************************************************************************)
(* The action a new one follows: the first that nothing refers to.         *)
(***************************************************************************)
chainTail(rows) ==
    LET loose == {i \in DOMAIN rows : \A j \in DOMAIN rows : Prev(rows[j]) # rows[i]}
    IN  IF loose = {} THEN <<>> ELSE rows[Min(loose)]

(***************************************************************************)
(* POST /committee-actions.  An override names an overlay of the rendered  *)
(* analysis it is taken on; that the overlay is of the same deal is not    *)
(* looked at.  Any kind may follow any other.                              *)
(***************************************************************************)
postCommitteeAction(r, kind, at) ==
    /\ RowsSoFar < MaxRows
    /\ kind = "OVERRIDE_DECISION" => \E o \in Overlays : getOverlayBinding(o)
    /\ actions' = [actions EXCEPT ![r] =
         insert(@, Append(chainTail(@), [kind |-> kind, at |-> at]))]
    /\ UNCHANGED <<now, events, patches, crashes>>

(***************************************************************************)
(* POST /overlays: nothing when the overlay exists, and otherwise the root *)
(* of its chain.                                                           *)
(***************************************************************************)
postOverlay(o, at) ==
    /\ RowsSoFar < MaxRows
    /\ ~getOverlayBinding(o)
    /\ events' = [events EXCEPT ![o] =
         insert(@, <<[adds |-> Created, at |-> at]>>)]
    /\ UNCHANGED <<now, actions, patches, crashes>>

\* A faulty variant: an event follows the first event of the overlay.
overlayRoot(rows) == IF rows = <<>> THEN <<>> ELSE Head(rows)

(***************************************************************************)
(* The event a comment follows: the one of the overlay that is read last.  *)
(***************************************************************************)
chainHead(rows) == IF rows = <<>> THEN <<>> ELSE Last(rows)

\* A faulty variant: the event is told by its time alone.
eventIdOfTime(rows, patch) ==
    IF \E i \in DOMAIN rows : /\ Prev(rows[i]) = chainHead(rows)
                              /\ Body(rows[i]).at = patch.at
    THEN rows
    ELSE insert(rows, Append(chainHead(rows), [adds |-> Adding(patch), at |-> patch.at]))

commentEvent(rows, patch) ==
    insert(rows, Append(chainHead(rows), [adds |-> Adding(patch), at |-> patch.at]))

\* A faulty variant: the patch is stored under no overlay.
patchWithoutOverlay(o, patch) == patches \cup {patch}

insertPatch(o, patch) ==
    IF \E row \in patches : row.patch = patch THEN patches
    ELSE patches \cup {[patch |-> patch, overlay |-> o]}

(***************************************************************************)
(* POST /overlay-comments: the patch is inserted and then the event that   *)
(* puts it on the timeline.                                                *)
(***************************************************************************)
postOverlayComment(o, text) ==
    LET patch == [text |-> text, at |-> now]
    IN  /\ RowsSoFar < MaxRows
        /\ getOverlayBinding(o)
        /\ patches' = insertPatch(o, patch)
        /\ events' = [events EXCEPT ![o] = commentEvent(@, patch)]
        /\ UNCHANGED <<now, actions, crashes>>

\* A faulty variant: the event is inserted first.
eventBeforePatch(o, text) ==
    LET patch == [text |-> text, at |-> now]
    IN  /\ crashes < MaxCrashes
        /\ RowsSoFar < MaxRows
        /\ getOverlayBinding(o)
        /\ events' = [events EXCEPT ![o] = commentEvent(@, patch)]
        /\ crashes' = crashes + 1
        /\ UNCHANGED <<now, actions, patches>>

(***************************************************************************)
(* The same, of which the process death leaves only the first insert.      *)
(***************************************************************************)
postOverlayCommentCut(o, text) ==
    LET patch == [text |-> text, at |-> now]
    IN  /\ crashes < MaxCrashes
        /\ getOverlayBinding(o)
        /\ patches' = insertPatch(o, patch)
        /\ crashes' = crashes + 1
        /\ UNCHANGED <<now, actions, events>>

Next ==
    \/ Tick
    \/ \E r \in Roots, k \in Kinds, at \in Times : postCommitteeAction(r, k, at)
    \/ \E o \in Overlays, at \in Times : postOverlay(o, at)
    \/ \E o \in Overlays, t \in Texts :
         postOverlayComment(o, t) \/ postOverlayCommentCut(o, t)

Spec == Init /\ [][Next]_vars

-----------------------------------------------------------------------------
(***************************************************************************)
(* The type of the state.                                                  *)
(***************************************************************************)
TypeOK ==
    /\ now \in Nat
    /\ actions \in [Roots -> Seq(Chains(ActionBodies))]
    /\ events \in [Overlays -> Seq(Chains(EventBodies))]
    /\ patches \subseteq [patch : Comments, overlay : Overlays]
    /\ crashes \in Nat

(***************************************************************************)
(* However the clients date their actions, the actions on a deal form one  *)
(* chain, so that the walk drops none: no action is left beside another    *)
(* that follows the same one, which the walk would pass over in silence.   *)
(***************************************************************************)
ActionsAreOneChain ==
    \A r \in Roots :
      /\ Len(sortActionChain(r)) = Len(actions[r])
      /\ \A i, j \in DOMAIN actions[r] :
           \/ IsPrefix(actions[r][i], actions[r][j])
           \/ IsPrefix(actions[r][j], actions[r][i])

(***************************************************************************)
(* What is shown of a deal is a history that only grows at its end and a   *)
(* state moved by each action as it was taken, although both are projected *)
(* anew from the rows, in whatever order they are read, at each request.   *)
(***************************************************************************)
KindsOf(chain) == [i \in DOMAIN chain |-> chain[i].kind]

Kept == INSTANCE CommitteeRecord WITH
          StateOf <- STATE_CHANGING_KINDS,
          history <- [r \in Roots |-> KindsOf(sortActionChain(r))],
          state <- [r \in Roots |-> computeDealWorkflowState(r)]

ImplementsCommitteeRecord == Kept!Spec

(***************************************************************************)
(* An event on the timeline names a comment that is on record, whatever    *)
(* the process died in: a comment is inserted before the event that tells  *)
(* of it.                                                                  *)
(***************************************************************************)
EventsNamePatches ==
    \A o \in Overlays : \A i \in DOMAIN events[o] :
      Body(events[o][i]).adds \subseteq {row.patch : row \in patches}

(***************************************************************************)
(* A comment on record that no timeline tells of is the work of a process  *)
(* death between the two inserts, one comment each.                        *)
(***************************************************************************)
Told(o) == UNION {Body(id).adds : id \in ToSet(events[o])}

SilentCommentsAreFaults ==
    LET told == UNION {Told(o) : o \in Overlays}
    IN  Cardinality({row.patch : row \in patches} \ told) <= crashes

(***************************************************************************)
(* Replay shows every comment that was put on an overlay, provided that    *)
(* the overlay is not dated after them: a client may date it so, and then  *)
(* every comment follows the overlay's first event and replay drops all    *)
(* but one.                                                                *)
(***************************************************************************)
DatedBeforeItsComments(o) ==
    \A i, j \in DOMAIN events[o] :
      Body(events[o][i]).adds = Created =>
        Body(events[o][i]).at <= Body(events[o][j]).at

ReplayShowsEveryComment ==
    \A o \in Overlays : DatedBeforeItsComments(o) =>
      Told(o) = replayOverlay(o)

=============================================================================
