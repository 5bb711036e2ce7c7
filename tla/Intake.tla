-------------------------------- MODULE Intake --------------------------------
(***************************************************************************)
(* The intake side of a pool's data room.  Dropped files are classified:   *)
(* a file with a confident type and a confident loan is filed (routed) at  *)
(* its address, any other is held until a person identifies it or its loan *)
(* arrives on a tape.  When the files of a drop are all filed, the ready   *)
(* loans among them are queued for underwriting.                           *)
(*                                                                         *)
(* Handlers interleave at their awaits only: the statements after a        *)
(* handler's last await run without any other handler between them, but a  *)
(* crash may fall between any two.                                         *)
(***************************************************************************)
EXTENDS Naturals, FiniteSets

CONSTANTS
    Handlers,       \* bound: handlers in progress at a time
    Loans, Types, None,
    RequiredSlots,  \* readiness asks for one of the types of each of these sets
    Files,          \* documents, by content
    Archives,       \* zip archives that were held before they could be unpacked
    Contents,       \* Contents[z]: the files in archive z
    TypeOf, Owner,  \* what the classifiers find for a file, or None; the owner
                    \* only when it is among the pool's loans
    Contradicted,   \* files whose folder contradicts their type
    MaxRequests, MaxCrashes, MaxFaults   \* bounds

ASSUME IntakeData ==
    /\ Contents \in [Archives -> SUBSET Files]
    /\ TypeOf \in [Files -> Types \cup {None}]
    /\ Owner \in [Files -> Loans \cup {None}]
    /\ None \notin Loans \cup Types \cup Archives
    /\ Files \cap Archives = {}

ASSUME ReadinessAssumption == RequiredSlots # {}

VARIABLES
    loans,      \* the pool's loans
    seq,        \* seq[a]: the write order of the document at address a, 0 if none
    written,    \* the last write order given
    held,       \* the "needs identification" rows, by file
    trays,      \* the drops answered: their files, and those left to confirm
    told,       \* loans for which a job was enqueued
    h,          \* the handlers in progress
    accepted,   \* files for which a drop was answered with success
    failed,     \* files whose held row could not be written
    placed,     \* files a person has given an address
    abandoned,  \* loans that a rescan moved files to, and then threw
    requests, crashes

room == <<seq, written, held>>
ghosts == <<accepted, failed, placed, abandoned>>
vars == <<loans, room, trays, told, h, ghosts, requests, crashes>>

Items == Files \cup Archives

Address == [loan : Loans, type : Types, file : Items]
At(l, t, f) == [loan |-> l, type |-> t, file |-> f]

Filed == {a \in Address : seq[a] > 0}
Routed == {a.file : a \in Filed}

(***************************************************************************)
(* The document of a file that was written first, and the one written last.*)
(***************************************************************************)
firstByHash(f) == {a \in Filed : a.file = f /\
                    \A b \in Filed : b.file = f => seq[a] <= seq[b]}
manifestByHash(f) == {a \in Filed : a.file = f /\
                       \A b \in Filed : b.file = f => seq[b] <= seq[a]}

Ready(l) == \A slot \in RequiredSlots : \E a \in Filed : a.loan = l /\ a.type \in slot

(***************************************************************************)
(* A handler: the statement it makes next, the files of its drop, those of *)
(* them that a person has to confirm, those still to be looked at, the     *)
(* loans it knew when it started, the loans it touched, the address it     *)
(* files at or clears, the archive it unpacks, whether it is a rescan.     *)
(***************************************************************************)
Sync == {"settle", "discard", "delete", "unfile", "reeval"}
Waits == {"idle", "assign", "hold", "move", "rescan"}
Handler == [at : Sync \cup Waits, files : SUBSET Files, confirm : SUBSET Files,
            todo : SUBSET Files, known : SUBSET Loans, touched : SUBSET Loans,
            address : Address \cup {None}, archive : Archives \cup {None},
            rescan : BOOLEAN]

Idle == [at |-> "idle", files |-> {}, confirm |-> {}, todo |-> {}, known |-> {},
         touched |-> {}, address |-> None, archive |-> None, rescan |-> FALSE]

Quiet == \A q \in Handlers : h[q].at \notin Sync

Start(p, handler) ==
    /\ Quiet /\ h[p].at = "idle"
    /\ requests < MaxRequests
    /\ requests' = requests + 1
    /\ h' = [h EXCEPT ![p] = handler]

Goto(p, at) == h' = [h EXCEPT ![p].at = at]

(***************************************************************************)
(* persistDataRoomEntries: one transaction; a document filed again moves   *)
(* to the end of the write order.  No transaction files one file twice, so *)
(* the order within it is left out.                                        *)
(***************************************************************************)
persist(entries) ==
    /\ seq' = [a \in Address |-> IF a \in entries THEN written + 1 ELSE seq[a]]
    /\ written' = IF entries = {} THEN written ELSE written + 1

-----------------------------------------------------------------------------

Init ==
    /\ loans \in SUBSET Loans
    /\ seq = [a \in Address |-> 0]
    /\ written = 0
    /\ held \in SUBSET Archives
    /\ trays = {}
    /\ told = {}
    /\ h = [p \in Handlers |-> Idle]
    /\ accepted = held
    /\ failed = {}
    /\ placed = {}
    /\ abandoned = {}
    /\ requests = 0
    /\ crashes = 0

-----------------------------------------------------------------------------
(* Drops.                                                                  *)

(***************************************************************************)
(* POST staging, and POST retry of a held archive: the files are           *)
(* classified against the loans of the pool at that time.                  *)
(***************************************************************************)
Staging(p, files) ==
    /\ Start(p, [Idle EXCEPT !.at = "assign", !.files = files, !.known = loans])
    /\ UNCHANGED <<loans, room, trays, told, ghosts, crashes>>

Retry(p, z) ==
    /\ z \in held
    /\ Contents[z] # {}
    /\ Start(p, [Idle EXCEPT !.at = "assign", !.files = Contents[z],
                             !.known = loans, !.archive = z])
    /\ UNCHANGED <<loans, room, trays, told, ghosts, crashes>>

verdictFor(f, known) ==
    IF TypeOf[f] # None /\ Owner[f] \in known \ {None} THEN "auto" ELSE "confirm"

(***************************************************************************)
(* The files with a verdict and no contradiction are filed in one          *)
(* transaction; one whose bytes could not be stored goes the way of those  *)
(* without a verdict.                                                      *)
(***************************************************************************)
assignDataRoomFiles(p) ==
    /\ Quiet /\ h[p].at = "assign"
    /\ \E filed \in SUBSET {f \in h[p].files : /\ verdictFor(f, h[p].known) = "auto"
                                               /\ f \notin Contradicted} :
         /\ persist({At(Owner[f], TypeOf[f], f) : f \in filed})
         /\ h' = [h EXCEPT ![p].at = "hold", ![p].confirm = h[p].files \ filed,
                             ![p].todo = h[p].files \ filed]
    /\ UNCHANGED <<loans, held, trays, told, ghosts, requests, crashes>>

(***************************************************************************)
(* holdStagedFiles: one row per file; a failure is reported for that file  *)
(* and does not stop the others.                                           *)
(***************************************************************************)
holdStagedFiles(p, f) ==
    /\ Quiet /\ h[p].at = "hold"
    /\ f \in h[p].todo
    /\ h' = [h EXCEPT ![p].todo = @ \ {f}]
    /\ \/ held' = held \cup {f} /\ UNCHANGED failed
       \/ Cardinality(failed) < MaxFaults /\ failed' = failed \cup {f} /\ UNCHANGED held
    /\ UNCHANGED <<loans, seq, written, trays, told, accepted, placed, abandoned, requests,
                    crashes>>

Held(p) ==
    /\ Quiet /\ h[p].at = "hold" /\ h[p].todo = {}
    /\ Goto(p, IF h[p].archive = None THEN "settle" ELSE "discard")
    /\ UNCHANGED <<loans, room, trays, told, ghosts, requests, crashes>>

(***************************************************************************)
(* The row of an unpacked archive goes after its files were kept.          *)
(***************************************************************************)
deleteHeldDoc(p) ==
    /\ h[p].at = "discard"
    /\ held' = held \ {h[p].archive}
    /\ accepted' = (accepted \ {h[p].archive}) \cup h[p].files
    /\ Goto(p, "settle")
    /\ UNCHANGED <<loans, seq, written, trays, told, failed, placed, abandoned, requests,
                    crashes>>

(***************************************************************************)
(* detectSettledBatch: all files of the drop are filed, wherever.  A file  *)
(* filed at two loans counts for the one written last.                     *)
(***************************************************************************)
Settled(files) == files \subseteq Routed
Affected(files) == {a.loan : a \in UNION {manifestByHash(f) : f \in files}}

enqueueUnderwriteOnSettle(files) ==
    told' = told \cup {l \in Affected(files) \cap loans : Settled(files) /\ Ready(l)}

(***************************************************************************)
(* The fan-out (its statements are those of UnderwriteQueue), then the     *)
(* answer; a drop's answer shows its files in the tray.                    *)
(***************************************************************************)
Settle(p) ==
    /\ h[p].at = "settle"
    /\ enqueueUnderwriteOnSettle(h[p].files)
    /\ accepted' = accepted \cup h[p].files
    /\ trays' = IF h[p].archive = None
                THEN trays \cup {[files |-> h[p].files, confirm |-> h[p].confirm]}
                ELSE trays
    /\ h' = [h EXCEPT ![p] = Idle]
    /\ UNCHANGED <<loans, room, failed, placed, abandoned, requests, crashes>>

-----------------------------------------------------------------------------
(* A person's decisions.                                                   *)

(***************************************************************************)
(* POST assign: files of a drop left to confirm are given addresses.       *)
(* Their held rows are left alone.                                         *)
(***************************************************************************)
Assign(p, drop, where) ==
    /\ drop \in trays
    /\ DOMAIN where \subseteq drop.confirm
    /\ Start(p, [Idle EXCEPT !.at = "settle", !.files = drop.files,
                             !.confirm = drop.confirm])
    /\ persist({At(where[f][1], where[f][2], f) : f \in DOMAIN where})
    /\ placed' = placed \cup DOMAIN where
    /\ UNCHANGED <<loans, held, trays, told, accepted, failed, abandoned, crashes>>

(***************************************************************************)
(* POST identify reads the held row; its bytes are then awaited.           *)
(***************************************************************************)
Identify(p, l, t, f) ==
    /\ f \in held
    /\ Start(p, [Idle EXCEPT !.at = "move", !.address = At(l, t, f)])
    /\ placed' = placed \cup {f}
    /\ UNCHANGED <<loans, room, trays, told, accepted, failed, abandoned, crashes>>

(***************************************************************************)
(* The move: filed first, then no longer held.  The row is not read again. *)
(***************************************************************************)
identifyHeldDoc(p) ==
    /\ Quiet /\ h[p].at = "move"
    /\ persist({h[p].address})
    /\ Goto(p, "delete")
    /\ UNCHANGED <<loans, held, trays, told, ghosts, requests, crashes>>

Unhold(p) ==
    /\ h[p].at = "delete"
    /\ held' = held \ {h[p].address.file}
    /\ h' = [h EXCEPT ![p].at = IF h[p].rescan THEN "rescan" ELSE "reeval",
                      ![p].touched = @ \cup {h[p].address.loan}]
    /\ UNCHANGED <<loans, seq, written, trays, told, ghosts, requests, crashes>>

(***************************************************************************)
(* POST reclassify: the first document of the file moves, the new address  *)
(* written before the old one is cleared.                                  *)
(***************************************************************************)
reclassifyDataRoomDoc(p, l, t, f) ==
    /\ \E current \in firstByHash(f) :
         IF current = At(l, t, f)
         THEN /\ Start(p, [Idle EXCEPT !.at = "reeval", !.touched = {l}])
              /\ UNCHANGED <<seq, written>>
         ELSE /\ Start(p, [Idle EXCEPT !.at = "unfile", !.address = current,
                                       !.touched = {l}])
              /\ persist({At(l, t, f)})
    /\ placed' = placed \cup {f}
    /\ UNCHANGED <<loans, held, trays, told, accepted, failed, abandoned, crashes>>

\* A faulty variant: the old address cleared by the hash alone
deleteByHash(p) ==
    /\ h[p].at = "unfile"
    /\ seq' = [a \in Address |-> IF a.file = h[p].address.file THEN 0 ELSE seq[a]]
    /\ Goto(p, "reeval")
    /\ UNCHANGED <<loans, written, held, trays, told, ghosts, requests, crashes>>

deleteByAddress(p) ==
    /\ h[p].at = "unfile"
    /\ seq' = [seq EXCEPT ![h[p].address] = 0]
    /\ Goto(p, "reeval")
    /\ UNCHANGED <<loans, written, held, trays, told, ghosts, requests, crashes>>

\* A faulty variant: a move that completes a loan enqueues nothing
reevaluateOnly(p) ==
    /\ h[p].at = "reeval"
    /\ h' = [h EXCEPT ![p] = Idle]
    /\ UNCHANGED <<loans, room, trays, told, ghosts, requests, crashes>>

reevaluateAndEnqueueIfReady(p) ==
    /\ h[p].at = "reeval"
    /\ told' = told \cup {l \in h[p].touched \cap loans : Ready(l)}
    /\ h' = [h EXCEPT ![p] = Idle]
    /\ UNCHANGED <<loans, room, trays, ghosts, requests, crashes>>

-----------------------------------------------------------------------------
(* A loan arrives on a tape: its rescan, off the response path, lists the  *)
(* held rows and the loans at once, and routes the rows that match.        *)

\* A faulty variant: the rescan takes up rows that have no type hint
LoanArrivesListingAll(p, l) ==
    /\ l \notin loans
    /\ loans' = loans \cup {l}
    /\ Start(p, [Idle EXCEPT !.at = "rescan", !.rescan = TRUE, !.known = loans',
                             !.todo = held])
    /\ UNCHANGED <<room, trays, told, ghosts, crashes>>

LoanArrives(p, l) ==
    /\ l \notin loans
    /\ loans' = loans \cup {l}
    /\ Start(p, [Idle EXCEPT !.at = "rescan", !.rescan = TRUE, !.known = loans',
                             !.todo = held \ Archives])
    /\ UNCHANGED <<room, trays, told, ghosts, crashes>>

rescanHeldOnLoanArrival(p, f) ==
    /\ Quiet /\ h[p].at = "rescan"
    /\ f \in h[p].todo
    /\ \/ /\ verdictFor(f, h[p].known) = "auto" /\ f \in held
          /\ h' = [h EXCEPT ![p].at = "move", ![p].todo = @ \ {f},
                            ![p].address = At(Owner[f], TypeOf[f], f)]
       \/ /\ verdictFor(f, h[p].known) # "auto" \/ f \notin held
          /\ h' = [h EXCEPT ![p].todo = @ \ {f}]
    /\ UNCHANGED <<loans, room, trays, told, ghosts, requests, crashes>>

(***************************************************************************)
(* The bytes of a held file cannot be read.  An identify ends before it    *)
(* files anything; a rescan ends there, logged and no more: it looks at    *)
(* none of the loans it has moved files to.                                *)
(***************************************************************************)
getBlobThrows(p) ==
    /\ Quiet
    /\ \/ h[p].at = "move"
       \/ h[p].at = "rescan" /\ \E f \in h[p].todo : TypeOf[f] # None
    /\ abandoned' = abandoned \cup h[p].touched
    /\ h' = [h EXCEPT ![p] = Idle]
    /\ UNCHANGED <<loans, room, trays, told, accepted, failed, placed, requests, crashes>>

Rescanned(p) ==
    /\ Quiet /\ h[p].at = "rescan" /\ h[p].todo = {}
    /\ Goto(p, "reeval")
    /\ UNCHANGED <<loans, room, trays, told, ghosts, requests, crashes>>

-----------------------------------------------------------------------------

(***************************************************************************)
(* The process dies between two statements.  Nothing of intake is resumed  *)
(* at boot.                                                                *)
(***************************************************************************)
Crash ==
    /\ crashes < MaxCrashes
    /\ crashes' = crashes + 1
    /\ \E p \in Handlers : h[p].at # "idle"
    /\ h' = [p \in Handlers |-> Idle]
    /\ UNCHANGED <<loans, room, trays, told, ghosts, requests>>

Drop(p) ==
    \/ \E files \in (SUBSET Files) \ {{}} : Staging(p, files)
    \/ \E z \in Archives : Retry(p, z)
    \/ assignDataRoomFiles(p)
    \/ \E f \in Files : holdStagedFiles(p, f)
    \/ Held(p) \/ deleteHeldDoc(p) \/ Settle(p)

Person(p) ==
    \/ \E drop \in trays : \E some \in (SUBSET drop.confirm) \ {{}} :
         \E where \in [some -> loans \X Types] : Assign(p, drop, where)
    \/ \E l \in loans : \E t \in Types : \E f \in Items :
         Identify(p, l, t, f) \/ reclassifyDataRoomDoc(p, l, t, f)
    \/ identifyHeldDoc(p) \/ Unhold(p)
    \/ deleteByAddress(p) \/ reevaluateAndEnqueueIfReady(p)

Arrival(p) ==
    \/ \E l \in Loans : LoanArrives(p, l)
    \/ \E f \in Files : rescanHeldOnLoanArrival(p, f)
    \/ getBlobThrows(p) \/ Rescanned(p)

Next == Crash \/ \E p \in Handlers : Drop(p) \/ Person(p) \/ Arrival(p)

Spec == Init /\ [][Next]_vars

-----------------------------------------------------------------------------
(* Properties                                                              *)

TypeOK ==
    /\ loans \subseteq Loans
    /\ seq \in [Address -> Nat]
    /\ written \in Nat
    /\ held \subseteq Items
    /\ trays \subseteq [files : SUBSET Files, confirm : SUBSET Files]
    /\ told \subseteq Loans
    /\ h \in [Handlers -> Handler]
    /\ accepted \subseteq Items
    /\ failed \subseteq Files
    /\ placed \subseteq Items
    /\ abandoned \subseteq Loans
    /\ requests \in Nat
    /\ crashes \in Nat

(***************************************************************************)
(* Every file that a drop was answered for is filed or held, unless its    *)
(* held row could not be written: moves, retries and crashes in any order  *)
(* lose nothing.                                                           *)
(***************************************************************************)
NothingIsLost == accepted \subseteq Routed \cup held \cup failed

(***************************************************************************)
(* A ready loan is left without a job only by a crash, by a rescan that    *)
(* moved a file to it and then threw, or by a drop that has a file of the  *)
(* loan and a file that is not filed there alone: one not filed yet, one   *)
(* of another loan, or one filed at two loans.                             *)
(***************************************************************************)
AllIdle == \A p \in Handlers : h[p].at = "idle"

LoansOf(f) == {a.loan : a \in {b \in Filed : b.file = f}}

Drops == {drop.files : drop \in trays} \cup {Contents[z] : z \in Archives}

OnlyDropsMissLoans ==
    AllIdle /\ crashes = 0 =>
        \A l \in loans : Ready(l) /\ l \notin told \cup abandoned =>
            \E files \in Drops :
              /\ \E f \in files : l \in LoansOf(f)
              /\ \E g \in files : LoansOf(g) # {l}

(***************************************************************************)
(* What data-room.routes.ts:246-247 says of a file whose folder            *)
(* contradicts its type: it is never filed without a person.               *)
(***************************************************************************)
ContradictedIsConfirmed == Contradicted \cap Routed \subseteq placed

=============================================================================
