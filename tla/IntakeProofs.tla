----------------------------- MODULE IntakeProofs -----------------------------
(***************************************************************************)
(* Proofs about intake, for every pool: no file is lost, and a ready loan  *)
(* is left without a job only by a crash, by a rescan that threw or by a   *)
(* drop it shares.                                                         *)
(***************************************************************************)
EXTENDS Intake, FiniteSetTheorems, TLAPS

Kept == Routed \cup held \cup failed

(***************************************************************************)
(* What a handler may rely on at its next statement.                       *)
(***************************************************************************)
Keeps(p) ==
    /\ h[p].at = "hold" => h[p].files \subseteq Kept \cup h[p].todo
    /\ h[p].at \in {"settle", "discard"} => h[p].files \subseteq Kept
    /\ h[p].at = "discard" => h[p].archive \in Archives

Addressed(p) ==
    h[p].at \in {"move", "delete", "unfile"} => h[p].address \in Address

Moves(p) ==
    /\ h[p].at = "delete" => h[p].address.file \in Routed
    /\ h[p].at = "unfile" =>
         \E a \in Filed : a.file = h[p].address.file /\ a # h[p].address

Relies(p) == Addressed(p) /\ Keeps(p) /\ Moves(p)

OneInSync == \A p, q \in Handlers : h[p].at \in Sync /\ h[q].at \in Sync => p = q

(***************************************************************************)
(* The inductive invariant.                                                *)
(***************************************************************************)
Safe ==
    /\ TypeOK
    /\ OneInSync
    /\ \A p \in Handlers : Relies(p)
    /\ \A drop \in trays : drop.files \subseteq accepted
    /\ NothingIsLost

-----------------------------------------------------------------------------

(***************************************************************************)
(* A transaction that files documents clears no other one.                 *)
(***************************************************************************)
LEMMA PersistFiles ==
    ASSUME TypeOK, NEW entries \in SUBSET Address, persist(entries)
    PROVE  /\ seq' \in [Address -> Nat]
           /\ written' \in Nat
           /\ Filed' = Filed \cup entries
           /\ Routed \subseteq Routed'
<1>1. seq' \in [Address -> Nat] /\ written' \in Nat
  BY DEF persist, TypeOK
<1>2. \A a \in Address : seq'[a] > 0 <=> a \in entries \/ seq[a] > 0
  BY DEF persist, TypeOK
<1>3. Filed' = Filed \cup entries
  BY <1>2 DEF Filed
<1>. QED
  BY <1>1, <1>3 DEF Routed

(***************************************************************************)
(* The state keeps its type.                                               *)
(***************************************************************************)
LEMMA InitTyped == Init => TypeOK
<1> SUFFICES ASSUME Init PROVE TypeOK
  OBVIOUS
<1>1. Idle \in Handler
  BY DEF Idle, Handler, Waits
<1>2. h \in [Handlers -> Handler]
  BY <1>1 DEF Init
<1>. QED
  BY <1>2 DEF Init, TypeOK, Items

LEMMA TypeStep ==
    TypeOK /\ (\A p \in Handlers : Addressed(p)) /\ [Next]_vars => TypeOK'
<1> SUFFICES ASSUME TypeOK, \A p \in Handlers : Addressed(p), [Next]_vars
             PROVE  TypeOK'
  OBVIOUS
<1> USE IntakeData
<1>0. Idle \in Handler
  BY DEF Idle, Handler, Waits
<1>1. CASE UNCHANGED vars
  BY <1>1 DEF vars, room, ghosts, TypeOK
<1>2. CASE Crash
  <2>1. h' \in [Handlers -> Handler]
    BY <1>0, <1>2 DEF Crash
  <2>. QED
    BY <1>2, <2>1 DEF Crash, room, ghosts, TypeOK
<1>3. ASSUME NEW p \in Handlers, Drop(p) PROVE TypeOK'
  <2>0. h[p] \in Handler
    BY DEF TypeOK
  <2>1. ASSUME NEW files \in (SUBSET Files) \ {{}}, Staging(p, files) PROVE TypeOK'
    <3>1. [Idle EXCEPT !.at = "assign", !.files = files, !.known = loans] \in Handler
      BY DEF Idle, Handler, Waits, TypeOK
    <3>. QED
      BY <2>1, <3>1 DEF Staging, Start, room, ghosts, TypeOK
  <2>2. ASSUME NEW z \in Archives, Retry(p, z) PROVE TypeOK'
    <3>1. [Idle EXCEPT !.at = "assign", !.files = Contents[z], !.known = loans,
                       !.archive = z] \in Handler
      BY DEF Idle, Handler, Waits, TypeOK
    <3>. QED
      BY <2>2, <3>1 DEF Retry, Start, room, ghosts, TypeOK
  <2>3. ASSUME assignDataRoomFiles(p) PROVE TypeOK'
    <3>1. PICK filed \in SUBSET {f \in h[p].files : /\ verdictFor(f, h[p].known) = "auto"
                                                    /\ f \notin Contradicted} :
            /\ persist({At(Owner[f], TypeOf[f], f) : f \in filed})
            /\ h' = [h EXCEPT ![p].at = "hold", ![p].confirm = h[p].files \ filed,
                                ![p].todo = h[p].files \ filed]
      BY <2>3 DEF assignDataRoomFiles
    <3>2. \A f \in filed : At(Owner[f], TypeOf[f], f) \in Address
      BY <2>0 DEF verdictFor, At, Address, Items, Handler
    <3>3. seq' \in [Address -> Nat] /\ written' \in Nat
      BY <3>1, <3>2, PersistFiles
    <3>4. [h[p] EXCEPT !.at = "hold", !.confirm = h[p].files \ filed,
                       !.todo = h[p].files \ filed] \in Handler
      BY <2>0 DEF Handler, Waits
    <3>5. h' \in [Handlers -> Handler]
      BY <3>1, <3>4 DEF TypeOK
    <3>. QED
      BY <2>3, <3>3, <3>5 DEF assignDataRoomFiles, ghosts, TypeOK
  <2>4. ASSUME NEW f \in Files, holdStagedFiles(p, f) PROVE TypeOK'
    <3>1. [h[p] EXCEPT !.todo = @ \ {f}] \in Handler
      BY <2>0 DEF Handler
    <3>. QED
      BY <2>4, <3>1 DEF holdStagedFiles, Items, TypeOK
  <2>5. ASSUME Held(p) PROVE TypeOK'
    <3>1. \A at \in {"settle", "discard"} : [h[p] EXCEPT !.at = at] \in Handler
      BY <2>0 DEF Handler, Sync
    <3>. QED
      BY <2>5, <3>1 DEF Held, Goto, room, ghosts, TypeOK
  <2>6. ASSUME deleteHeldDoc(p) PROVE TypeOK'
    <3>1. [h[p] EXCEPT !.at = "settle"] \in Handler
      BY <2>0 DEF Handler, Sync
    <3>2. h[p].files \subseteq Items
      BY <2>0 DEF Handler, Items
    <3>. QED
      BY <2>6, <3>1, <3>2 DEF deleteHeldDoc, Goto, TypeOK
  <2>7. ASSUME Settle(p) PROVE TypeOK'
    <3>1. h[p].files \subseteq Items /\ h[p].files \subseteq Files /\ h[p].confirm \subseteq Files
      BY <2>0 DEF Handler, Items
    <3>2. [files |-> h[p].files, confirm |-> h[p].confirm]
            \in [files : SUBSET Files, confirm : SUBSET Files]
      BY <3>1
    <3>3. h' \in [Handlers -> Handler]
      BY <1>0, <2>7 DEF Settle, TypeOK
    <3>4. told' \subseteq Loans
      BY <2>7 DEF Settle, enqueueUnderwriteOnSettle, TypeOK
    <3>. QED
      BY <2>7, <3>1, <3>2, <3>3, <3>4 DEF Settle, room, TypeOK
  <2>. QED
    BY <1>3, <2>1, <2>2, <2>3, <2>4, <2>5, <2>6, <2>7 DEF Drop
<1>4. ASSUME NEW p \in Handlers, Person(p) PROVE TypeOK'
  <2>0. h[p] \in Handler
    BY DEF TypeOK
  <2>1. ASSUME NEW drop \in trays, NEW some \in (SUBSET drop.confirm) \ {{}},
               NEW where \in [some -> loans \X Types], Assign(p, drop, where)
        PROVE TypeOK'
    <3>1. drop.files \subseteq Files /\ drop.confirm \subseteq Files
      BY DEF TypeOK
    <3>2. [Idle EXCEPT !.at = "settle", !.files = drop.files, !.confirm = drop.confirm]
            \in Handler
      BY <3>1 DEF Idle, Handler, Sync
    <3>3. \A f \in DOMAIN where : At(where[f][1], where[f][2], f) \in Address
      BY <3>1 DEF At, Address, Items, TypeOK
    <3>4. seq' \in [Address -> Nat] /\ written' \in Nat
      BY <2>1, <3>3, PersistFiles DEF Assign
    <3>5. DOMAIN where \subseteq Items
      BY <3>1 DEF Items
    <3>6. h' \in [Handlers -> Handler]
      BY <2>1, <3>2 DEF Assign, Start, TypeOK
    <3>. QED
      BY <2>1, <3>4, <3>5, <3>6 DEF Assign, Start, TypeOK
  <2>2. ASSUME NEW l \in loans, NEW t \in Types, NEW f \in Items, Identify(p, l, t, f)
        PROVE TypeOK'
    <3>1. At(l, t, f) \in Address
      BY DEF At, Address, TypeOK
    <3>2. [Idle EXCEPT !.at = "move", !.address = At(l, t, f)] \in Handler
      BY <3>1 DEF Idle, Handler, Waits, TypeOK
    <3>. QED
      BY <2>2, <3>2 DEF Identify, Start, room, TypeOK
  <2>3. ASSUME NEW l \in loans, NEW t \in Types, NEW f \in Items,
               reclassifyDataRoomDoc(p, l, t, f)
        PROVE TypeOK'
    <3>1. PICK current \in firstByHash(f) :
            IF current = At(l, t, f)
            THEN /\ Start(p, [Idle EXCEPT !.at = "reeval", !.touched = {l}])
                 /\ UNCHANGED <<seq, written>>
            ELSE /\ Start(p, [Idle EXCEPT !.at = "unfile", !.address = current,
                                          !.touched = {l}])
                 /\ persist({At(l, t, f)})
      BY <2>3 DEF reclassifyDataRoomDoc
    <3>2. At(l, t, f) \in Address /\ current \in Address
      BY DEF At, Address, firstByHash, Filed, TypeOK
    <3>3. /\ [Idle EXCEPT !.at = "reeval", !.touched = {l}] \in Handler
          /\ [Idle EXCEPT !.at = "unfile", !.address = current, !.touched = {l}] \in Handler
      BY <3>2 DEF Idle, Handler, Sync, TypeOK
    <3>4. /\ h' \in [Handlers -> Handler]
          /\ requests' \in Nat
      BY <3>1, <3>3 DEF Start, TypeOK
    <3>5. seq' \in [Address -> Nat] /\ written' \in Nat
      <4>1. CASE current = At(l, t, f)
        BY <3>1, <4>1 DEF TypeOK
      <4>2. CASE current # At(l, t, f)
        BY <3>1, <3>2, <4>2, PersistFiles
      <4>. QED
        BY <4>1, <4>2
    <3>. QED
      BY <2>3, <3>4, <3>5 DEF reclassifyDataRoomDoc, TypeOK
  <2>4. ASSUME identifyHeldDoc(p) PROVE TypeOK'
    <3>1. h[p].address \in Address
      BY <2>4 DEF identifyHeldDoc, Addressed
    <3>2. seq' \in [Address -> Nat] /\ written' \in Nat
      BY <2>4, <3>1, PersistFiles DEF identifyHeldDoc
    <3>3. [h[p] EXCEPT !.at = "delete"] \in Handler
      BY <2>0 DEF Handler, Sync
    <3>. QED
      BY <2>4, <3>1, <3>2, <3>3 DEF identifyHeldDoc, Goto, ghosts, Address, TypeOK
  <2>5. ASSUME Unhold(p) PROVE TypeOK'
    <3>1. h[p].address.loan \in Loans
      BY <2>5 DEF Unhold, Addressed, Address
    <3>2. \A at \in {"rescan", "reeval"} :
            [h[p] EXCEPT !.at = at, !.touched = @ \cup {h[p].address.loan}] \in Handler
      BY <2>0, <3>1 DEF Handler, Sync, Waits
    <3>. QED
      BY <2>5, <3>2 DEF Unhold, ghosts, TypeOK
  <2>6. ASSUME deleteByAddress(p) PROVE TypeOK'
    <3>1. [h[p] EXCEPT !.at = "reeval"] \in Handler
      BY <2>0 DEF Handler, Sync
    <3>2. seq' \in [Address -> Nat]
      BY <2>6 DEF deleteByAddress, TypeOK
    <3>. QED
      BY <2>6, <3>1, <3>2 DEF deleteByAddress, Goto, ghosts, TypeOK
  <2>7. ASSUME reevaluateAndEnqueueIfReady(p) PROVE TypeOK'
    <3>1. told' \subseteq Loans
      BY <2>7 DEF reevaluateAndEnqueueIfReady, TypeOK
    <3>2. h' \in [Handlers -> Handler]
      BY <1>0, <2>7 DEF reevaluateAndEnqueueIfReady, TypeOK
    <3>. QED
      BY <2>7, <3>1, <3>2 DEF reevaluateAndEnqueueIfReady, room, ghosts, TypeOK
  <2>. QED
    BY <1>4, <2>1, <2>2, <2>3, <2>4, <2>5, <2>6, <2>7 DEF Person
<1>5. ASSUME NEW p \in Handlers, Arrival(p) PROVE TypeOK'
  <2>0. h[p] \in Handler
    BY DEF TypeOK
  <2>1. ASSUME NEW l \in Loans, LoanArrives(p, l) PROVE TypeOK'
    <3>1. [Idle EXCEPT !.at = "rescan", !.rescan = TRUE, !.known = loans',
                       !.todo = held \ Archives] \in Handler
      BY <2>1 DEF LoanArrives, Idle, Handler, Waits, Items, TypeOK
    <3>. QED
      BY <2>1, <3>1 DEF LoanArrives, Start, room, ghosts, TypeOK
  <2>2. ASSUME NEW f \in Files, rescanHeldOnLoanArrival(p, f) PROVE TypeOK'
    <3>1. [h[p] EXCEPT !.todo = @ \ {f}] \in Handler
      BY <2>0 DEF Handler
    <3>2. ASSUME verdictFor(f, h[p].known) = "auto"
          PROVE  [h[p] EXCEPT !.todo = @ \ {f}, !.at = "move",
                              !.address = At(Owner[f], TypeOf[f], f)] \in Handler
      <4>1. Owner[f] \in Loans /\ At(Owner[f], TypeOf[f], f) \in Address
        BY <2>0, <3>2 DEF verdictFor, At, Address, Items, Handler
      <4>. QED
        BY <2>0, <4>1 DEF Handler, Waits
    <3>3. h' \in [Handlers -> Handler]
      <4>1. CASE /\ verdictFor(f, h[p].known) = "auto"
                 /\ h' = [h EXCEPT ![p].at = "move", ![p].todo = @ \ {f},
                                             ![p].address = At(Owner[f], TypeOf[f], f)]
        BY <3>2, <4>1 DEF TypeOK
      <4>2. CASE h' = [h EXCEPT ![p].todo = @ \ {f}]
        BY <3>1, <4>2 DEF TypeOK
      <4>. QED
        BY <2>2, <4>1, <4>2 DEF rescanHeldOnLoanArrival
    <3>. QED
      BY <2>2, <3>3 DEF rescanHeldOnLoanArrival, room, ghosts, TypeOK
  <2>3. ASSUME Rescanned(p) PROVE TypeOK'
    <3>1. [h[p] EXCEPT !.at = "reeval"] \in Handler
      BY <2>0 DEF Handler, Sync
    <3>. QED
      BY <2>3, <3>1 DEF Rescanned, Goto, room, ghosts, TypeOK
  <2>4. ASSUME getBlobThrows(p) PROVE TypeOK'
    <3>1. h[p].touched \subseteq Loans
      BY <2>0 DEF Handler
    <3>2. h' \in [Handlers -> Handler]
      BY <1>0, <2>4 DEF getBlobThrows, TypeOK
    <3>. QED
      BY <2>4, <3>1, <3>2 DEF getBlobThrows, room, TypeOK
  <2>. QED
    BY <1>5, <2>1, <2>2, <2>3, <2>4 DEF Arrival
<1>. QED
  BY <1>1, <1>2, <1>3, <1>4, <1>5 DEF Next

-----------------------------------------------------------------------------

(***************************************************************************)
(* No step takes a file out of the data room: a document filed somewhere   *)
(* stays filed somewhere, a file kept stays kept, and what is no longer    *)
(* kept is no longer owed (the row of an unpacked archive).                *)
(***************************************************************************)
LEMMA NothingVanishes ==
    ASSUME Safe, [Next]_vars
    PROVE  /\ Routed \subseteq Routed'
           /\ Kept \cap Files \subseteq Kept'
           /\ accepted' \cap Kept \subseteq Kept'
<1> USE IntakeData
<1> SUFFICES ASSUME [Next]_vars
             PROVE  /\ Routed \subseteq Routed'
                    /\ held \subseteq held' \cup Routed
                         \/ \E z \in Archives : held' = held \ {z} /\ z \notin accepted'
                    /\ failed \subseteq failed'
  BY DEF Kept
<1>0. TypeOK
  BY DEF Safe
<1>1. ASSUME seq' = seq PROVE Routed' = Routed
  BY <1>1 DEF Routed, Filed
<1>2. CASE UNCHANGED vars
  BY <1>1, <1>2 DEF vars, room, ghosts
<1>3. CASE Crash
  BY <1>1, <1>3 DEF Crash, room, ghosts
<1>4. ASSUME NEW p \in Handlers, Drop(p)
      PROVE  /\ Routed \subseteq Routed'
             /\ held \subseteq held' \cup Routed
                  \/ \E z \in Archives : held' = held \ {z} /\ z \notin accepted'
             /\ failed \subseteq failed'
  <2>0. h[p] \in Handler
    BY <1>0 DEF TypeOK
  <2>1. CASE assignDataRoomFiles(p)
    <3>1. PICK filed \in SUBSET {f \in h[p].files : /\ verdictFor(f, h[p].known) = "auto"
                                                    /\ f \notin Contradicted} :
            persist({At(Owner[f], TypeOf[f], f) : f \in filed})
      BY <2>1 DEF assignDataRoomFiles
    <3>2. \A f \in filed : At(Owner[f], TypeOf[f], f) \in Address
      BY <2>0 DEF verdictFor, At, Address, Items, Handler
    <3>. QED
      BY <1>0, <2>1, <3>1, <3>2, PersistFiles DEF assignDataRoomFiles, ghosts
  <2>2. CASE deleteHeldDoc(p)
    <3>1. h[p].archive \in Archives /\ h[p].archive \notin h[p].files
      BY <2>0, <2>2 DEF deleteHeldDoc, Safe, Relies, Keeps, Handler
    <3>. QED
      BY <1>1, <2>2, <3>1 DEF deleteHeldDoc
  <2>3. CASE \E f \in Files : holdStagedFiles(p, f)
    BY <1>1, <2>3 DEF holdStagedFiles
  <2>4. CASE \/ \E files \in (SUBSET Files) \ {{}} : Staging(p, files)
             \/ \E z \in Archives : Retry(p, z)
             \/ Held(p)
             \/ Settle(p)
    BY <1>1, <2>4 DEF Staging, Retry, Held, Settle, room, ghosts
  <2>. QED
    BY <1>4, <2>1, <2>2, <2>3, <2>4 DEF Drop
<1>5. ASSUME NEW p \in Handlers, Person(p)
      PROVE  /\ Routed \subseteq Routed'
             /\ held \subseteq held' \cup Routed
             /\ failed \subseteq failed'
  <2>1. ASSUME NEW drop \in trays, NEW some \in (SUBSET drop.confirm) \ {{}},
               NEW where \in [some -> loans \X Types], Assign(p, drop, where)
        PROVE  Routed \subseteq Routed' /\ held' = held /\ failed' = failed
    <3>1. \A f \in DOMAIN where : At(where[f][1], where[f][2], f) \in Address
      BY <1>0 DEF At, Address, Items, TypeOK
    <3>. QED
      BY <1>0, <2>1, <3>1, PersistFiles DEF Assign
  <2>2. ASSUME NEW l \in loans, NEW t \in Types, NEW f \in Items, Identify(p, l, t, f)
        PROVE  Routed \subseteq Routed' /\ held' = held /\ failed' = failed
    BY <1>1, <2>2 DEF Identify, room
  <2>3. ASSUME NEW l \in loans, NEW t \in Types, NEW f \in Items,
               reclassifyDataRoomDoc(p, l, t, f)
        PROVE  Routed \subseteq Routed' /\ held' = held /\ failed' = failed
    <3>1. At(l, t, f) \in Address
      BY <1>0 DEF At, Address, TypeOK
    <3>2. seq' = seq \/ persist({At(l, t, f)})
      BY <2>3 DEF reclassifyDataRoomDoc
    <3>. QED
      BY <1>0, <1>1, <2>3, <3>1, <3>2, PersistFiles DEF reclassifyDataRoomDoc
  <2>4. CASE identifyHeldDoc(p)
    <3>1. h[p].address \in Address
      BY <2>4 DEF identifyHeldDoc, Safe, Relies, Addressed
    <3>. QED
      BY <1>0, <2>4, <3>1, PersistFiles DEF identifyHeldDoc, ghosts
  <2>5. CASE Unhold(p)
    <3>1. h[p].address.file \in Routed
      BY <2>5 DEF Unhold, Safe, Relies, Moves
    <3>. QED
      BY <1>1, <2>5, <3>1 DEF Unhold, ghosts
  <2>6. CASE deleteByAddress(p)
    <3>1. PICK a \in Filed : a.file = h[p].address.file /\ a # h[p].address
      BY <2>6 DEF deleteByAddress, Safe, Relies, Moves
    <3>2. \A b \in Filed : b # h[p].address => b \in Filed'
      BY <1>0, <2>6 DEF deleteByAddress, Filed, TypeOK
    <3>3. \A b \in Filed : \E c \in Filed' : c.file = b.file
      BY <3>1, <3>2
    <3>4. Routed \subseteq Routed'
      BY <3>3 DEF Routed
    <3>. QED
      BY <2>6, <3>4 DEF deleteByAddress, ghosts
  <2>7. CASE reevaluateAndEnqueueIfReady(p)
    BY <1>1, <2>7 DEF reevaluateAndEnqueueIfReady, room, ghosts
  <2>. QED
    BY <1>5, <2>1, <2>2, <2>3, <2>4, <2>5, <2>6, <2>7 DEF Person
<1>6. ASSUME NEW p \in Handlers, Arrival(p)
      PROVE  Routed' = Routed /\ held' = held /\ failed' = failed
  BY <1>1, <1>6 DEF Arrival, LoanArrives, rescanHeldOnLoanArrival, getBlobThrows, Rescanned, room, ghosts
<1>. QED
  BY <1>2, <1>3, <1>4, <1>5, <1>6 DEF Next

(***************************************************************************)
(* A drop is answered only for files that are kept.                        *)
(***************************************************************************)
LEMMA AnswersAreKept ==
    ASSUME Safe, [Next]_vars
    PROVE  /\ accepted' \subseteq Kept
           /\ \A drop \in trays' : drop.files \subseteq accepted'
<1> USE IntakeData
<1>0. accepted \subseteq Kept
  BY DEF Safe, NothingIsLost, Kept
<1>1. ASSUME trays' = trays, accepted' = accepted
      PROVE  /\ accepted' \subseteq Kept
             /\ \A drop \in trays' : drop.files \subseteq accepted'
  BY <1>0, <1>1 DEF Safe
<1>2. ASSUME NEW p \in Handlers, deleteHeldDoc(p)
      PROVE  /\ accepted' \subseteq Kept
             /\ \A drop \in trays' : drop.files \subseteq accepted'
  <2>1. h[p].files \subseteq Kept /\ h[p].archive \in Archives
    BY <1>2 DEF deleteHeldDoc, Safe, Relies, Keeps
  <2>2. \A drop \in trays : drop.files \subseteq Files
    BY DEF Safe, TypeOK
  <2>. QED
    BY <1>0, <1>2, <2>1, <2>2 DEF deleteHeldDoc, Safe
<1>3. ASSUME NEW p \in Handlers, Settle(p)
      PROVE  /\ accepted' \subseteq Kept
             /\ \A drop \in trays' : drop.files \subseteq accepted'
  <2>1. h[p].files \subseteq Kept
    BY <1>3 DEF Settle, Safe, Relies, Keeps
  <2>2. trays' \subseteq trays \cup {[files |-> h[p].files, confirm |-> h[p].confirm]}
    BY <1>3 DEF Settle
  <2>. QED
    BY <1>0, <1>3, <2>1, <2>2 DEF Settle, Safe
<1>4. CASE UNCHANGED vars \/ Crash
  BY <1>1, <1>4 DEF vars, ghosts, Crash
<1>5. ASSUME NEW p \in Handlers, Drop(p) \/ Person(p) \/ Arrival(p),
             ~ deleteHeldDoc(p), ~ Settle(p)
      PROVE  trays' = trays /\ accepted' = accepted
  <2>1. CASE Drop(p)
    BY <1>5, <2>1 DEF Drop, Staging, Retry, assignDataRoomFiles, holdStagedFiles, Held, ghosts
  <2>2. CASE Person(p)
    BY <2>2 DEF Person, Assign, Identify, reclassifyDataRoomDoc, identifyHeldDoc, Unhold,
                deleteByAddress, reevaluateAndEnqueueIfReady, ghosts
  <2>3. CASE Arrival(p)
    BY <2>3 DEF Arrival, LoanArrives, rescanHeldOnLoanArrival, getBlobThrows, Rescanned, ghosts
  <2>. QED
    BY <1>5, <2>1, <2>2, <2>3
<1>. QED
  BY <1>1, <1>2, <1>3, <1>4, <1>5 DEF Next

(***************************************************************************)
(* While one handler makes a step, no other one is within a run of         *)
(* statements without an await, and the others stay where they are.        *)
(***************************************************************************)
LEMMA OneAtATime ==
    ASSUME Safe, NEW p \in Handlers, Drop(p) \/ Person(p) \/ Arrival(p),
           NEW q \in Handlers, q # p
    PROVE  h'[q] = h[q] /\ h[q].at \notin Sync
<1>1. h[p].at \notin Sync => Quiet
  BY DEF Drop, Staging, Retry, assignDataRoomFiles, holdStagedFiles, Held, deleteHeldDoc,
         Settle, Person, Assign, Identify, reclassifyDataRoomDoc, identifyHeldDoc, Unhold,
         deleteByAddress, reevaluateAndEnqueueIfReady, Arrival, LoanArrives,
         rescanHeldOnLoanArrival, getBlobThrows, Rescanned, Start, Sync
<1>2. h[q].at \notin Sync
  BY <1>1 DEF Safe, OneInSync, Quiet
<1> SUFFICES h'[q] = h[q]
  BY <1>2
<1>3. h \in [Handlers -> Handler]
  BY DEF Safe, TypeOK
<1>a. \A handler : Start(p, handler) => h'[q] = h[q]
  BY <1>3 DEF Start
<1>b. \A at : Goto(p, at) => h'[q] = h[q]
  BY <1>3 DEF Goto
<1>4. CASE Drop(p)
  <2>1. CASE \/ \E files \in (SUBSET Files) \ {{}} : Staging(p, files)
             \/ \E z \in Archives : Retry(p, z)
    BY <1>a, <2>1 DEF Staging, Retry
  <2>2. CASE assignDataRoomFiles(p)
    BY <1>3, <2>2 DEF assignDataRoomFiles
  <2>3. CASE \E f \in Files : holdStagedFiles(p, f)
    BY <1>3, <2>3 DEF holdStagedFiles
  <2>4. CASE Held(p) \/ deleteHeldDoc(p)
    BY <1>b, <2>4 DEF Held, deleteHeldDoc
  <2>5. CASE Settle(p)
    BY <1>3, <2>5 DEF Settle
  <2>. QED
    BY <1>4, <2>1, <2>2, <2>3, <2>4, <2>5 DEF Drop
<1>5. CASE Person(p)
  <2>1. CASE \E drop \in trays : \E some \in (SUBSET drop.confirm) \ {{}} :
               \E where \in [some -> loans \X Types] : Assign(p, drop, where)
    BY <1>a, <2>1 DEF Assign
  <2>2. CASE \E l \in loans : \E t \in Types : \E f \in Items :
               Identify(p, l, t, f) \/ reclassifyDataRoomDoc(p, l, t, f)
    BY <1>a, <2>2 DEF Identify, reclassifyDataRoomDoc
  <2>3. CASE identifyHeldDoc(p) \/ deleteByAddress(p)
    BY <1>b, <2>3 DEF identifyHeldDoc, deleteByAddress
  <2>4. CASE Unhold(p) \/ reevaluateAndEnqueueIfReady(p)
    BY <1>3, <2>4 DEF Unhold, reevaluateAndEnqueueIfReady
  <2>. QED
    BY <1>5, <2>1, <2>2, <2>3, <2>4 DEF Person
<1>6. CASE Arrival(p)
  <2>1. CASE (\E l \in Loans : LoanArrives(p, l)) \/ Rescanned(p)
    BY <1>a, <1>b, <2>1 DEF LoanArrives, Rescanned
  <2>2. CASE \E f \in Files : rescanHeldOnLoanArrival(p, f)
    BY <1>3, <2>2 DEF rescanHeldOnLoanArrival
  <2>3. CASE getBlobThrows(p)
    BY <1>3, <2>3 DEF getBlobThrows
  <2>. QED
    BY <1>6, <2>1, <2>2, <2>3 DEF Arrival
<1>. QED
  BY <1>4, <1>5, <1>6

(***************************************************************************)
(* The handler that makes the step may rely on what its next one needs.    *)
(***************************************************************************)
LEMMA NextStatement ==
    ASSUME Safe, [Next]_vars, NEW p \in Handlers, Drop(p) \/ Person(p) \/ Arrival(p)
    PROVE  Relies(p)'
<1> USE IntakeData
<1>0. TypeOK /\ h[p] \in Handler
  BY DEF Safe, TypeOK
<1>1. Kept \cap Files \subseteq Kept'
  BY NothingVanishes
<1>a. \A handler : Start(p, handler) => h'[p] = handler
  BY <1>0 DEF Start, TypeOK
<1>b. \A at : Goto(p, at) => h'[p] = [h[p] EXCEPT !.at = at]
  BY <1>0 DEF Goto, TypeOK
<1>c. \A at : [h[p] EXCEPT !.at = at].at = at
  BY <1>0 DEF Handler
<1>2. ASSUME h'[p].at \in {"idle", "assign", "reeval", "rescan"} PROVE Relies(p)'
  BY <1>2 DEF Relies, Addressed, Keeps, Moves
<1>3. CASE Drop(p)
  <2>1. ASSUME NEW files \in SUBSET Files, Staging(p, files) PROVE Relies(p)'
    BY <1>2, <1>a, <2>1 DEF Staging, Idle
  <2>6. ASSUME NEW z \in Archives, Retry(p, z) PROVE Relies(p)'
    BY <1>2, <1>a, <2>6 DEF Retry, Idle
  <2>7. CASE Settle(p)
    BY <1>0, <1>2, <2>7 DEF Settle, Idle, TypeOK
  <2>2. CASE assignDataRoomFiles(p)
    <3>1. PICK filed \in SUBSET {f \in h[p].files : /\ verdictFor(f, h[p].known) = "auto"
                                                    /\ f \notin Contradicted} :
            /\ persist({At(Owner[f], TypeOf[f], f) : f \in filed})
            /\ h' = [h EXCEPT ![p].at = "hold", ![p].confirm = h[p].files \ filed,
                                ![p].todo = h[p].files \ filed]
      BY <2>2 DEF assignDataRoomFiles
    <3>2. \A f \in filed : At(Owner[f], TypeOf[f], f) \in Address
      BY <1>0 DEF verdictFor, At, Address, Items, Handler
    <3>3. \A f \in filed : At(Owner[f], TypeOf[f], f) \in Filed'
      BY <1>0, <3>1, <3>2, PersistFiles
    <3>4. filed \subseteq Routed'
      <4>1. \A f \in filed : At(Owner[f], TypeOf[f], f).file = f
        BY DEF At
      <4>. QED
        BY <3>3, <4>1 DEF Routed
    <3>5. /\ h'[p].at = "hold" /\ h'[p].files = h[p].files
          /\ h'[p].todo = h[p].files \ filed
      <4>1. h'[p] = [h[p] EXCEPT !.at = "hold", !.confirm = h[p].files \ filed,
                                 !.todo = h[p].files \ filed]
        BY <1>0, <3>1 DEF TypeOK
      <4>. QED
        BY <1>0, <4>1 DEF Handler
    <3>. QED
      BY <3>4, <3>5 DEF Relies, Addressed, Keeps, Moves, Kept
  <2>3. ASSUME NEW f \in Files, holdStagedFiles(p, f) PROVE Relies(p)'
    <3>1. /\ h'[p].at = "hold" /\ h'[p].files = h[p].files
          /\ h'[p].todo = h[p].todo \ {f}
      BY <1>0, <2>3 DEF holdStagedFiles, TypeOK, Handler
    <3>2. f \in Kept'
      BY <2>3 DEF holdStagedFiles, Kept
    <3>3. h[p].files \subseteq Kept \cup h[p].todo
      BY <2>3 DEF holdStagedFiles, Safe, Relies, Keeps
    <3>4. h[p].files \subseteq Files
      BY <1>0 DEF Handler
    <3>. QED
      BY <1>1, <3>1, <3>2, <3>3, <3>4 DEF Relies, Addressed, Keeps, Moves
  <2>4. CASE Held(p)
    <3>1. /\ h'[p].at = IF h[p].archive = None THEN "settle" ELSE "discard"
          /\ h'[p].files = h[p].files /\ h'[p].archive = h[p].archive
      BY <1>0, <2>4 DEF Held, Goto, TypeOK, Handler
    <3>2. h[p].files \subseteq Kept
      BY <2>4 DEF Held, Safe, Relies, Keeps
    <3>3. h[p].files \subseteq Files /\ h[p].archive \in Archives \cup {None}
      BY <1>0 DEF Handler
    <3>. QED
      BY <1>1, <3>1, <3>2, <3>3 DEF Relies, Addressed, Keeps, Moves
  <2>5. CASE deleteHeldDoc(p)
    <3>1. h'[p].at = "settle" /\ h'[p].files = h[p].files
      BY <1>0, <2>5 DEF deleteHeldDoc, Goto, TypeOK, Handler
    <3>2. h[p].files \subseteq Kept
      BY <2>5 DEF deleteHeldDoc, Safe, Relies, Keeps
    <3>3. h[p].files \subseteq Files
      BY <1>0 DEF Handler
    <3>. QED
      BY <1>1, <3>1, <3>2, <3>3 DEF Relies, Addressed, Keeps, Moves
  <2>. QED
    BY <1>3, <2>1, <2>2, <2>3, <2>4, <2>5, <2>6, <2>7 DEF Drop
<1>4. CASE Person(p)
  <2>1. ASSUME NEW drop \in trays, NEW some \in (SUBSET drop.confirm) \ {{}},
               NEW where \in [some -> loans \X Types], Assign(p, drop, where)
        PROVE  Relies(p)'
    <3>1. h'[p].at = "settle" /\ h'[p].files = drop.files
      BY <1>0, <2>1 DEF Assign, Start, Idle, TypeOK
    <3>2. drop.files \subseteq Kept /\ drop.files \subseteq Files
      BY DEF Safe, NothingIsLost, Kept, TypeOK
    <3>. QED
      BY <1>1, <3>1, <3>2 DEF Relies, Addressed, Keeps, Moves
  <2>2. ASSUME NEW l \in loans, NEW t \in Types, NEW f \in Items, Identify(p, l, t, f)
        PROVE  Relies(p)'
    <3>1. At(l, t, f) \in Address
      BY <1>0 DEF At, Address, TypeOK
    <3>2. h'[p].at = "move" /\ h'[p].address = At(l, t, f)
      BY <1>0, <2>2 DEF Identify, Start, Idle, TypeOK
    <3>. QED
      BY <3>1, <3>2 DEF Relies, Addressed, Keeps, Moves, Address
  <2>3. ASSUME NEW l \in loans, NEW t \in Types, NEW f \in Items,
               reclassifyDataRoomDoc(p, l, t, f)
        PROVE  Relies(p)'
    <3>1. PICK current \in firstByHash(f) :
            IF current = At(l, t, f)
            THEN /\ Start(p, [Idle EXCEPT !.at = "reeval", !.touched = {l}])
                 /\ UNCHANGED <<seq, written>>
            ELSE /\ Start(p, [Idle EXCEPT !.at = "unfile", !.address = current,
                                          !.touched = {l}])
                 /\ persist({At(l, t, f)})
      BY <2>3 DEF reclassifyDataRoomDoc
    <3>2. At(l, t, f) \in Address /\ current \in Address /\ current.file = f
      BY <1>0 DEF At, Address, firstByHash, Filed, TypeOK
    <3>3. CASE current = At(l, t, f)
      BY <1>2, <1>a, <3>1, <3>3 DEF Idle
    <3>4. CASE current # At(l, t, f)
      <4>1. h'[p].at = "unfile" /\ h'[p].address = current
        BY <1>a, <3>1, <3>4 DEF Idle
      <4>2. At(l, t, f) \in Filed'
        BY <1>0, <3>1, <3>2, <3>4, PersistFiles
      <4>3. At(l, t, f).file = f
        BY DEF At
      <4>. QED
        BY <3>2, <3>4, <4>1, <4>2, <4>3 DEF Relies, Addressed, Keeps, Moves, Address
    <3>. QED
      BY <3>3, <3>4
  <2>4. CASE identifyHeldDoc(p)
    <3>1. h[p].address \in Address
      BY <2>4 DEF identifyHeldDoc, Safe, Relies, Addressed
    <3>2. h[p].address \in Filed'
      BY <1>0, <2>4, <3>1, PersistFiles DEF identifyHeldDoc
    <3>3. h[p].address.file \in Routed'
      BY <3>2 DEF Routed
    <3>4. h'[p].at = "delete" /\ h'[p].address = h[p].address
      BY <1>0, <2>4 DEF identifyHeldDoc, Goto, TypeOK, Handler
    <3>. QED
      BY <3>1, <3>3, <3>4 DEF Relies, Addressed, Keeps, Moves, Address
  <2>5. CASE Unhold(p)
    BY <1>0, <1>2, <2>5 DEF Unhold, TypeOK, Handler
  <2>8. CASE deleteByAddress(p)
    BY <1>2, <1>b, <1>c, <2>8 DEF deleteByAddress
  <2>6. CASE reevaluateAndEnqueueIfReady(p)
    BY <1>0, <1>2, <2>6 DEF reevaluateAndEnqueueIfReady, Idle, TypeOK
  <2>. QED
    BY <1>4, <2>1, <2>2, <2>3, <2>4, <2>5, <2>6, <2>8 DEF Person
<1>5. CASE Arrival(p)
  <2>1. ASSUME NEW l \in Loans, LoanArrives(p, l) PROVE Relies(p)'
    BY <1>2, <1>a, <2>1 DEF LoanArrives, Idle
  <2>3. CASE Rescanned(p)
    BY <1>2, <1>b, <1>c, <2>3 DEF Rescanned
  <2>4. CASE getBlobThrows(p)
    BY <1>0, <1>2, <2>4 DEF getBlobThrows, Idle, TypeOK
  <2>2. ASSUME NEW f \in Files, rescanHeldOnLoanArrival(p, f) PROVE Relies(p)'
    <3>1. CASE /\ verdictFor(f, h[p].known) = "auto"
               /\ h' = [h EXCEPT ![p].at = "move", ![p].todo = @ \ {f},
                                         ![p].address = At(Owner[f], TypeOf[f], f)]
      <4>1. At(Owner[f], TypeOf[f], f) \in Address
        BY <1>0, <3>1 DEF verdictFor, At, Address, Items, Handler
      <4>2. h'[p].at = "move" /\ h'[p].address = At(Owner[f], TypeOf[f], f)
        BY <1>0, <3>1 DEF TypeOK, Handler
      <4>. QED
        BY <4>1, <4>2 DEF Relies, Addressed, Keeps, Moves, Address
    <3>2. CASE h' = [h EXCEPT ![p].todo = @ \ {f}]
      BY <1>0, <1>2, <2>2, <3>2 DEF rescanHeldOnLoanArrival, TypeOK, Handler
    <3>. QED
      BY <2>2, <3>1, <3>2 DEF rescanHeldOnLoanArrival
  <2>. QED
    BY <1>5, <2>1, <2>2, <2>3, <2>4 DEF Arrival
<1>. QED
  BY <1>3, <1>4, <1>5

-----------------------------------------------------------------------------

LEMMA SafeInit == Init => Safe
<1> SUFFICES ASSUME Init PROVE Safe
  OBVIOUS
<1>1. TypeOK
  BY InitTyped
<1>2. \A p \in Handlers : h[p].at = "idle"
  BY DEF Init, Idle
<1>3. OneInSync /\ \A p \in Handlers : Relies(p)
  BY <1>2 DEF OneInSync, Sync, Relies, Addressed, Keeps, Moves
<1>4. NothingIsLost /\ trays = {}
  BY DEF Init, NothingIsLost
<1>. QED
  BY <1>1, <1>3, <1>4 DEF Safe

LEMMA SafeStep == Safe /\ [Next]_vars => Safe'
<1> SUFFICES ASSUME Safe, [Next]_vars PROVE Safe'
  OBVIOUS
<1>1. TypeOK'
  BY TypeStep DEF Safe, Relies
<1>2. /\ Kept \cap Files \subseteq Kept' /\ Routed \subseteq Routed'
      /\ NothingIsLost'
      /\ \A drop \in trays' : drop.files \subseteq accepted'
  BY NothingVanishes, AnswersAreKept DEF NothingIsLost, Kept
<1>3. OneInSync' /\ \A q \in Handlers : Relies(q)'
  <2>1. CASE UNCHANGED vars
    BY <2>1 DEF vars, room, ghosts, Safe, OneInSync, Relies, Addressed, Keeps, Moves, Kept,
                Routed, Filed
  <2>2. CASE Crash
    <3>1. \A q \in Handlers : h'[q].at = "idle"
      BY <2>2 DEF Crash, Idle
    <3>. QED
      BY <3>1 DEF OneInSync, Sync, Relies, Addressed, Keeps, Moves
  <2>3. ASSUME NEW p \in Handlers, Drop(p) \/ Person(p) \/ Arrival(p)
        PROVE  OneInSync' /\ \A q \in Handlers : Relies(q)'
    <3>1. \A q \in Handlers : q # p => h'[q] = h[q] /\ h[q].at \notin Sync
      BY <2>3, OneAtATime
    <3>2. OneInSync'
      BY <3>1 DEF OneInSync
    <3>3. Relies(p)'
      BY <2>3, NextStatement
    <3>4. ASSUME NEW q \in Handlers, q # p PROVE Relies(q)'
      <4>1. h'[q] = h[q] /\ h[q].at \notin Sync /\ Relies(q) /\ h[q].files \subseteq Files
        BY <3>1, <3>4 DEF Safe, TypeOK, Handler
      <4>2. Address' = Address
        BY DEF Address, Items
      <4>. QED
        BY <1>2, <4>1, <4>2 DEF Relies, Addressed, Keeps, Moves, Sync
    <3>. QED
      BY <3>2, <3>3, <3>4
  <2>. QED
    BY <2>1, <2>2, <2>3 DEF Next
<1>. QED
  BY <1>1, <1>2, <1>3 DEF Safe

(***************************************************************************)
(* The inductive invariant of intake: each handler may rely on what its    *)
(* next statement needs, however the others have interleaved.              *)
(***************************************************************************)
THEOREM IntakeInvariant == Spec => []Safe
<1>1. Init => Safe
  BY SafeInit
<1>2. Safe /\ [Next]_vars => Safe'
  BY SafeStep
<1>. QED
  BY <1>1, <1>2, PTL DEF Spec

(***************************************************************************)
(* The state of intake keeps its type.                                     *)
(***************************************************************************)
THEOREM IntakeTypeCorrect == Spec => []TypeOK
<1>1. Safe => TypeOK
  BY DEF Safe
<1>. QED
  BY <1>1, IntakeInvariant, PTL

(***************************************************************************)
(* Every answered file is filed or held, unless its held row could not be  *)
(* written: for any number of handlers, files and loans, through drops,    *)
(* retries, identifications, moves, rescans and crashes in any order.      *)
(***************************************************************************)
THEOREM FilesAreKept == Spec => []NothingIsLost
<1>1. Safe => NothingIsLost
  BY DEF Safe
<1>. QED
  BY <1>1, IntakeInvariant, PTL


-----------------------------------------------------------------------------
(***************************************************************************)
(* Which ready loans are left without a job.  A document is owed a look at *)
(* its loan when the loan's documents up to it make the loan ready and the *)
(* loan has no job: a handler in progress will look, or a drop is to blame.*)
(***************************************************************************)
ReadyBy(l, n) ==
    \A slot \in RequiredSlots :
      \E a \in Filed : a.loan = l /\ a.type \in slot /\ seq[a] <= n

AloneBy(f, l, n) ==
    /\ \E b \in Filed : b.file = f /\ b.loan = l /\ seq[b] <= n
    /\ \A b \in Filed : b.file = f => b.loan = l

Excused(a) ==
    \E files \in Drops : a.file \in files /\ \E g \in files : ~ AloneBy(g, a.loan, seq[a])

WillReevaluate(p, l) ==
    \/ h[p].at \in {"move", "delete", "unfile", "rescan", "reeval"} /\ l \in h[p].touched
    \/ h[p].at = "delete" /\ l = h[p].address.loan

WillSettle(p, f) == h[p].at \in {"hold", "discard", "settle"} /\ f \in h[p].files

Expected(a) == \E p \in Handlers : WillReevaluate(p, a.loan) \/ WillSettle(p, a.file)

Looked(a) ==
    crashes = 0 /\ a.loan \notin told \cup abandoned /\ ReadyBy(a.loan, seq[a]) => Expected(a) \/ Excused(a)

Knows(p) ==
    /\ h[p].known \subseteq loans
    /\ h[p].touched \subseteq loans
    /\ h[p].confirm \subseteq h[p].files
    /\ h[p].at \in {"move", "delete"} => h[p].address.loan \in loans
    /\ h[p].at = "unfile" =>
         \E b \in Filed : /\ b.file = h[p].address.file /\ b # h[p].address
                          /\ h[p].touched = {b.loan}
    /\ h[p].at \in {"assign", "hold", "discard", "settle"} /\ h[p].archive # None =>
         h[p].archive \in Archives /\ h[p].files = Contents[h[p].archive]

Watched ==
    /\ \A p \in Handlers : Knows(p)
    /\ \A drop \in trays : drop.confirm \subseteq drop.files
    /\ \A a \in Filed : a.loan \in loans /\ seq[a] <= written /\ Looked(a)

(***************************************************************************)
(* A set of numbers has a least element, so that of the documents of a set *)
(* one was written last.                                                   *)
(***************************************************************************)
LEMMA LeastExists ==
    ASSUME NEW S \in SUBSET Nat, S # {}
    PROVE  \E x \in S : \A y \in S : x <= y
<1>1. IsWellFoundedOn(OpToRel(<, Nat), Nat)
  BY NatLessThanWellFounded
<1>2. PICK x \in S : \A y \in S : <<y, x>> \notin OpToRel(<, Nat)
  BY <1>1, WFMin
<1>3. \A y \in S : ~(y < x)
  BY <1>2 DEF OpToRel
<1> QED
  BY <1>3

LEMMA LatestExists ==
    ASSUME TypeOK, Watched, NEW S \in SUBSET Filed, S # {}
    PROVE  \E a \in S : \A b \in S : seq[b] <= seq[a]
<1> DEFINE Ages == {written - seq[b] : b \in S}
<1>1. \A b \in S : seq[b] \in Nat /\ written - seq[b] \in Nat
  BY DEF TypeOK, Watched, Filed
<1>2. Ages \in SUBSET Nat /\ Ages # {}
  BY <1>1
<1> HIDE DEF Ages
<1>3. PICK n \in Ages : \A m \in Ages : n <= m
  BY <1>2, LeastExists
<1>4. PICK a \in S : n = written - seq[a]
  BY DEF Ages
<1>5. ASSUME NEW b \in S PROVE seq[b] <= seq[a]
  <2>1. written - seq[b] \in Ages
    BY DEF Ages
  <2>. QED
    BY <1>1, <1>3, <1>4, <2>1 DEF TypeOK
<1>. QED
  BY <1>5

(***************************************************************************)
(* A transaction changes nothing of what an older document is owed: it     *)
(* does not make a loan ready by then, nor a drop of that loan alone.      *)
(***************************************************************************)
LEMMA OlderDocuments ==
    ASSUME TypeOK, Watched, NEW entries \in SUBSET Address, persist(entries),
           NEW a \in Filed', a \notin entries, Drops \subseteq Drops'
    PROVE  /\ a \in Filed /\ seq'[a] = seq[a]
           /\ ReadyBy(a.loan, seq[a])' => ReadyBy(a.loan, seq[a])
           /\ Excused(a) => Excused(a)'
<1>1. Filed' = Filed \cup entries
  BY PersistFiles
<1>2. a \in Filed /\ seq'[a] = seq[a] /\ a \in Address
  BY <1>1 DEF persist, Filed
<1>3. seq[a] <= written /\ seq[a] \in Nat /\ written \in Nat
  BY <1>2 DEF TypeOK, Watched
<1>4. ASSUME NEW b \in Filed', seq'[b] <= seq'[a]
      PROVE  b \in Filed /\ seq[b] <= seq[a]
  <2>1. b \in Address
    BY DEF Filed
  <2>2. b \notin entries
    BY <1>2, <1>3, <1>4, <2>1 DEF persist
  <2>. QED
    BY <1>1, <1>2, <1>4, <2>1, <2>2 DEF persist
<1>5. ReadyBy(a.loan, seq[a])' => ReadyBy(a.loan, seq[a])
  BY <1>4 DEF ReadyBy
<1>6. ASSUME NEW g, AloneBy(g, a.loan, seq[a])' PROVE AloneBy(g, a.loan, seq[a])
  BY <1>1, <1>4, <1>6 DEF AloneBy
<1>7. Excused(a) => Excused(a)'
  BY <1>6 DEF Excused
<1>. QED
  BY <1>2, <1>5, <1>7

(***************************************************************************)
(* A handler that is to look at a loan, or at the loans of its files, will *)
(* still do so after any statement but the look itself.                    *)
(***************************************************************************)
LEMMA PassesOn ==
    ASSUME Safe, NEW p \in Handlers, Drop(p) \/ Person(p) \/ Arrival(p),
           ~ Settle(p), ~ reevaluateAndEnqueueIfReady(p), ~ getBlobThrows(p), NEW l, NEW f
    PROVE  /\ WillReevaluate(p, l) => WillReevaluate(p, l)'
           /\ WillSettle(p, f) => WillSettle(p, f)'
<1>0. h \in [Handlers -> Handler] /\ h[p] \in Handler
  BY DEF Safe, TypeOK
<1>b. \A at : Goto(p, at) => /\ h'[p].at = at /\ h'[p].touched = h[p].touched
                             /\ h'[p].files = h[p].files /\ h'[p].address = h[p].address
  BY <1>0 DEF Goto, Handler
<1>1. CASE h[p].at = "idle" \/ h[p].at = "assign"
  BY <1>1 DEF WillReevaluate, WillSettle
<1>2. CASE h[p].at # "idle" /\ h[p].at # "assign" /\ Drop(p)
  <2>1. CASE \E g \in Files : holdStagedFiles(p, g)
    <3>1. h'[p].at = "hold" /\ h'[p].files = h[p].files /\ h[p].at = "hold"
      BY <1>0, <2>1 DEF holdStagedFiles, Handler
    <3>. QED
      BY <3>1 DEF WillReevaluate, WillSettle
  <2>2. CASE Held(p)
    BY <1>b, <2>2 DEF Held, WillReevaluate, WillSettle
  <2>3. CASE deleteHeldDoc(p)
    BY <1>b, <2>3 DEF deleteHeldDoc, WillReevaluate, WillSettle
  <2>. QED
    BY <1>2, <2>1, <2>2, <2>3 DEF Drop, Staging, Retry, Start, assignDataRoomFiles
<1>3. CASE h[p].at # "idle" /\ h[p].at # "assign" /\ Person(p)
  <2>1. CASE identifyHeldDoc(p)
    BY <1>b, <2>1 DEF identifyHeldDoc, WillReevaluate, WillSettle
  <2>2. CASE Unhold(p)
    <3>1. /\ h'[p].at \in {"rescan", "reeval"} /\ h[p].at = "delete"
          /\ h'[p].touched = h[p].touched \cup {h[p].address.loan}
      BY <1>0, <2>2 DEF Unhold, Handler
    <3>. QED
      BY <3>1 DEF WillReevaluate, WillSettle
  <2>3. CASE deleteByAddress(p)
    BY <1>b, <2>3 DEF deleteByAddress, WillReevaluate, WillSettle
  <2>. QED
    BY <1>3, <2>1, <2>2, <2>3 DEF Person, Assign, Identify, reclassifyDataRoomDoc, Start
<1>4. CASE h[p].at # "idle" /\ h[p].at # "assign" /\ Arrival(p)
  <2>1. CASE \E g \in Files : rescanHeldOnLoanArrival(p, g)
    <3>1. PICK g \in Files : rescanHeldOnLoanArrival(p, g)
      BY <2>1
    <3>2. CASE h' = [h EXCEPT ![p].at = "move", ![p].todo = @ \ {g},
                                   ![p].address = At(Owner[g], TypeOf[g], g)]
      <4>1. h'[p].at = "move" /\ h'[p].touched = h[p].touched
        BY <1>0, <3>2 DEF Handler
      <4>. QED
        BY <3>1, <4>1 DEF rescanHeldOnLoanArrival, WillReevaluate, WillSettle
    <3>3. CASE h' = [h EXCEPT ![p].todo = @ \ {g}]
      <4>1. h'[p].at = h[p].at /\ h[p].touched = h'[p].touched /\ h'[p].files = h[p].files
        BY <1>0, <3>3 DEF Handler
      <4>. QED
        BY <3>1, <4>1 DEF rescanHeldOnLoanArrival, WillReevaluate, WillSettle
    <3>. QED
      BY <3>1, <3>2, <3>3 DEF rescanHeldOnLoanArrival
  <2>2. CASE Rescanned(p)
    BY <1>b, <2>2 DEF Rescanned, WillReevaluate, WillSettle
  <2>. QED
    BY <1>4, <2>1, <2>2 DEF Arrival, LoanArrives, Start
<1>. QED
  BY <1>1, <1>2, <1>3, <1>4

LEMMA ExpectedStays ==
    ASSUME Safe, NEW p \in Handlers, Drop(p) \/ Person(p) \/ Arrival(p),
           ~ Settle(p), ~ reevaluateAndEnqueueIfReady(p), ~ getBlobThrows(p),
           NEW a, Expected(a)
    PROVE  Expected(a)'
<1>1. PICK q \in Handlers : WillReevaluate(q, a.loan) \/ WillSettle(q, a.file)
  BY DEF Expected
<1>2. WillReevaluate(q, a.loan)' \/ WillSettle(q, a.file)'
  <2>1. CASE q = p
    BY <1>1, <2>1, PassesOn
  <2>2. CASE q # p
    BY <1>1, <2>2, OneAtATime DEF WillReevaluate, WillSettle
  <2>. QED
    BY <2>1, <2>2
<1>. QED
  BY <1>2 DEF Expected

(***************************************************************************)
(* What a handler knows of the pool it still knows after a statement.      *)
(***************************************************************************)
LEMMA LoansGrow ==
    ASSUME [Next]_vars
    PROVE  /\ loans \subseteq loans' /\ told \subseteq told' /\ trays \subseteq trays'
           /\ abandoned \subseteq abandoned'
<1>1. ASSUME NEW p \in Handlers, Drop(p) 
      PROVE  /\ loans' = loans /\ told \subseteq told' /\ trays \subseteq trays'
             /\ abandoned' = abandoned
  BY <1>1 DEF Drop, Staging, Retry, assignDataRoomFiles, holdStagedFiles, Held, deleteHeldDoc,
              Settle, enqueueUnderwriteOnSettle, ghosts
<1>2. ASSUME NEW p \in Handlers, Person(p) 
      PROVE  /\ loans' = loans /\ told \subseteq told' /\ trays' = trays
             /\ abandoned' = abandoned
  BY <1>2 DEF Person, Assign, Identify, reclassifyDataRoomDoc, identifyHeldDoc, Unhold,
              deleteByAddress, reevaluateAndEnqueueIfReady, ghosts
<1>3. ASSUME NEW p \in Handlers, Arrival(p) 
      PROVE  /\ loans \subseteq loans' /\ told' = told /\ trays' = trays
             /\ abandoned \subseteq abandoned'
  BY <1>3 DEF Arrival, LoanArrives, rescanHeldOnLoanArrival, getBlobThrows, Rescanned, ghosts
<1>4. CASE UNCHANGED vars \/ Crash
  BY <1>4 DEF vars, ghosts, Crash
<1>. QED
  BY <1>1, <1>2, <1>3, <1>4 DEF Next

LEMMA KnowsNext ==
    ASSUME Safe, Watched, NEW p \in Handlers, Drop(p) \/ Person(p) \/ Arrival(p)
    PROVE  Knows(p)'
<1> USE IntakeData
<1>0. TypeOK /\ h \in [Handlers -> Handler] /\ h[p] \in Handler /\ Knows(p)
  BY DEF Safe, TypeOK, Watched
<1>a. \A handler : Start(p, handler) => h'[p] = handler
  BY <1>0 DEF Start
<1>b. \A at : Goto(p, at) => /\ h'[p].at = at /\ h'[p].touched = h[p].touched
                             /\ h'[p].known = h[p].known /\ h'[p].address = h[p].address
                             /\ h'[p].files = h[p].files /\ h'[p].archive = h[p].archive
                             /\ h'[p].confirm = h[p].confirm
  BY <1>0 DEF Goto, Handler
<1>c. loans \subseteq loans'
  BY LoansGrow DEF Next
<1>1. ASSUME /\ h'[p].confirm \subseteq h'[p].files
             /\ h'[p].known \subseteq loans' /\ h'[p].touched \subseteq loans'
             /\ h'[p].at \in {"idle", "rescan", "reeval"}
      PROVE  Knows(p)'
  BY <1>1 DEF Knows
<1>2. CASE Drop(p)
  <2>1. ASSUME NEW files \in SUBSET Files, Staging(p, files) PROVE Knows(p)'
    <3>1. h'[p] = [Idle EXCEPT !.at = "assign", !.files = files, !.known = loans]
      BY <1>a, <2>1 DEF Staging
    <3>. QED
      BY <1>c, <3>1 DEF Knows, Idle
  <2>2. ASSUME NEW z \in Archives, Retry(p, z) PROVE Knows(p)'
    <3>1. h'[p] = [Idle EXCEPT !.at = "assign", !.files = Contents[z], !.known = loans,
                               !.archive = z]
      BY <1>a, <2>2 DEF Retry
    <3>. QED
      BY <1>c, <3>1 DEF Knows, Idle
  <2>3. CASE Settle(p)
    <3>1. h'[p] = Idle
      BY <1>0, <2>3 DEF Settle
    <3>. QED
      BY <3>1 DEF Knows, Idle
  <2>4. CASE assignDataRoomFiles(p)
    <3>1. PICK filed : h' = [h EXCEPT ![p].at = "hold", ![p].confirm = h[p].files \ filed,
                                      ![p].todo = h[p].files \ filed]
      BY <2>4 DEF assignDataRoomFiles
    <3>2. /\ h'[p].at = "hold" /\ h'[p].files = h[p].files /\ h'[p].archive = h[p].archive
          /\ h'[p].known = h[p].known /\ h'[p].touched = h[p].touched
          /\ h'[p].confirm \subseteq h[p].files
      BY <1>0, <3>1 DEF Handler
    <3>. QED
      BY <1>0, <1>c, <2>4, <3>2 DEF assignDataRoomFiles, Knows
  <2>5. ASSUME NEW f \in Files, holdStagedFiles(p, f) PROVE Knows(p)'
    <3>1. /\ h'[p].at = "hold" /\ h'[p].files = h[p].files /\ h'[p].archive = h[p].archive
          /\ h'[p].known = h[p].known /\ h'[p].touched = h[p].touched
          /\ h'[p].confirm = h[p].confirm
      BY <1>0, <2>5 DEF holdStagedFiles, Handler
    <3>. QED
      BY <1>0, <1>c, <2>5, <3>1 DEF holdStagedFiles, Knows
  <2>6. CASE Held(p) \/ deleteHeldDoc(p)
    BY <1>0, <1>b, <1>c, <2>6 DEF Held, deleteHeldDoc, Knows
  <2>. QED
    BY <1>2, <2>1, <2>2, <2>3, <2>4, <2>5, <2>6 DEF Drop
<1>3. CASE Person(p)
  <2>1. ASSUME NEW drop \in trays, NEW some \in (SUBSET drop.confirm) \ {{}},
               NEW where \in [some -> loans \X Types], Assign(p, drop, where)
        PROVE  Knows(p)'
    <3>1. h'[p] = [Idle EXCEPT !.at = "settle", !.files = drop.files, !.confirm = drop.confirm]
      BY <1>a, <2>1 DEF Assign
    <3>. QED
      BY <3>1 DEF Watched, Knows, Idle
  <2>2. ASSUME NEW l \in loans, NEW t \in Types, NEW f \in Items, Identify(p, l, t, f)
        PROVE  Knows(p)'
    <3>1. h'[p] = [Idle EXCEPT !.at = "move", !.address = At(l, t, f)]
      BY <1>a, <2>2 DEF Identify
    <3>. QED
      BY <1>c, <3>1 DEF Knows, Idle, At
  <2>3. ASSUME NEW l \in loans, NEW t \in Types, NEW f \in Items,
               reclassifyDataRoomDoc(p, l, t, f)
        PROVE  Knows(p)'
    <3>1. PICK current \in firstByHash(f) :
            IF current = At(l, t, f)
            THEN /\ Start(p, [Idle EXCEPT !.at = "reeval", !.touched = {l}])
                 /\ UNCHANGED <<seq, written>>
            ELSE /\ Start(p, [Idle EXCEPT !.at = "unfile", !.address = current,
                                          !.touched = {l}])
                 /\ persist({At(l, t, f)})
      BY <2>3 DEF reclassifyDataRoomDoc
    <3>2. CASE current = At(l, t, f)
      <4>1. h'[p] = [Idle EXCEPT !.at = "reeval", !.touched = {l}]
        BY <1>a, <3>1, <3>2
      <4>. QED
        BY <1>1, <1>c, <4>1 DEF Idle
    <3>3. CASE current # At(l, t, f)
      <4>1. h'[p] = [Idle EXCEPT !.at = "unfile", !.address = current, !.touched = {l}]
        BY <1>a, <3>1, <3>3
      <4>2. At(l, t, f) \in Address
        BY <1>0 DEF At, Address, TypeOK
      <4>3. At(l, t, f) \in Filed'
        BY <1>0, <3>1, <3>3, <4>2, PersistFiles
      <4>4. At(l, t, f).file = f /\ At(l, t, f).loan = l /\ current.file = f
        BY DEF At, firstByHash
      <4>. QED
        BY <1>c, <3>3, <4>1, <4>3, <4>4 DEF Knows, Idle
    <3>. QED
      BY <3>2, <3>3
  <2>4. CASE identifyHeldDoc(p)
    BY <1>0, <1>b, <1>c, <2>4 DEF identifyHeldDoc, Knows
  <2>6. CASE deleteByAddress(p)
    BY <1>0, <1>1, <1>b, <1>c, <2>6 DEF deleteByAddress, Knows
  <2>7. CASE Unhold(p)
    <3>1. /\ h'[p].at \in {"rescan", "reeval"}
          /\ h'[p].touched = h[p].touched \cup {h[p].address.loan}
          /\ h'[p].known = h[p].known /\ h'[p].confirm = h[p].confirm
          /\ h'[p].files = h[p].files
      BY <1>0, <2>7 DEF Unhold, Handler
    <3>2. h[p].address.loan \in loans
      BY <1>0, <2>7 DEF Unhold, Knows
    <3>. QED
      BY <1>0, <1>1, <1>c, <3>1, <3>2 DEF Knows
  <2>5. CASE reevaluateAndEnqueueIfReady(p)
    <3>1. h'[p] = Idle
      BY <1>0, <2>5 DEF reevaluateAndEnqueueIfReady
    <3>. QED
      BY <3>1 DEF Knows, Idle
  <2>. QED
    BY <1>3, <2>1, <2>2, <2>3, <2>4, <2>5, <2>6, <2>7 DEF Person
<1>4. CASE Arrival(p)
  <2>1. ASSUME NEW l \in Loans, LoanArrives(p, l) PROVE Knows(p)'
    <3>1. h'[p] = [Idle EXCEPT !.at = "rescan", !.rescan = TRUE, !.known = loans',
                               !.todo = held \ Archives]
      BY <1>a, <2>1 DEF LoanArrives
    <3>. QED
      BY <3>1 DEF Knows, Idle
  <2>2. ASSUME NEW f \in Files, rescanHeldOnLoanArrival(p, f) PROVE Knows(p)'
    <3>1. CASE /\ verdictFor(f, h[p].known) = "auto"
               /\ h' = [h EXCEPT ![p].at = "move", ![p].todo = @ \ {f},
                                         ![p].address = At(Owner[f], TypeOf[f], f)]
      <4>1. Owner[f] \in h[p].known
        BY <3>1 DEF verdictFor
      <4>2. /\ h'[p].at = "move" /\ h'[p].known = h[p].known
            /\ h'[p].touched = h[p].touched
            /\ h'[p].address.loan = Owner[f]
            /\ h'[p].confirm = h[p].confirm /\ h'[p].files = h[p].files
        BY <1>0, <3>1 DEF Handler, At
      <4>. QED
        BY <1>0, <1>c, <4>1, <4>2 DEF Knows
    <3>2. CASE h' = [h EXCEPT ![p].todo = @ \ {f}]
      <4>1. /\ h'[p].at = "rescan" /\ h'[p].known = h[p].known
            /\ h'[p].touched = h[p].touched
            /\ h'[p].confirm = h[p].confirm /\ h'[p].files = h[p].files
        BY <1>0, <2>2, <3>2 DEF rescanHeldOnLoanArrival, Handler
      <4>. QED
        BY <1>0, <1>c, <4>1 DEF Knows
    <3>. QED
      BY <2>2, <3>1, <3>2 DEF rescanHeldOnLoanArrival
  <2>3. CASE Rescanned(p)
    BY <1>0, <1>1, <1>b, <1>c, <2>3 DEF Rescanned, Knows
  <2>4. CASE getBlobThrows(p)
    <3>1. h'[p] = Idle
      BY <1>0, <2>4 DEF getBlobThrows
    <3>. QED
      BY <3>1 DEF Knows, Idle
  <2>. QED
    BY <1>4, <2>1, <2>2, <2>3, <2>4 DEF Arrival
<1>. QED
  BY <1>2, <1>3, <1>4

(***************************************************************************)
(* A transaction that files documents at loans some handler is then to     *)
(* look at keeps what is owed.                                             *)
(***************************************************************************)
LEMMA FilingLooks ==
    ASSUME Safe, Watched, NEW p \in Handlers, Drop(p) \/ Person(p) \/ Arrival(p),
           ~ Settle(p), ~ reevaluateAndEnqueueIfReady(p), ~ getBlobThrows(p),
           NEW entries \in SUBSET Address, persist(entries),
           \A e \in entries : e.loan \in loans /\ Expected(e)',
           NEW a \in Filed'
    PROVE  a.loan \in loans' /\ seq'[a] <= written' /\ Looked(a)'
<1>0. TypeOK /\ [Next]_vars /\ a \in Address /\ crashes' = crashes
  BY DEF Safe, Next, Filed, Drop, Staging, Retry, assignDataRoomFiles, holdStagedFiles, Held,
         deleteHeldDoc, Settle, Person, Assign, Identify, reclassifyDataRoomDoc,
         identifyHeldDoc, Unhold, deleteByAddress, reevaluateAndEnqueueIfReady, Arrival,
         LoanArrives, rescanHeldOnLoanArrival, getBlobThrows, Rescanned
<1>1. /\ loans \subseteq loans' /\ told \subseteq told' /\ Drops \subseteq Drops'
      /\ abandoned \subseteq abandoned'
  BY <1>0, LoansGrow DEF Drops
<1>2. CASE a \in entries
  BY <1>0, <1>1, <1>2 DEF persist, TypeOK, Looked
<1>3. CASE a \notin entries
  <2>1. /\ a \in Filed /\ seq'[a] = seq[a]
        /\ ReadyBy(a.loan, seq[a])' => ReadyBy(a.loan, seq[a])
        /\ Excused(a) => Excused(a)'
    BY <1>0, <1>1, <1>3, OlderDocuments
  <2>2. Expected(a) => Expected(a)'
    BY ExpectedStays
  <2>3. seq[a] <= written /\ written <= written' /\ a.loan \in loans /\ Looked(a)
    BY <1>0, <2>1 DEF Watched, persist, TypeOK
  <2>4. seq'[a] <= written'
    BY <1>0, <2>1, <2>3, PersistFiles DEF TypeOK
  <2>. QED
    BY <1>0, <1>1, <2>1, <2>2, <2>3, <2>4 DEF Looked
<1>. QED
  BY <1>2, <1>3

(***************************************************************************)
(* So does a statement that files nothing and is not a look.               *)
(***************************************************************************)
LEMMA RestLooks ==
    ASSUME Safe, Watched, NEW p \in Handlers, Drop(p) \/ Person(p) \/ Arrival(p),
           ~ Settle(p), ~ reevaluateAndEnqueueIfReady(p), ~ getBlobThrows(p),
           UNCHANGED <<seq, written>>, NEW a \in Filed'
    PROVE  a.loan \in loans' /\ seq'[a] <= written' /\ Looked(a)'
<1>0. TypeOK /\ [Next]_vars /\ crashes' = crashes
  BY DEF Safe, Next, Drop, Staging, Retry, assignDataRoomFiles, holdStagedFiles, Held,
         deleteHeldDoc, Settle, Person, Assign, Identify, reclassifyDataRoomDoc,
         identifyHeldDoc, Unhold, deleteByAddress, reevaluateAndEnqueueIfReady, Arrival,
         LoanArrives, rescanHeldOnLoanArrival, getBlobThrows, Rescanned
<1>1. /\ loans \subseteq loans' /\ told \subseteq told' /\ Drops \subseteq Drops'
      /\ abandoned \subseteq abandoned'
  BY <1>0, LoansGrow DEF Drops
<1>2. Filed' = Filed /\ a \in Filed /\ seq'[a] = seq[a]
  BY DEF Filed, Address, Items
<1>3. ReadyBy(a.loan, seq[a])' => ReadyBy(a.loan, seq[a])
  BY <1>2 DEF ReadyBy
<1>4. \A g : AloneBy(g, a.loan, seq[a])' => AloneBy(g, a.loan, seq[a])
  BY <1>2 DEF AloneBy
<1>5. Excused(a) => Excused(a)'
  BY <1>1, <1>4 DEF Excused
<1>6. Expected(a) => Expected(a)'
  BY ExpectedStays
<1>. QED
  BY <1>0, <1>1, <1>2, <1>3, <1>5, <1>6 DEF Watched, Looked

(***************************************************************************)
(* The look of a drop: a ready loan that it passes over has a file filed   *)
(* elsewhere, or the drop has a file that is not filed.                    *)
(***************************************************************************)
LEMMA SettlingLooks ==
    ASSUME Safe, Watched, NEW p \in Handlers, Settle(p), NEW a \in Filed'
    PROVE  a.loan \in loans' /\ seq'[a] <= written' /\ Looked(a)'
<1>0. TypeOK /\ h[p] \in Handler /\ h[p].at = "settle" /\ Knows(p)
  BY DEF Safe, TypeOK, Watched, Settle
<1>1. /\ Filed' = Filed /\ a \in Filed /\ seq' = seq /\ written' = written /\ loans' = loans
      /\ crashes' = crashes /\ abandoned' = abandoned
  BY DEF Filed, Address, Items, Settle, room
<1>2. a.loan \in loans /\ seq[a] <= written /\ Looked(a)
  BY <1>1 DEF Watched
<1>3. told \subseteq told' /\ Drops \subseteq Drops'
  BY DEF Settle, enqueueUnderwriteOnSettle, Drops
<1>4. h[p].files \in Drops'
  <2>1. CASE h[p].archive = None
    <3>1. [files |-> h[p].files, confirm |-> h[p].confirm] \in trays'
      BY <2>1 DEF Settle
    <3>. QED
      BY <3>1 DEF Drops
  <2>2. CASE h[p].archive # None
    BY <1>0, <2>2 DEF Knows, Drops
  <2>. QED
    BY <2>1, <2>2
<1>5. \A g : AloneBy(g, a.loan, seq[a])' => AloneBy(g, a.loan, seq[a])
  BY <1>1 DEF AloneBy
<1>6. ReadyBy(a.loan, seq[a])' => ReadyBy(a.loan, seq[a]) /\ Ready(a.loan)
  BY <1>1 DEF ReadyBy, Ready
<1>7. Excused(a) => Excused(a)'
  BY <1>3, <1>5 DEF Excused
<1>8. ASSUME a.file \in h[p].files, Ready(a.loan), a.loan \notin told' PROVE Excused(a)'
  <2>1. ~ Settled(h[p].files) \/ a.loan \notin Affected(h[p].files)
    BY <1>2, <1>8 DEF Settle, enqueueUnderwriteOnSettle
  <2>2. CASE ~ Settled(h[p].files)
    <3>1. PICK g \in h[p].files : g \notin Routed
      BY <2>2 DEF Settled
    <3>2. ~ AloneBy(g, a.loan, seq[a])
      BY <3>1 DEF AloneBy, Routed
    <3>. QED
      BY <1>4, <1>5, <1>8, <3>2 DEF Excused
  <2>3. CASE a.loan \notin Affected(h[p].files)
    <3>1. PICK b \in {c \in Filed : c.file = a.file} :
            \A c \in {d \in Filed : d.file = a.file} : seq[c] <= seq[b]
      <4>1. {c \in Filed : c.file = a.file} # {}
        BY <1>1
      <4>. QED
        BY <1>0, <4>1, LatestExists
    <3>2. b \in manifestByHash(a.file)
      BY <3>1 DEF manifestByHash
    <3>3. b.loan # a.loan
      BY <1>8, <2>3, <3>2 DEF Affected
    <3>4. ~ AloneBy(a.file, a.loan, seq[a])
      BY <3>1, <3>3 DEF AloneBy
    <3>. QED
      BY <1>4, <1>5, <1>8, <3>4 DEF Excused
  <2>. QED
    BY <2>1, <2>2, <2>3
<1>9. ASSUME NEW q \in Handlers, q # p, WillReevaluate(q, a.loan) \/ WillSettle(q, a.file)
      PROVE  Expected(a)'
  BY <1>9, OneAtATime DEF Expected, WillReevaluate, WillSettle, Drop
<1>10. ~ WillReevaluate(p, a.loan) /\ (WillSettle(p, a.file) => a.file \in h[p].files)
  BY <1>0 DEF WillReevaluate, WillSettle
<1>11. Expected(a) /\ Ready(a.loan) /\ a.loan \notin told' => Expected(a)' \/ Excused(a)'
  BY <1>8, <1>9, <1>10 DEF Expected
<1>. QED
  BY <1>1, <1>2, <1>3, <1>6, <1>7, <1>11 DEF Looked

(***************************************************************************)
(* The look after a move passes over no ready loan.                        *)
(***************************************************************************)
LEMMA ReevaluatingLooks ==
    ASSUME Safe, Watched, NEW p \in Handlers, reevaluateAndEnqueueIfReady(p), NEW a \in Filed'
    PROVE  a.loan \in loans' /\ seq'[a] <= written' /\ Looked(a)'
<1>1. /\ Filed' = Filed /\ a \in Filed /\ seq' = seq /\ written' = written /\ loans' = loans
      /\ crashes' = crashes /\ trays' = trays /\ h[p].at = "reeval" /\ abandoned' = abandoned
  BY DEF Filed, Address, Items, reevaluateAndEnqueueIfReady, room, ghosts
<1>2. a.loan \in loans /\ seq[a] <= written /\ Looked(a)
  BY <1>1 DEF Watched
<1>3. \A g : AloneBy(g, a.loan, seq[a])' => AloneBy(g, a.loan, seq[a])
  BY <1>1 DEF AloneBy
<1>4. ReadyBy(a.loan, seq[a])' => ReadyBy(a.loan, seq[a]) /\ Ready(a.loan)
  BY <1>1 DEF ReadyBy, Ready
<1>5. Excused(a) => Excused(a)'
  BY <1>1, <1>3 DEF Excused, Drops
<1>6. ASSUME NEW q \in Handlers, q # p, WillReevaluate(q, a.loan) \/ WillSettle(q, a.file)
      PROVE  Expected(a)'
  BY <1>6, OneAtATime DEF Expected, WillReevaluate, WillSettle, Person
<1>7. /\ ~ WillSettle(p, a.file)
      /\ WillReevaluate(p, a.loan) /\ Ready(a.loan) => a.loan \in told'
  BY <1>1, <1>2 DEF WillReevaluate, WillSettle, reevaluateAndEnqueueIfReady
<1>8. told \subseteq told'
  BY DEF reevaluateAndEnqueueIfReady
<1>. QED
  BY <1>1, <1>2, <1>4, <1>5, <1>6, <1>7, <1>8 DEF Looked, Expected

(***************************************************************************)
(* A document moved leaves its file filed at the loan that the handler is  *)
(* to look at, so that no drop becomes one of another loan alone.          *)
(***************************************************************************)
LEMMA UnfilingLooks ==
    ASSUME Safe, Watched, NEW p \in Handlers, deleteByAddress(p), NEW a \in Filed'
    PROVE  a.loan \in loans' /\ seq'[a] <= written' /\ Looked(a)'
<1>0. TypeOK /\ h[p] \in Handler /\ h[p].at = "unfile" /\ Knows(p)
  BY DEF Safe, TypeOK, Watched, deleteByAddress
<1>1. /\ written' = written /\ loans' = loans /\ crashes' = crashes /\ trays' = trays
      /\ told' = told /\ abandoned' = abandoned
  BY DEF deleteByAddress, ghosts
<1>2. /\ \A c \in Address : c # h[p].address => seq'[c] = seq[c]
      /\ h[p].address \notin Filed' /\ Address' = Address
  <2>1. h[p].address \in Address /\ Address' = Address
    BY <1>0 DEF Safe, Relies, Addressed, Address, Items
  <2>2. seq' = [seq EXCEPT ![h[p].address] = 0]
    BY DEF deleteByAddress
  <2>. QED
    BY <1>0, <2>1, <2>2 DEF TypeOK, Filed
<1>3. Filed' = Filed \ {h[p].address}
  BY <1>2 DEF Filed
<1>4. a \in Filed /\ seq'[a] = seq[a] /\ \A c \in Filed' : seq'[c] = seq[c]
  BY <1>2, <1>3 DEF Filed
<1>5. a.loan \in loans /\ seq[a] <= written /\ Looked(a)
  BY <1>4 DEF Watched
<1>6. ReadyBy(a.loan, seq[a])' => ReadyBy(a.loan, seq[a])
  BY <1>3, <1>4 DEF ReadyBy
<1>7. Expected(a) => Expected(a)'
  BY <1>0, ExpectedStays DEF Person, Settle, reevaluateAndEnqueueIfReady, getBlobThrows
<1>8. PICK b \in Filed : /\ b.file = h[p].address.file /\ b # h[p].address
                         /\ h[p].touched = {b.loan}
  BY <1>0 DEF Knows
<1>9. CASE b.loan = a.loan
  <2>1. WillReevaluate(p, a.loan)
    BY <1>0, <1>8, <1>9 DEF WillReevaluate
  <2>2. Expected(a)
    BY <2>1 DEF Expected
  <2>. QED
    BY <1>1, <1>4, <1>5, <1>7, <2>2 DEF Looked
<1>10. CASE b.loan # a.loan
  <2>1. ASSUME NEW g, AloneBy(g, a.loan, seq[a])' PROVE AloneBy(g, a.loan, seq[a])
    <3>1. g # h[p].address.file
      BY <1>3, <1>8, <1>10, <2>1 DEF AloneBy
    <3>. QED
      BY <1>3, <1>4, <2>1, <3>1 DEF AloneBy
  <2>2. Excused(a) => Excused(a)'
    BY <1>1, <2>1 DEF Excused, Drops
  <2>. QED
    BY <1>1, <1>4, <1>5, <1>6, <1>7, <2>2 DEF Looked
<1>. QED
  BY <1>9, <1>10

(***************************************************************************)
(* A rescan that throws abandons the loans it was to look at; an identify  *)
(* that throws has filed nothing.                                          *)
(***************************************************************************)
LEMMA ThrowingLooks ==
    ASSUME Safe, Watched, NEW p \in Handlers, Arrival(p), getBlobThrows(p), NEW a \in Filed'
    PROVE  a.loan \in loans' /\ seq'[a] <= written' /\ Looked(a)'
<1>1. /\ Filed' = Filed /\ a \in Filed /\ seq' = seq /\ written' = written /\ loans' = loans
      /\ crashes' = crashes /\ trays' = trays /\ told' = told
      /\ abandoned' = abandoned \cup h[p].touched /\ h[p].at \in {"move", "rescan"}
  BY DEF Filed, Address, Items, getBlobThrows, room
<1>2. a.loan \in loans /\ seq[a] <= written /\ Looked(a)
  BY <1>1 DEF Watched
<1>3. \A g : AloneBy(g, a.loan, seq[a])' => AloneBy(g, a.loan, seq[a])
  BY <1>1 DEF AloneBy
<1>4. ReadyBy(a.loan, seq[a])' => ReadyBy(a.loan, seq[a])
  BY <1>1 DEF ReadyBy
<1>5. Excused(a) => Excused(a)'
  BY <1>1, <1>3 DEF Excused, Drops
<1>6. ASSUME NEW q \in Handlers, q # p, WillReevaluate(q, a.loan) \/ WillSettle(q, a.file)
      PROVE  Expected(a)'
  BY <1>6, OneAtATime DEF Expected, WillReevaluate, WillSettle
<1>7. ~ WillSettle(p, a.file) /\ (WillReevaluate(p, a.loan) => a.loan \in abandoned')
  BY <1>1 DEF WillReevaluate, WillSettle
<1>. QED
  BY <1>1, <1>2, <1>4, <1>5, <1>6, <1>7 DEF Looked, Expected

(***************************************************************************)
(* The documents that a statement files.                                   *)
(***************************************************************************)
LEMMA HandlersLook ==
    ASSUME Safe, Watched, NEW p \in Handlers, Drop(p) \/ Person(p) \/ Arrival(p),
           NEW a \in Filed'
    PROVE  a.loan \in loans' /\ seq'[a] <= written' /\ Looked(a)'
<1> USE IntakeData
<1>0. TypeOK /\ h \in [Handlers -> Handler] /\ h[p] \in Handler /\ Knows(p)
  BY DEF Safe, TypeOK, Watched
<1>a. \A handler : Start(p, handler) => h'[p] = handler
  BY <1>0 DEF Start
<1>1. CASE Settle(p)
  BY <1>1, SettlingLooks
<1>2. CASE reevaluateAndEnqueueIfReady(p)
  BY <1>2, ReevaluatingLooks
<1>12. CASE Arrival(p) /\ getBlobThrows(p)
  BY <1>12, ThrowingLooks
<1>13. getBlobThrows(p) => Arrival(p)
  BY DEF Arrival
<1> SUFFICES ASSUME ~ Settle(p), ~ reevaluateAndEnqueueIfReady(p), ~ getBlobThrows(p)
             PROVE  a.loan \in loans' /\ seq'[a] <= written' /\ Looked(a)'
  BY <1>1, <1>2, <1>12, <1>13
<1>3. CASE deleteByAddress(p)
  BY <1>3, UnfilingLooks
<1>4. CASE UNCHANGED <<seq, written>>
  BY <1>4, RestLooks
<1>5. CASE assignDataRoomFiles(p)
  <2>1. PICK filed \in SUBSET {f \in h[p].files : /\ verdictFor(f, h[p].known) = "auto"
                                                  /\ f \notin Contradicted} :
          /\ persist({At(Owner[f], TypeOf[f], f) : f \in filed})
          /\ h' = [h EXCEPT ![p].at = "hold", ![p].confirm = h[p].files \ filed,
                              ![p].todo = h[p].files \ filed]
    BY <1>5 DEF assignDataRoomFiles
  <2>2. h'[p].at = "hold" /\ h'[p].files = h[p].files
    BY <1>0, <2>1 DEF Handler
  <2>3. \A f \in filed : /\ At(Owner[f], TypeOf[f], f) \in Address
                         /\ Owner[f] \in loans
                         /\ At(Owner[f], TypeOf[f], f).loan = Owner[f]
                         /\ At(Owner[f], TypeOf[f], f).file \in h[p].files
    BY <1>0 DEF verdictFor, At, Address, Items, Handler, Knows
  <2> DEFINE entries == {At(Owner[f], TypeOf[f], f) : f \in filed}
  <2>4. \A e \in entries : e \in Address /\ e.loan \in loans /\ e.file \in h[p].files
    BY <2>3
  <2>5. \A e \in entries : e.loan \in loans /\ Expected(e)'
    BY <2>2, <2>4 DEF Expected, WillSettle
  <2>. QED
    BY <2>1, <2>4, <2>5, FilingLooks
<1>6. ASSUME NEW drop \in trays, NEW some \in (SUBSET drop.confirm) \ {{}},
             NEW where \in [some -> loans \X Types], Assign(p, drop, where)
      PROVE  a.loan \in loans' /\ seq'[a] <= written' /\ Looked(a)'
  <2>1. h'[p] = [Idle EXCEPT !.at = "settle", !.files = drop.files, !.confirm = drop.confirm]
    BY <1>a, <1>6 DEF Assign
  <2>2. h'[p].at = "settle" /\ h'[p].files = drop.files
    BY <2>1 DEF Idle
  <2> DEFINE entries == {At(where[f][1], where[f][2], f) : f \in DOMAIN where}
  <2>3. \A f \in DOMAIN where : /\ At(where[f][1], where[f][2], f) \in Address
                                /\ At(where[f][1], where[f][2], f).loan \in loans
                                /\ At(where[f][1], where[f][2], f).file \in drop.files
    BY <1>0, <1>6 DEF At, Address, Items, TypeOK, Watched
  <2>4. \A e \in entries : e \in Address /\ e.loan \in loans /\ e.file \in drop.files
    BY <2>3
  <2>5. \A e \in entries : e.loan \in loans /\ Expected(e)'
    BY <2>2, <2>4 DEF Expected, WillSettle
  <2>6. persist(entries)
    BY <1>6 DEF Assign
  <2>. QED
    BY <2>4, <2>5, <2>6, FilingLooks
<1>7. CASE identifyHeldDoc(p)
  <2>1. h[p].address \in Address /\ h[p].address.loan \in loans
    BY <1>0, <1>7 DEF identifyHeldDoc, Safe, Relies, Addressed, Knows
  <2>2. h'[p].at = "delete" /\ h'[p].address = h[p].address
    BY <1>0, <1>7 DEF identifyHeldDoc, Goto, Handler
  <2>3. PICK e \in Address : e = h[p].address
    BY <2>1
  <2>4. e.loan \in loans /\ Expected(e)'
    BY <1>0, <2>1, <2>2, <2>3 DEF Expected, WillReevaluate, Knows
  <2>. QED
    BY <1>7, <2>3, <2>4, FilingLooks DEF identifyHeldDoc
<1>8. ASSUME NEW l \in loans, NEW t \in Types, NEW f \in Items, reclassifyDataRoomDoc(p, l, t, f)
      PROVE  a.loan \in loans' /\ seq'[a] <= written' /\ Looked(a)'
  <2>1. PICK current \in firstByHash(f) :
          IF current = At(l, t, f)
          THEN /\ Start(p, [Idle EXCEPT !.at = "reeval", !.touched = {l}])
               /\ UNCHANGED <<seq, written>>
          ELSE /\ Start(p, [Idle EXCEPT !.at = "unfile", !.address = current,
                                        !.touched = {l}])
               /\ persist({At(l, t, f)})
    BY <1>8 DEF reclassifyDataRoomDoc
  <2>2. CASE current = At(l, t, f)
    BY <1>4, <2>1, <2>2
  <2>3. CASE current # At(l, t, f)
    <3>1. h'[p] = [Idle EXCEPT !.at = "unfile", !.address = current, !.touched = {l}]
      BY <1>a, <2>1, <2>3
    <3>2. h'[p].at = "unfile" /\ l \in h'[p].touched
      BY <3>1 DEF Idle
    <3>3. At(l, t, f) \in Address /\ At(l, t, f).loan = l
      BY <1>0 DEF At, Address, TypeOK
    <3>4. Expected(At(l, t, f))'
      BY <3>2, <3>3 DEF Expected, WillReevaluate
    <3>. QED
      BY <2>1, <2>3, <3>3, <3>4, FilingLooks
  <2>. QED
    BY <2>2, <2>3
<1>9. CASE Drop(p)
  BY <1>4, <1>5, <1>9 DEF Drop, Staging, Retry, holdStagedFiles, Held, deleteHeldDoc, room
<1>10. CASE Person(p)
  BY <1>3, <1>4, <1>6, <1>7, <1>8, <1>10 DEF Person, Identify, Unhold, room
<1>11. CASE Arrival(p)
  BY <1>4, <1>11 DEF Arrival, LoanArrives, rescanHeldOnLoanArrival, getBlobThrows, Rescanned, room
<1>. QED
  BY <1>9, <1>10, <1>11

LEMMA WatchedInit == Init => Watched
<1> SUFFICES ASSUME Init PROVE Watched
  OBVIOUS
<1>1. \A p \in Handlers : Knows(p)
  BY DEF Init, Idle, Knows
<1>2. Filed = {} /\ trays = {}
  BY DEF Init, Filed
<1>. QED
  BY <1>1, <1>2 DEF Watched

LEMMA WatchedStep == Safe /\ Watched /\ [Next]_vars => Watched'
<1> SUFFICES ASSUME Safe, Watched, [Next]_vars PROVE Watched'
  OBVIOUS
<1>1. CASE UNCHANGED vars
  <2>1. /\ h' = h /\ loans' = loans /\ trays' = trays /\ told' = told /\ crashes' = crashes
        /\ abandoned' = abandoned /\ seq' = seq /\ written' = written /\ Filed' = Filed /\ Drops' = Drops
    BY <1>1 DEF vars, room, ghosts, Filed, Address, Items, Drops
  <2>2. \A p \in Handlers : Knows(p)'
    BY <2>1 DEF Watched, Knows
  <2>3. \A a : Looked(a) => Looked(a)'
    BY <2>1 DEF Looked, ReadyBy, Excused, AloneBy, Expected, WillReevaluate, WillSettle
  <2>. QED
    BY <2>1, <2>2, <2>3 DEF Watched
<1>2. CASE Crash
  <2>1. /\ loans' = loans /\ trays' = trays /\ seq' = seq /\ written' = written
        /\ Filed' = Filed /\ crashes' # 0
    BY <1>2 DEF Crash, room, Filed, Address, Items, Safe, TypeOK
  <2>2. \A p \in Handlers : Knows(p)'
    BY <1>2 DEF Crash, Knows, Idle
  <2>3. \A a : Looked(a)'
    BY <2>1 DEF Looked
  <2>. QED
    BY <2>1, <2>2, <2>3 DEF Watched
<1>3. ASSUME NEW p \in Handlers, Drop(p) \/ Person(p) \/ Arrival(p) PROVE Watched'
  <2>1. \A a \in Filed' : a.loan \in loans' /\ seq'[a] <= written' /\ Looked(a)'
    BY <1>3, HandlersLook
  <2>2. Knows(p)'
    BY <1>3, KnowsNext
  <2>3. ASSUME NEW q \in Handlers, q # p PROVE Knows(q)'
    <3>1. h'[q] = h[q] /\ h[q].at # "unfile" /\ Knows(q)
      BY <1>3, <2>3, OneAtATime DEF Watched, Sync
    <3>. QED
      BY <3>1, LoansGrow DEF Knows
  <2>4. \A drop \in trays' : drop.confirm \subseteq drop.files
    <3>1. CASE Settle(p)
      BY <3>1 DEF Settle, Watched, Knows
    <3>2. CASE ~ Settle(p)
      BY <1>3, <3>2 DEF Watched, Drop, Staging, Retry, assignDataRoomFiles, holdStagedFiles,
         Held, deleteHeldDoc, Person, Assign, Identify, reclassifyDataRoomDoc,
         identifyHeldDoc, Unhold, deleteByAddress, reevaluateAndEnqueueIfReady, Arrival,
         LoanArrives, rescanHeldOnLoanArrival, getBlobThrows, Rescanned
    <3>. QED
      BY <3>1, <3>2
  <2>. QED
    BY <2>1, <2>2, <2>3, <2>4 DEF Watched
<1>. QED
  BY <1>1, <1>2, <1>3 DEF Next

LEMMA WatchedInvariant == Spec => [](Safe /\ Watched)
<1>1. Init => Watched
  BY WatchedInit
<1>2. Safe /\ Watched /\ [Next]_vars => Watched'
  BY WatchedStep
<1>. QED
  BY <1>1, <1>2, IntakeInvariant, PTL DEF Spec

(***************************************************************************)
(* Of a ready loan the document written last is the one that is owed the   *)
(* look.                                                                   *)
(***************************************************************************)
LEMMA MissedByDrops ==
    ASSUME Safe, Watched
    PROVE  OnlyDropsMissLoans
<1> SUFFICES ASSUME AllIdle, crashes = 0, NEW l \in loans, Ready(l), l \notin told \cup abandoned
             PROVE  \E files \in Drops : /\ \E f \in files : l \in LoansOf(f)
                                         /\ \E g \in files : LoansOf(g) # {l}
  BY DEF OnlyDropsMissLoans
<1>1. {a \in Filed : a.loan = l} # {}
  BY ReadinessAssumption DEF Ready
<1>2. PICK a \in {b \in Filed : b.loan = l} : \A b \in {c \in Filed : c.loan = l} : seq[b] <= seq[a]
  BY <1>1, LatestExists DEF Safe
<1>3. ReadyBy(l, seq[a])
  BY <1>2 DEF Ready, ReadyBy
<1>4. ~ Expected(a)
  BY DEF AllIdle, Expected, WillReevaluate, WillSettle
<1>5. Excused(a)
  BY <1>2, <1>3, <1>4 DEF Watched, Looked
<1>6. PICK files \in Drops : a.file \in files /\ \E g \in files : ~ AloneBy(g, l, seq[a])
  BY <1>2, <1>5 DEF Excused
<1>7. l \in LoansOf(a.file)
  BY <1>2 DEF LoansOf
<1>8. PICK g \in files : ~ AloneBy(g, l, seq[a])
  BY <1>6
<1>9. ASSUME LoansOf(g) = {l} PROVE FALSE
  <2>1. \A b \in Filed : b.file = g => b.loan = l
    BY <1>9 DEF LoansOf
  <2>2. \E b \in Filed : b.file = g /\ b.loan = l
    BY <1>9 DEF LoansOf
  <2>. QED
    BY <1>2, <1>8, <2>1, <2>2 DEF AloneBy
<1>. QED
  BY <1>6, <1>7, <1>8, <1>9

(***************************************************************************)
(* A loan that has what it needs is left without a job only by a crash, by *)
(* a rescan that moved a file to it and then threw, or by a drop that has  *)
(* a file of it and one that is not filed there alone: whichever handlers  *)
(* filed and moved its documents, in whatever order.                       *)
(***************************************************************************)
THEOREM MovesMissNoLoan == Spec => []OnlyDropsMissLoans
<1>1. Safe /\ Watched => OnlyDropsMissLoans
  BY MissedByDrops
<1>. QED
  BY <1>1, WatchedInvariant, PTL

=============================================================================
