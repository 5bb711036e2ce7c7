---------------------------- MODULE RevisionLog ----------------------------
(***************************************************************************)
(* What the revision store promises to the readers of a deal, without      *)
(* handlers, documents or restarts: revisions are only ever added, each    *)
(* under a parent that is on record, and a deal shows revisions of the one *)
(* lineage that it was opened on.                                          *)
(*                                                                         *)
(* A revision is named by its contents from the root down to it.           *)
(***************************************************************************)
EXTENDS Naturals, Sequences

VARIABLES
    log,     \* the revisions on record
    heads    \* heads[a]: the revision that deal a shows

Init == log = {} /\ heads = <<>>

ParentOf(r) == SubSeq(r, 1, Len(r) - 1)

(***************************************************************************)
(* A revision is recorded: a root, or a child of one on record.            *)
(***************************************************************************)
Record ==
    /\ \E r \in log' :
         /\ log' = log \cup {r}
         /\ Len(r) = 1 \/ ParentOf(r) \in log
    /\ UNCHANGED heads

(***************************************************************************)
(* A deal is opened on a root.                                             *)
(***************************************************************************)
Open ==
    /\ \E r \in log : Len(r) = 1 /\ heads' = Append(heads, r)
    /\ UNCHANGED log

(***************************************************************************)
(* A deal moves to another revision of its lineage.                        *)
(***************************************************************************)
Move ==
    /\ \E a \in DOMAIN heads, r \in log :
         /\ r[1] = heads[a][1]
         /\ heads' = [heads EXCEPT ![a] = r]
    /\ UNCHANGED log

Next == Record \/ Open \/ Move

Spec == Init /\ [][Next]_<<log, heads>>

=============================================================================
