--------------------------- MODULE PageLifecycle ---------------------------
(***************************************************************************)
(* mutatePageLifecycle (core/pages/lifecycle-mutation-evidence.ts): trash, *)
(* restore and purge.  A call reads what it needs in several statements,   *)
(* plans the whole change from what it read, and commits it in one batch   *)
(* that first asserts that every row it read is still as it was read.      *)
(* Implements PageTree, in which each of these is one step.                *)
(*                                                                         *)
(* Page content, versions and tag links travel with their page and are not *)
(* told apart; authority and classification are guards of the same kind.   *)
(***************************************************************************)
EXTENDS PageTree

CONSTANT Requests

VARIABLE request   \* calls of mutatePageLifecycle and what they have read

allVars == <<vars, request>>

Idle == [phase |-> "idle"]
Actions == {"trash", "restore", "purge"}

LifecycleInit == Init /\ request = [q \in Requests |-> Idle]

Source(a)      == IF a = "trash" THEN draft ELSE trash
Destination(a) == IF a = "trash" THEN trash ELSE IF a = "restore" THEN draft ELSE {}

-----------------------------------------------------------------------------
(* What a call reads.  ids are the pages asked for, or with bulk the pages  *)
(* of the chosen type and age.                                              *)
Selected(a, bulk, ids) ==
    IF a = "purge" /\ bulk THEN (ids \cap trash) \ HeldAbove ELSE ids \cap Source(a)

(* A purge takes along what lies below the selection.                       *)
Scope(a, chosen) == IF a = "purge" THEN Below(chosen, link) ELSE chosen \cap Source(a)

Row(a, p) == IF a = "trash" THEN <<parent[p]>> ELSE <<link[p], origin[p]>>

(* Everything else the plan rests on, given the rows read before.           *)
Named(rows) == UNION {{rows[p][i] : i \in DOMAIN rows[p]} : p \in DOMAIN rows}
Related(a, rows) ==
    [sourceParents      |-> Named(rows) \cap Source(a),
     destinationParents |-> Named(rows) \cap Destination(a),
     children           |-> IF a = "trash" THEN {}
                            ELSE {<<c, link[c], origin[c]>> : c \in
                                    {d \in trash \ DOMAIN rows : link[d] \in DOMAIN rows}},
     destinations       |-> [p \in DOMAIN rows \cap Destination(a) |->
                               IF a = "trash" THEN <<link[p], origin[p]>> ELSE <<parent[p]>>]]

Begin(q, a, bulk, ids) ==
    /\ request[q].phase = "idle"
    /\ Selected(a, bulk, ids) # {}   \* a call that finds nothing changes nothing
    /\ bulk => a = "purge"           \* elsewhere a bulk call selects as any other
    /\ request' = [request EXCEPT ![q] =
          [phase |-> "selected", action |-> a, bulk |-> bulk, ids |-> ids,
           chosen |-> Selected(a, bulk, ids)]]
    /\ UNCHANGED vars

(* The rows of the scope; then, for a purge, the holds on them: a held page *)
(* in scope refuses the call.                                               *)
ReadScope(q) ==
    /\ request[q].phase = "selected"
    /\ LET r    == request[q]
           rows == [p \in Scope(r.action, r.chosen) |-> Row(r.action, p)]
       IN  request' = [request EXCEPT ![q] =
               [phase |-> "scoped", action |-> r.action, bulk |-> r.bulk, ids |-> r.ids,
                chosen |-> r.chosen, rows |-> rows]]
    /\ UNCHANGED vars

ReadRelated(q) ==
    /\ request[q].phase = "scoped"
    /\ LET r == request[q] IN
       request' = [request EXCEPT ![q] =
           IF DOMAIN r.rows = {} \/ (r.action = "purge" /\ DOMAIN r.rows \cap held # {})
           THEN Idle
           ELSE [phase |-> "planned", action |-> r.action, bulk |-> r.bulk, ids |-> r.ids,
                 chosen |-> r.chosen, rows |-> r.rows, related |-> Related(r.action, r.rows)]]
    /\ UNCHANGED vars

-----------------------------------------------------------------------------
(* The batch.  Its assertions: the selection, the rows, the relations and,  *)
(* for a purge, the absence of holds are as they were read.                 *)
SameButChildren(r) ==                                               \* mutant
    /\ r.chosen = Selected(r.action, r.bulk, r.ids)
    /\ r.rows = [p \in Scope(r.action, r.chosen) |-> Row(r.action, p)]
    /\ [r.related EXCEPT !.children = {}] = [Related(r.action, r.rows) EXCEPT !.children = {}]
    /\ r.action = "purge" => DOMAIN r.rows \cap held = {}
Same(r) ==
    /\ r.chosen = Selected(r.action, r.bulk, r.ids)
    /\ r.rows = [p \in Scope(r.action, r.chosen) |-> Row(r.action, p)]
    /\ r.related = Related(r.action, r.rows)
    /\ r.action = "purge" => DOMAIN r.rows \cap held = {}

(* The parent each moved page is given: the one its row names, wherever     *)
(* that is by now, if it moves along or is at the destination.  A restored  *)
(* page's row names its parent in trash or else where it came from.         *)
Wanted(r, p) == IF r.action = "restore" /\ r.rows[p][1] = Root THEN r.rows[p][2] ELSE r.rows[p][1]
Projected(r, p) ==
    IF Wanted(r, p) \in DOMAIN r.rows \cup r.related.destinationParents
    THEN Wanted(r, p) ELSE Root

(* Rows that leave trash first let go of their parents and their children;  *)
(* deleting them deletes whatever still points at them.                     *)
Detached(r, c) == link[c]
Left(r)      == {k[1] : k \in r.related.children}
LinkAfter(r) == Released(link, DOMAIN r.rows \cup Left(r))

CommitTrash(q) ==
    LET r == request[q]
        S == DOMAIN r.rows
    IN  /\ r.phase = "planned" /\ r.action = "trash"
        /\ Same(r)
        /\ draft' = draft \ S
        /\ trash' = trash \cup S
        /\ link' = [p \in Pages |-> IF p \in S THEN Projected(r, p) ELSE link[p]]
        /\ origin' = Remembered(S)
        /\ home' = [p \in Pages |-> IF p \in S THEN parent[p] ELSE home[p]]
        /\ parent' = Released(parent, S)
        /\ request' = [request EXCEPT ![q] = Idle]
        /\ UNCHANGED held

CommitRestore(q) ==
    LET r == request[q]
        S == DOMAIN r.rows
        gone == Below(S, LinkAfter(r))
    IN  /\ r.phase = "planned" /\ r.action = "restore"
        /\ Same(r)
        /\ draft' = draft \cup S
        /\ trash' = trash \ gone
        /\ parent' = [p \in Pages |-> IF p \in S THEN Projected(r, p) ELSE parent[p]]
        /\ link' = Released(LinkAfter(r), gone)
        /\ origin' = [p \in Pages |-> IF p \in gone THEN Root
                          ELSE IF p \in Left(r) THEN Detached(r, p) ELSE origin[p]]
        /\ home' = Released(home, gone)
        /\ request' = [request EXCEPT ![q] = Idle]
        /\ UNCHANGED held

CommitPurge(q) ==
    LET r == request[q]
        gone == Below(DOMAIN r.rows, LinkAfter(r))
    IN  /\ r.phase = "planned" /\ r.action = "purge"
        /\ Same(r)
        /\ trash' = trash \ gone
        /\ link' = Released(LinkAfter(r), gone)
        /\ origin' = Released(origin, gone)
        /\ home' = Released(home, gone)
        /\ request' = [request EXCEPT ![q] = Idle]
        /\ UNCHANGED <<draft, parent, held>>

(* An assertion fails and the batch does nothing, or the call ends          *)
(* anywhere before its batch.                                               *)
Abort(q) ==
    /\ request[q].phase # "idle"
    /\ request' = [request EXCEPT ![q] = Idle]
    /\ UNCHANGED vars

LifecycleNext ==
    \/ /\ \/ \E p \in Pages, o \in Pages \cup {Root} : Appear(p, o) \/ Move(p, o)
          \/ \E p \in Pages : PlaceHold(p) \/ ReleaseHold(p)
       /\ UNCHANGED request
    \/ \E q \in Requests :
          \/ \E a \in Actions, bulk \in BOOLEAN, ids \in SUBSET Pages : Begin(q, a, bulk, ids)
          \/ ReadScope(q) \/ ReadRelated(q)
          \/ CommitTrash(q) \/ CommitRestore(q) \/ CommitPurge(q)
          \/ Abort(q)

LifecycleSpec == LifecycleInit /\ [][LifecycleNext]_allVars

-----------------------------------------------------------------------------
(* However calls, edits and holds interleave, each call that commits does   *)
(* what it would have done in one step at that moment, and no other call    *)
(* does anything.                                                           *)
CommitsAreAtomic == Spec
=============================================================================
