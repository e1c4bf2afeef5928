------------------------------ MODULE R2Index ------------------------------
(***************************************************************************)
(* The R2 publish target (core/publish/r2.ts): an object for every live    *)
(* page and index.json, the listing readers start from.  A call stores or  *)
(* deletes its pages' objects, reads the index and writes it back; nothing *)
(* makes that atomic.  What is stored of a page is told apart by the       *)
(* publish it came from.                                                   *)
(***************************************************************************)
EXTENDS Integers

CONSTANTS
    Pages,
    Calls,       \* publishes and unpublishes of slices of pages
    MaxStamp,    \* bound on publishes
    MaxLost      \* bound on calls that die

R2Assumption == MaxStamp \in Nat /\ MaxLost \in Nat

VARIABLES
    object,   \* pages/<uuid>.json: the publish it is from, 0 if there is none
    index,    \* index.json: the same for the pages it lists
    call, stamp, lost,
    alone     \* history: calls nothing else has run beside

vars == <<object, index, call, stamp, lost, alone>>

Idle     == [phase |-> "idle"]
Listings == [Pages -> 0..MaxStamp]
Call     == [phase: {"put", "read"}, pages: SUBSET Pages, left: SUBSET Pages, as: 0..MaxStamp]
            \cup [phase: {"write"}, pages: SUBSET Pages, as: 0..MaxStamp, index: Listings]

Init ==
    /\ object = [p \in Pages |-> 0]
    /\ index = object
    /\ call = [c \in Calls |-> Idle]
    /\ stamp = 0 /\ lost = 0
    /\ alone = {}

(* publishSlice, or with as = 0 unpublish and unpublishMany.                *)
Begin(c, pages, as) ==
    /\ call[c].phase = "idle"
    /\ call' = [call EXCEPT ![c] = [phase |-> "put", pages |-> pages, left |-> pages, as |-> as]]
    /\ UNCHANGED <<object, index, lost>>

Publish(c, pages) ==
    /\ stamp < MaxStamp
    /\ stamp' = stamp + 1
    /\ Begin(c, pages, stamp + 1)

Unpublish(c, pages) == Begin(c, pages, 0) /\ UNCHANGED stamp

(* The objects are put side by side, and deleted in one call.               *)
Put(c, p) ==
    /\ call[c].phase = "put" /\ call[c].as # 0
    /\ p \in call[c].left
    /\ object' = [object EXCEPT ![p] = call[c].as]
    /\ call' = [call EXCEPT ![c].left = @ \ {p},
                            ![c].phase = IF call[c].left = {p} THEN "read" ELSE "put"]
    /\ UNCHANGED <<index, stamp, lost>>

Delete(c) ==
    /\ call[c].phase = "put" /\ call[c].as = 0
    /\ object' = [p \in Pages |-> IF p \in call[c].pages THEN 0 ELSE object[p]]
    /\ call' = [call EXCEPT ![c].left = {}, ![c].phase = "read"]
    /\ UNCHANGED <<index, stamp, lost>>

ReadIndex(c) ==
    /\ call[c].phase = "read"
    /\ call' = [call EXCEPT ![c] =
          [phase |-> "write", pages |-> call[c].pages, as |-> call[c].as, index |-> index]]
    /\ UNCHANGED <<object, index, stamp, lost>>

(* The index as it was read, but for the pages of the call.                 *)
Appended(c) == [p \in Pages |-> IF call[c].index[p] # 0 THEN call[c].index[p]   \* mutant
                                ELSE IF p \in call[c].pages THEN call[c].as ELSE 0]
Listed(c) == [p \in Pages |-> IF p \in call[c].pages THEN call[c].as ELSE call[c].index[p]]

WriteIndex(c) ==
    /\ call[c].phase = "write"
    /\ index' = Listed(c)
    /\ call' = [call EXCEPT ![c] = Idle]
    /\ UNCHANGED <<object, stamp, lost>>

Dies(c) ==
    /\ call[c].phase # "idle"
    /\ lost < MaxLost
    /\ lost' = lost + 1
    /\ call' = [call EXCEPT ![c] = Idle]
    /\ UNCHANGED <<object, index, stamp>>

Step(c) ==
    \/ \E pages \in SUBSET Pages \ {{}} : Publish(c, pages) \/ Unpublish(c, pages)
    \/ \E p \in Pages : Put(c, p)
    \/ Delete(c) \/ ReadIndex(c) \/ WriteIndex(c) \/ Dies(c)

StillAlone(c) ==
    IF call[c].phase # "idle" THEN alone \cap {c}
    ELSE IF \A d \in Calls : call[d].phase = "idle" THEN {c} ELSE {}

Next == \E c \in Calls : Step(c) /\ alone' = StillAlone(c)

Spec == Init /\ [][Next]_vars

-----------------------------------------------------------------------------
TypeOK ==
    /\ object \in Listings
    /\ index \in Listings
    /\ \A c \in Calls : call[c] = Idle \/ call[c] \in Call
    /\ stamp \in 0..MaxStamp
    /\ lost \in 0..MaxLost
    /\ alone \subseteq Calls

(* A call beside which nothing else runs leaves its pages listed as they    *)
(* are stored, and the other pages listed as they were.                     *)
AloneIsListed ==
    [][\A c \in alone : WriteIndex(c) =>
          \A p \in Pages : index'[p] = IF p \in call[c].pages THEN object[p] ELSE index[p]]_vars
=============================================================================
