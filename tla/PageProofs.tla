----------------------------- MODULE PageProofs -----------------------------
(***************************************************************************)
(* Proofs about the pages: where they are (PageTree, PageLifecycle) and    *)
(* several people at one (PageSync).                                       *)
(*                                                                         *)
(* In the tree, TypeOK, LinksSound and OriginIsHome are inductive          *)
(* together; the rest rests on four facts about Below, the least set       *)
(* closed under having a child.  PageLifecycle implements the tree: under  *)
(* Same, what a call read is what it would read now, so its batch is the   *)
(* step of PageTree on the pages in its scope; nothing else a call does    *)
(* touches the pages.  The restore step rests on TreeInv: the parent a row *)
(* in trash names is the page's home.                                      *)
(*                                                                         *)
(* In PageSync, FieldInv says where each edit is that a tab not led astray *)
(* needs: at the object, at the tab, or in a message that is on its way    *)
(* between them; TextInv says the same of every part of the text.  When    *)
(* nothing is on its way, what they leave is that all have the same.  The  *)
(* first is of every behaviour; the second of those in which Apart keeps   *)
(* every other step out of a save, until all tabs have heard of it.        *)
(***************************************************************************)
EXTENDS PageLifecycle, PageSync, FiniteSetTheorems, WellFoundedInduction, NaturalsInduction, TLAPS

(* Below yields pages in trash.                                             *)
LEMMA BelowInTrash == ASSUME NEW S, NEW l PROVE Below(S, l) \subseteq trash
BY DEF Below

(* Below contains the pages it starts from.                                 *)
LEMMA BelowContains == ASSUME NEW S \in SUBSET trash, NEW l PROVE S \subseteq Below(S, l)
BY DEF Below

(* Below is closed: the children of its members are members.                *)
LEMMA BelowClosed ==
    ASSUME NEW S, NEW l, NEW c \in trash, l[c] \in Below(S, l)
    PROVE  c \in Below(S, l)
<1> SUFFICES ASSUME NEW C \in SUBSET trash, S \subseteq C,
                    \A d \in trash : l[d] \in C => d \in C
             PROVE  c \in C
    BY DEF Below
<1>1. l[c] \in C
    BY DEF Below
<1> QED BY <1>1

(* Below is the least such set.                                             *)
LEMMA BelowLeast ==
    ASSUME NEW S, NEW l, NEW C \in SUBSET trash, S \subseteq C,
           \A d \in trash : l[d] \in C => d \in C
    PROVE  Below(S, l) \subseteq C
BY DEF Below

(* HELD_SUBTREES takes every held page in trash and everything above it.    *)
LEMMA HeldAboveClosed ==
    /\ held \cap trash \subseteq HeldAbove
    /\ \A c \in HeldAbove : link[c] \in trash => link[c] \in HeldAbove
<1>1. held \cap trash \subseteq HeldAbove
    BY DEF HeldAbove
<1>2. ASSUME NEW c \in HeldAbove, link[c] \in trash
      PROVE  link[c] \in HeldAbove
  <2> SUFFICES ASSUME NEW C \in SUBSET trash, held \cap trash \subseteq C,
                      \A d \in C : link[d] \in trash => link[d] \in C
               PROVE  link[c] \in C
      BY <1>2 DEF HeldAbove
  <2>1. c \in C
      BY DEF HeldAbove
  <2> QED BY <2>1, <1>2
<1> QED BY <1>1, <1>2

-----------------------------------------------------------------------------
(* Emptying the trash never meets a hold, in any state: no page outside     *)
(* HELD_SUBTREES has a held page below it (lifecycle-mutation-evidence.ts   *)
(* HELD_SUBTREES).                                                          *)
THEOREM BulkPassesOver == BulkSparesHeld
<1> SUFFICES ASSUME NEW S \in SUBSET (trash \ HeldAbove) PROVE Free(S)
    BY DEF BulkSparesHeld
<1> DEFINE C == trash \ HeldAbove
<1>1. \A c \in trash : link[c] \in C => c \in C
    BY HeldAboveClosed
<1>2. Below(S, link) \subseteq C
  <2>1. C \in SUBSET trash /\ S \subseteq C
      OBVIOUS
  <2> HIDE DEF C
  <2> QED BY <1>1, <2>1, BelowLeast
<1> QED BY <1>2, HeldAboveClosed DEF Free

-----------------------------------------------------------------------------
TreeInv == TypeOK /\ LinksSound /\ OriginIsHome

LEMMA InitTree == Init => TreeInv
BY DEF Init, TreeInv, TypeOK, LinksSound, OriginIsHome

LEMMA AppearTree ==
    ASSUME TreeInv, NEW p \in Pages, NEW q \in Pages \cup {Root}, Appear(p, q) \/ Move(p, q)
    PROVE  TreeInv'
BY DEF TreeInv, TypeOK, LinksSound, OriginIsHome, Appear, Move

LEMMA HoldTree ==
    ASSUME TreeInv, NEW p \in Pages, PlaceHold(p) \/ ReleaseHold(p)
    PROVE  TreeInv'
BY DEF TreeInv, TypeOK, LinksSound, OriginIsHome, PlaceHold, ReleaseHold

LEMMA TrashTree ==
    ASSUME TreeInv, NEW S \in SUBSET Pages, TrashPages(S)
    PROVE  TreeInv'
<1> USE RootAssumption DEF TreeInv, TrashPages, Released, Remembered
<1>1. TypeOK'
    BY DEF TypeOK
<1>2. LinksSound'
    BY DEF TypeOK, LinksSound
<1>3. OriginIsHome'
    BY DEF TypeOK, OriginIsHome
<1> QED BY <1>1, <1>2, <1>3

LEMMA RestoreTree ==
    ASSUME TreeInv, NEW S \in SUBSET Pages, RestorePages(S)
    PROVE  TreeInv'
<1> USE RootAssumption DEF TreeInv, RestorePages, Released
<1>1. TypeOK'
    BY DEF TypeOK
<1>2. LinksSound'
    BY DEF TypeOK, LinksSound
<1>3. OriginIsHome'
    BY DEF TypeOK, OriginIsHome
<1> QED BY <1>1, <1>2, <1>3

LEMMA PurgeTree ==
    ASSUME TreeInv, NEW S \in SUBSET Pages, PurgePages(S)
    PROVE  TreeInv'
<1> DEFINE gone == Below(S, link)
<1>1. gone \subseteq trash
    BY BelowInTrash
<1>2. \A c \in trash : link[c] \in gone => c \in gone
    BY BelowClosed
<1>3. /\ trash' = trash \ gone
      /\ link' = Released(link, gone)
      /\ origin' = Released(origin, gone)
      /\ home' = Released(home, gone)
      /\ UNCHANGED <<draft, parent, held>>
    BY DEF PurgePages
<1> HIDE DEF gone
<1> USE RootAssumption DEF TreeInv, Released
<1>4. TypeOK'
    BY <1>1, <1>3 DEF TypeOK
<1>5. LinksSound'
    BY <1>1, <1>2, <1>3 DEF TypeOK, LinksSound
<1>6. OriginIsHome'
    BY <1>1, <1>3 DEF TypeOK, OriginIsHome
<1> QED BY <1>4, <1>5, <1>6

LEMMA NextTree == TreeInv /\ [Next]_vars => TreeInv'
<1> SUFFICES ASSUME TreeInv, [Next]_vars PROVE TreeInv'
    OBVIOUS
<1>1. CASE UNCHANGED vars
    BY <1>1 DEF vars, TreeInv, TypeOK, LinksSound, OriginIsHome
<1>2. CASE Next
    BY <1>2, AppearTree, HoldTree, TrashTree, RestoreTree, PurgeTree DEF Next
<1> QED BY <1>1, <1>2

(* In every reachable state a link in trash resolves and agrees with the    *)
(* parent remembered, that is the parent the page had in draft, and bulk    *)
(* purges meet no hold (lifecycle-mutation-evidence.ts, mutate).            *)
THEOREM TreeSound == Spec => []TrashSound
<1>1. TreeInv => TrashSound
    BY BulkPassesOver DEF TreeInv, TrashSound
<1> QED BY InitTree, NextTree, <1>1, PTL DEF Spec

(* No hold is ever broken: a page under hold is neither purged itself nor   *)
(* swept along with a page above it.                                        *)
THEOREM HoldsKept == Spec => HeldNotDestroyed
<1> DEFINE Kept1 == \A p \in held : p \in draft \cup trash => p \in draft' \cup trash'
<1>1. [Next]_vars => [Kept1]_vars
  <2> SUFFICES ASSUME Next PROVE Kept1
      OBVIOUS
  <2>1. ASSUME NEW p \in Pages, NEW q \in Pages \cup {Root}, Appear(p, q) \/ Move(p, q)
        PROVE  Kept1
      BY <2>1 DEF Appear, Move
  <2>2. ASSUME NEW p \in Pages, PlaceHold(p) \/ ReleaseHold(p)
        PROVE  Kept1
      BY <2>2 DEF PlaceHold, ReleaseHold
  <2>3. ASSUME NEW S \in SUBSET Pages, TrashPages(S) \/ RestorePages(S)
        PROVE  Kept1
      BY <2>3 DEF TrashPages, RestorePages
  <2>4. ASSUME NEW S \in SUBSET Pages, PurgePages(S)
        PROVE  Kept1
      BY <2>4 DEF PurgePages, Free
  <2> QED BY <2>1, <2>2, <2>3, <2>4 DEF Next
<1> QED BY <1>1, PTL DEF Spec, HeldNotDestroyed

-----------------------------------------------------------------------------
(* A trash batch is TrashPages on the rows it read.                         *)
LEMMA TrashStep ==
    ASSUME TreeInv, NEW q \in Requests, CommitTrash(q)
    PROVE  [Next]_vars
<1> DEFINE r == request[q]
           S == DOMAIN r.rows
<1>1. /\ r.action = "trash"
      /\ Same(r)
      /\ draft' = draft \ S
      /\ trash' = trash \cup S
      /\ link' = [p \in Pages |-> IF p \in S THEN Projected(r, p) ELSE link[p]]
      /\ origin' = Remembered(S)
      /\ home' = [p \in Pages |-> IF p \in S THEN parent[p] ELSE home[p]]
      /\ parent' = Released(parent, S)
      /\ UNCHANGED held
    BY DEF CommitTrash
<1>2. /\ r.rows = [p \in Scope("trash", r.chosen) |-> Row("trash", p)]
      /\ r.related = Related("trash", r.rows)
    BY <1>1 DEF Same
<1>3. S \subseteq draft
    BY <1>2 DEF Scope, Source
<1>4. \A p \in S : r.rows[p] = <<parent[p]>>
    BY <1>2 DEF Row
<1>5. r.related.destinationParents = Named(r.rows) \cap trash
    BY <1>2 DEF Related, Destination
<1>6. ASSUME NEW p \in S
      PROVE  Projected(r, p) = IF parent[p] \in trash \cup S THEN parent[p] ELSE Root
  <2>1. Wanted(r, p) = parent[p]
      BY <1>1, <1>4 DEF Wanted
  <2>2. parent[p] \in Named(r.rows)
      BY <1>4 DEF Named
  <2> QED BY <2>1, <2>2, <1>5 DEF Projected
<1> HIDE DEF r, S
<1>7. CASE S = {}
    BY <1>1, <1>7 DEF vars, TreeInv, TypeOK, Released, Remembered
<1>8. CASE S # {}
  <2>1. TrashPages(S)
      BY <1>1, <1>3, <1>6, <1>8 DEF TrashPages
  <2> QED BY <2>1, <1>3 DEF Next, TreeInv, TypeOK
<1> QED BY <1>7, <1>8

(* Once the rows that leave trash have let go of their parents and their    *)
(* children, deleting them deletes nothing else.                            *)
LEMMA NothingBelow ==
    ASSUME NEW S \in SUBSET trash, NEW l, \A c \in trash : l[c] \notin S
    PROVE  Below(S, l) = S
BY BelowContains, BelowLeast

(* A restore batch is RestorePages on the rows it read.                     *)
LEMMA RestoreStep ==
    ASSUME TreeInv, NEW q \in Requests, CommitRestore(q)
    PROVE  [Next]_vars
<1> DEFINE r == request[q]
           S == DOMAIN r.rows
           after == LinkAfter(r)
           gone == Below(S, after)
<1>1. /\ r.action = "restore"
      /\ Same(r)
      /\ draft' = draft \cup S
      /\ trash' = trash \ gone
      /\ parent' = [p \in Pages |-> IF p \in S THEN Projected(r, p) ELSE parent[p]]
      /\ link' = Released(after, gone)
      /\ origin' = [p \in Pages |-> IF p \in gone THEN Root
                        ELSE IF p \in Left(r) THEN Detached(r, p) ELSE origin[p]]
      /\ home' = Released(home, gone)
      /\ UNCHANGED held
    BY DEF CommitRestore
<1>2. /\ r.rows = [p \in Scope("restore", r.chosen) |-> Row("restore", p)]
      /\ r.related = Related("restore", r.rows)
    BY <1>1 DEF Same
<1>3. S \subseteq trash
    BY <1>2 DEF Scope, Source
<1>4. \A p \in S : r.rows[p] = <<link[p], origin[p]>>
    BY <1>2 DEF Row
<1>5. r.related.destinationParents = Named(r.rows) \cap draft
    BY <1>2 DEF Related, Destination
<1>6. Left(r) = {c \in trash \ S : link[c] \in S}
  <2>1. r.related.children = {<<c, link[c], origin[c]>> : c \in {d \in trash \ S : link[d] \in S}}
      BY <1>2 DEF Related
  <2>2. \A c \in {d \in trash \ S : link[d] \in S} : <<c, link[c], origin[c]>>[1] = c
      OBVIOUS
  <2>3. Left(r) = {k[1] : k \in {<<c, link[c], origin[c]>> : c \in {d \in trash \ S : link[d] \in S}}}
      BY <2>1 DEF Left
  <2> QED BY <2>2, <2>3
<1>7. ASSUME NEW p \in S
      PROVE  Projected(r, p) = IF home[p] \in draft \cup S THEN home[p] ELSE Root
  <2>1. Wanted(r, p) = home[p]
      BY <1>1, <1>3, <1>4 DEF Wanted, TreeInv, LinksSound, OriginIsHome
  <2>2. origin[p] \in Named(r.rows)
    <3>1. r.rows[p][2] = origin[p] /\ 2 \in DOMAIN r.rows[p]
        BY <1>4
    <3> QED BY <3>1 DEF Named
  <2>3. home[p] \in Named(r.rows)
      BY <2>2, <1>3 DEF TreeInv, OriginIsHome
  <2> QED BY <2>1, <2>3, <1>5 DEF Projected
<1>8. after = [p \in Pages |-> IF p \in S \cup Left(r) THEN Root ELSE link[p]]
    BY DEF LinkAfter, Released
<1> HIDE DEF r, S, after
<1>9. gone = S
  <2>1. \A c \in trash : after[c] \notin S
      BY <1>3, <1>6, <1>8, RootAssumption DEF TreeInv, TypeOK
  <2> QED BY <2>1, <1>3, NothingBelow
<1> HIDE DEF gone
<1>10. link' = [p \in Pages |-> IF p \in S \/ link[p] \in S THEN Root ELSE link[p]]
    BY <1>1, <1>3, <1>6, <1>8, <1>9, RootAssumption DEF Released, TreeInv, TypeOK
<1>11. origin' = Released(origin, S)
    BY <1>1, <1>3, <1>6, <1>9, RootAssumption DEF Released, Detached, TreeInv, TypeOK, LinksSound
<1>12. CASE S = {}
    BY <1>1, <1>9, <1>10, <1>11, <1>12 DEF vars, TreeInv, TypeOK, Released
<1>13. CASE S # {}
  <2>1. RestorePages(S)
      BY <1>1, <1>3, <1>7, <1>9, <1>10, <1>11, <1>13 DEF RestorePages
  <2> QED BY <2>1, <1>3 DEF Next, TreeInv, TypeOK
<1> QED BY <1>12, <1>13

(* A purge batch is PurgePages on the pages it selected: its rows are all   *)
(* that lies below them.                                                    *)
LEMMA PurgeStep ==
    ASSUME TreeInv, NEW q \in Requests, CommitPurge(q)
    PROVE  [Next]_vars
<1> DEFINE r == request[q]
           S == DOMAIN r.rows
           after == LinkAfter(r)
           gone == Below(S, after)
<1>1. /\ r.action = "purge"
      /\ Same(r)
      /\ trash' = trash \ gone
      /\ link' = Released(after, gone)
      /\ origin' = Released(origin, gone)
      /\ home' = Released(home, gone)
      /\ UNCHANGED <<draft, parent, held>>
    BY DEF CommitPurge
<1>2. /\ r.chosen = Selected("purge", r.bulk, r.ids)
      /\ r.rows = [p \in Scope("purge", r.chosen) |-> Row("purge", p)]
      /\ r.related = Related("purge", r.rows)
      /\ S \cap held = {}
    BY <1>1 DEF Same
<1>3. r.chosen \subseteq trash
    BY <1>2 DEF Selected, Source
<1>4. S = Below(r.chosen, link)
    BY <1>2 DEF Scope
<1>5. S \subseteq trash /\ \A c \in trash : link[c] \in S => c \in S
    BY <1>4, BelowInTrash, BelowClosed
<1>6. Left(r) = {}
  <2>1. r.related.children = {<<c, link[c], origin[c]>> : c \in {d \in trash \ S : link[d] \in S}}
      BY <1>2 DEF Related
  <2> QED BY <2>1, <1>5 DEF Left
<1>7. after = [p \in Pages |-> IF p \in S THEN Root ELSE link[p]]
    BY <1>6 DEF LinkAfter, Released
<1> HIDE DEF r, S, after
<1>8. gone = S
  <2>1. \A c \in trash : after[c] \notin S
      BY <1>5, <1>7, RootAssumption DEF TreeInv, TypeOK
  <2> QED BY <2>1, <1>5, NothingBelow
<1> HIDE DEF gone
<1>9. link' = Released(link, S)
    BY <1>1, <1>7, <1>8 DEF Released
<1>10. CASE r.chosen = {}
  <2>1. S = {}
      BY <1>4, <1>10, BelowLeast
  <2> QED BY <2>1, <1>1, <1>8, <1>9 DEF vars, TreeInv, TypeOK, Released
<1>11. CASE r.chosen # {}
  <2>1. PurgePages(r.chosen)
      BY <1>1, <1>2, <1>3, <1>4, <1>8, <1>9, <1>11 DEF PurgePages, Free
  <2> QED BY <2>1, <1>3 DEF Next, TreeInv, TypeOK
<1> QED BY <1>10, <1>11

LEMMA CallStep ==
    ASSUME TreeInv, [LifecycleNext]_allVars
    PROVE  [Next]_vars
<1>1. CASE UNCHANGED allVars
    BY <1>1 DEF allVars, vars
<1>2. CASE \/ \E p \in Pages, o \in Pages \cup {Root} : Appear(p, o) \/ Move(p, o)
           \/ \E p \in Pages : PlaceHold(p) \/ ReleaseHold(p)
    BY <1>2 DEF Next
<1>3. ASSUME NEW q \in Requests,
             \/ \E a \in Actions, bulk \in BOOLEAN, ids \in SUBSET Pages : Begin(q, a, bulk, ids)
             \/ ReadScope(q) \/ ReadRelated(q) \/ Abort(q)
      PROVE  [Next]_vars
    BY <1>3 DEF Begin, ReadScope, ReadRelated, Abort
<1>4. ASSUME NEW q \in Requests, CommitTrash(q) \/ CommitRestore(q) \/ CommitPurge(q)
      PROVE  [Next]_vars
    BY <1>4, TrashStep, RestoreStep, PurgeStep
<1> QED BY <1>1, <1>2, <1>3, <1>4 DEF LifecycleNext

-----------------------------------------------------------------------------
(* Trash, restore and purge behave as single steps however many calls,      *)
(* edits and holds interleave with their reads (lifecycle-mutation-         *)
(* evidence.ts mutate): PageLifecycle implements PageTree.                  *)
THEOREM LifecycleIsAtomic == LifecycleSpec => CommitsAreAtomic
<1>1. LifecycleInit => Init /\ TreeInv
    BY InitTree DEF LifecycleInit
<1>2. TreeInv /\ [LifecycleNext]_allVars => [Next]_vars /\ TreeInv'
    BY CallStep, NextTree
<1> QED BY <1>1, <1>2, PTL DEF LifecycleSpec, CommitsAreAtomic, Spec

(* So what the tree promises holds of the calls: links are sound and no     *)
(* interleaving destroys a held page.                                       *)
THEOREM LifecycleKeepsHolds ==
    LifecycleSpec => []TrashSound /\ HeldNotDestroyed
BY LifecycleIsAtomic, TreeSound, HoldsKept, PTL DEF CommitsAreAtomic

-----------------------------------------------------------------------------
(* A set of numbers up to a bound has a greatest one.                       *)
LEMMA SmallestOf == ASSUME NEW S, S \subseteq Nat, S # {} PROVE \E n \in S : \A m \in S : n <= m
<1> DEFINE R == OpToRel(<, Nat)
<1>1. IsWellFoundedOn(R, Nat)  BY NatLessThanWellFounded
<1>2. PICK n \in S : \A m \in S : ~ (<<m, n>> \in R)
  <2> HIDE DEF R
  <2> QED BY <1>1, WFMin
<1>3. \A a, b \in Nat : a < b => <<a, b>> \in R  BY DEF OpToRel
<1>4. \A m \in S : m \in Nat /\ n \in Nat /\ ~(m < n)  BY <1>2, <1>3
<1> HIDE DEF R
<1> QED BY <1>4

LEMMA GreatestOf ==
    ASSUME NEW S \in SUBSET Nat, S # {}, NEW c \in Nat, \A x \in S : x <= c
    PROVE  Max(S) \in S /\ \A x \in S : x <= Max(S)
<1> DEFINE B == {n \in Nat : \A x \in S : x <= n}
<1>1. PICK n \in B : \A m \in B : n <= m
  <2>1. B \subseteq Nat /\ B # {}  OBVIOUS
  <2> HIDE DEF B
  <2> QED BY <2>1, SmallestOf
<1>2. n \in Nat /\ \A x \in S : x <= n  OBVIOUS
<1>3. n \in S
  <2> SUFFICES ASSUME n \notin S PROVE FALSE  OBVIOUS
  <2>1. \A x \in S : x \in Nat /\ x < n  BY <1>2
  <2>2. n # 0
    <3>1. PICK x \in S : TRUE  OBVIOUS
    <3> QED BY <1>2, <2>1, <3>1
  <2>3. n - 1 \in B  BY <1>2, <2>1, <2>2
  <2> QED BY <1>1, <1>2, <2>3
<1>4. \E x \in S : \A y \in S : x >= y  BY <1>2, <1>3
<1>5. Max(S) \in S /\ \A y \in S : Max(S) >= y  BY <1>4 DEF Max
<1> QED BY <1>5

Stamps == 0..MaxStamp
LEMMA StampsAre == Stamps \subseteq Nat /\ 0 \in Stamps /\ (1..MaxStamp) \subseteq Stamps
BY PageSyncAssumption DEF Stamps, PageSyncAssumption

LEMMA GreatestStamp ==
    ASSUME NEW S \in SUBSET Stamps, S # {}
    PROVE  Max(S) \in S /\ \A x \in S : x <= Max(S)
<1>1. S \in SUBSET Nat /\ MaxStamp \in Nat /\ \A x \in S : x <= MaxStamp
    BY PageSyncAssumption DEF Stamps, PageSyncAssumption
<1> QED BY <1>1, GreatestOf

(* The newest edit is one of them, or none.                                 *)
LEMMA NewestIs ==
    ASSUME NEW f \in [Users -> Stamps]
    PROVE  /\ Newest(f) \in Stamps /\ Newest(f) \in Nat
           /\ \A u \in Users : f[u] <= Newest(f)
           /\ Newest(f) = 0 \/ \E u \in Users : Newest(f) = f[u]
<1> DEFINE S == Range(f) \cup {0}
<1>1. S \in SUBSET Stamps /\ S # {}  BY StampsAre DEF Range
<1>2. \A u \in Users : f[u] \in S  BY DEF Range
<1>3. \A x \in S : x = 0 \/ \E u \in Users : x = f[u]  BY DEF Range
<1>4. Newest(f) = Max(S)  BY DEF Newest
<1> HIDE DEF S
<1>5. Max(S) \in S /\ \A x \in S : x <= Max(S)  BY <1>1, GreatestStamp
<1> QED BY <1>1, <1>2, <1>3, <1>4, <1>5, StampsAre

LEMMA NewestGrows ==
    ASSUME NEW f \in [Users -> Stamps], NEW g \in [Users -> Stamps], \A u \in Users : f[u] <= g[u]
    PROVE  Newest(f) <= Newest(g)
<1>1. /\ Newest(f) \in Nat /\ (Newest(f) = 0 \/ \E u \in Users : Newest(f) = f[u])
      /\ Newest(g) \in Nat /\ \A u \in Users : g[u] <= Newest(g)
    BY NewestIs
<1>2. CASE Newest(f) = 0  BY <1>1, <1>2
<1>3. CASE \E u \in Users : Newest(f) = f[u]
  <2>1. PICK u \in Users : Newest(f) = f[u]  BY <1>3
  <2>2. f[u] <= g[u] /\ g[u] <= Newest(g) /\ f[u] \in Nat /\ g[u] \in Nat  BY <1>1, StampsAre
  <2> QED BY <1>1, <2>1, <2>2
<1> QED BY <1>1, <1>2, <1>3

(* What a tab applies of a snapshot: the newest of the others' edits.       *)
LEMMA NewestOther ==
    ASSUME NEW f \in [Users -> Stamps], NEW o
    PROVE  LET n == Max({f[u] : u \in Users \ {o}} \cup {0})
           IN  n \in Stamps /\ n <= Newest(f) /\ \A u \in Users : u # o => f[u] <= n
<1> DEFINE S == {f[u] : u \in Users \ {o}} \cup {0}
<1>1. S \in SUBSET Stamps /\ S # {}  BY StampsAre
<1>2. \A u \in Users : u # o => f[u] \in S  OBVIOUS
<1>3. \A x \in S : x = 0 \/ \E u \in Users : x = f[u]  OBVIOUS
<1> HIDE DEF S
<1>4. Max(S) \in S /\ \A x \in S : x <= Max(S)  BY <1>1, GreatestStamp
<1>5. Newest(f) \in Nat /\ \A u \in Users : f[u] <= Newest(f)  BY NewestIs
<1>6. Max(S) = 0 \/ \E u \in Users : Max(S) = f[u]  BY <1>3, <1>4
<1>7. Max(S) \in Stamps /\ \A u \in Users : u # o => f[u] <= Max(S)  BY <1>1, <1>2, <1>4
<1>8. Max(S) <= Newest(f)  BY <1>5, <1>6
<1> QED BY <1>7, <1>8 DEF S

-----------------------------------------------------------------------------
(* What is on the way, and the types of the state.                          *)
Marks == (Tabs \cup {"base", "none"}) \X Nat
Docs == [ins : SUBSET Marks, del : SUBSET Marks]
ToObject == [type : {"op"}, edit : Stamps] \cup [type : {"sync"}]
            \cup [type : {"text-sync"}, blank : BOOLEAN] \cup [type : {"text-update"}, change : Docs]
ToTab == [type : {"snapshot"}, ops : [Users -> Stamps]] \cup [type : {"text-sync"}, doc : Docs]
ToTabs == [type : {"op"}, edit : Stamps, user : Users] \cup [type : {"text-update"}, change : Docs]
          \cup [type : {"reset"}, edit : Stamps, newest : Stamps] \cup [type : {"saved"}]
Numbers == /\ stored \in Stamps /\ pieces \in Nat /\ overlay \in [Users -> Stamps] /\ used \subseteq 1..MaxStamp
           /\ reg \in [Tabs -> Stamps] /\ shown \in [Tabs -> Stamps] /\ base \in [Tabs -> Stamps]
Sets == /\ rich \in BOOLEAN /\ presence \subseteq Users /\ leaving \subseteq Users /\ stale \subseteq Tabs
        /\ open \subseteq Tabs /\ live \subseteq Tabs /\ blank \subseteq Tabs /\ astray \subseteq Tabs
Texts == /\ text \in Docs /\ doc \in [Tabs -> Docs]
         /\ synced \in [Tabs -> BOOLEAN] /\ dirty \in [Tabs -> BOOLEAN] /\ typed \in [Tabs -> BOOLEAN]
Wires == up \in [Tabs -> SUBSET ToObject] /\ down \in [Tabs -> Seq(ToTab)] /\ out \subseteq Tabs \X ToTabs
Typed == Numbers /\ Sets /\ Texts /\ Wires

In(t) == Range(down[t])

LEMMA MergeIs == ASSUME NEW d \in Docs, NEW e \in Docs PROVE Merge(d, e) \in Docs
BY DEF Merge, Docs

LEMMA BlankDocs == NoText \in Docs /\ Empty \in Docs
BY DEF NoText, Empty, Docs, Marks

LEMMA TypedInit == SyncInit => Typed
<1> SUFFICES ASSUME SyncInit PROVE Typed  OBVIOUS
<1> USE DEF SyncInit
<1>1. Numbers  BY StampsAre DEF Numbers
<1>2. Sets  BY DEF Sets
<1>3. Texts  BY BlankDocs DEF Texts
<1>4. Wires  BY DEF Wires
<1> QED BY <1>1, <1>2, <1>3, <1>4 DEF Typed

LEMMA MessagesTyped ==
    /\ \A s \in Stamps : Op(s) \in ToObject
    /\ \A d \in Docs : Update(d) \in ToObject
    /\ Sync \in ToObject
    /\ \A b \in BOOLEAN : [type |-> "text-sync", blank |-> b] \in ToObject
BY DEF Op, Update, Sync, ToObject

(* What the actions do to the wires.                                        *)
LEMMA SendIs ==
    ASSUME Wires, NEW t \in Tabs, NEW ms \in SUBSET ToObject, Send(t, ms)
    PROVE  /\ up' \in [Tabs -> SUBSET ToObject]
           /\ \A o \in Tabs : up'[o] = IF o = t THEN up[t] \cup ms ELSE up[o]
BY DEF Wires, Send

LEMMA HandledIs ==
    ASSUME Wires, NEW t \in Tabs, NEW m, up' = [up EXCEPT ![t] = @ \ {m}]
    PROVE  /\ up' \in [Tabs -> SUBSET ToObject]
           /\ \A o \in Tabs : up'[o] = IF o = t THEN up[t] \ {m} ELSE up[o]
BY DEF Wires

LEMMA ReplyIs ==
    ASSUME Wires, NEW t \in Tabs, NEW m \in ToTab, down' = [down EXCEPT ![t] = Append(@, m)]
    PROVE  /\ down' \in [Tabs -> Seq(ToTab)]
           /\ \A o \in Tabs : down'[o] = IF o = t THEN Append(down[t], m) ELSE down[o]
           /\ \A o \in Tabs : In(o)' = IF o = t THEN In(t) \cup {m} ELSE In(o)
<1>1. down[t] \in Seq(ToTab) /\ down \in [Tabs -> Seq(ToTab)]  BY DEF Wires
<1>2. \A o \in Tabs : down'[o] = IF o = t THEN Append(down[t], m) ELSE down[o]  BY <1>1
<1>3. Append(down[t], m) \in Seq(ToTab)  BY <1>1
<1>4. \A x : x \in Range(Append(down[t], m)) <=> x \in Range(down[t]) \cup {m}
  <2>1. DOMAIN down[t] = 1..Len(down[t]) /\ Len(down[t]) \in Nat  BY <1>1
  <2>2. DOMAIN Append(down[t], m) = 1..(Len(down[t]) + 1)  BY <1>1
  <2>3. \A i \in 1..Len(down[t]) : Append(down[t], m)[i] = down[t][i]  BY <1>1
  <2>4. Append(down[t], m)[Len(down[t]) + 1] = m  BY <1>1
  <2> QED BY <2>1, <2>2, <2>3, <2>4 DEF Range
<1>5. In(t)' = In(t) \cup {m}  BY <1>2, <1>4 DEF In
<1> QED BY <1>1, <1>2, <1>3, <1>5 DEF In

LEMMA HeardIs ==
    ASSUME Wires, NEW t \in Tabs, down[t] # <<>>, down' = [down EXCEPT ![t] = Tail(@)]
    PROVE  /\ down' \in [Tabs -> Seq(ToTab)] /\ Head(down[t]) \in ToTab
           /\ \A o \in Tabs : o # t => down'[o] = down[o] /\ In(o)' = In(o)
           /\ In(t) = In(t)' \cup {Head(down[t])}
<1>1. down[t] \in Seq(ToTab) /\ down \in [Tabs -> Seq(ToTab)]  BY DEF Wires
<1>2. \A o \in Tabs : down'[o] = IF o = t THEN Tail(down[t]) ELSE down[o]  BY <1>1
<1>3. Tail(down[t]) \in Seq(ToTab) /\ Head(down[t]) \in ToTab  BY <1>1
<1>4. \A x : x \in Range(down[t]) <=> x \in Range(Tail(down[t])) \cup {Head(down[t])}
  <2> DEFINE s == down[t]
  <2>1. DOMAIN s = 1..Len(s) /\ Len(s) \in Nat /\ Len(s) # 0 /\ Head(s) = s[1]  BY <1>1
  <2>2. DOMAIN Tail(s) = 1..(Len(s) - 1)  BY <1>1
  <2>3. \A i \in 1..(Len(s) - 1) : Tail(s)[i] = s[i + 1]  BY <1>1
  <2> HIDE DEF s
  <2>4. ASSUME NEW x, x \in Range(s) PROVE x \in Range(Tail(s)) \cup {Head(s)}
    <3>1. PICK i \in 1..Len(s) : x = s[i]  BY <2>1, <2>4 DEF Range
    <3>2. CASE i = 1  BY <2>1, <3>1, <3>2
    <3>3. CASE i # 1
      <4>1. i - 1 \in 1..(Len(s) - 1) /\ (i - 1) + 1 = i  BY <2>1, <3>3
      <4> QED BY <2>2, <2>3, <3>1, <4>1 DEF Range
    <3> QED BY <3>2, <3>3
  <2>5. ASSUME NEW x, x \in Range(Tail(s)) PROVE x \in Range(s)
    <3>1. PICK i \in 1..(Len(s) - 1) : x = s[i + 1]  BY <2>2, <2>3, <2>5 DEF Range
    <3>2. i + 1 \in 1..Len(s)  BY <2>1
    <3> QED BY <2>1, <3>1, <3>2 DEF Range
  <2>6. Head(s) \in Range(s)
    <3>1. 1 \in 1..Len(s)  BY <2>1
    <3> QED BY <2>1, <3>1 DEF Range
  <2> QED BY <2>4, <2>5, <2>6 DEF s
<1>5. In(t) = In(t)' \cup {Head(down[t])}  BY <1>2, <1>4 DEF In
<1> QED BY <1>1, <1>2, <1>3, <1>5 DEF In

LEMMA InIs == ASSUME Wires, NEW t \in Tabs
              PROVE  In(t) \subseteq ToTab /\ (down[t] = <<>> => In(t) = {})
BY DEF Wires, In, Range

LEMMA EndIs ==
    ASSUME Wires, Sets, NEW t \in Tabs, NEW kept \in SUBSET up[t], End(t, kept)
    PROVE  /\ live' = live \ {t} /\ stale' \subseteq stale \cup {t} /\ stale \subseteq stale'
           /\ t \in live => t \in stale'
           /\ up' \in [Tabs -> SUBSET ToObject] /\ down' \in [Tabs -> Seq(ToTab)]
           /\ \A o \in Tabs : /\ up'[o] = IF o = t THEN {m \in kept : m.type \notin Asks} ELSE up[o]
                              /\ down'[o] = IF o = t THEN <<>> ELSE down[o]
                              /\ In(o)' = IF o = t THEN {} ELSE In(o)
           /\ out' \subseteq out /\ \A b \in out : b \in out' <=> b[1] # t
<1>1. /\ live' = live \ {t} /\ stale' = IF t \in live THEN stale \cup {t} ELSE stale
      /\ up' = [up EXCEPT ![t] = {m \in kept : m.type \notin Asks}] /\ down' = [down EXCEPT ![t] = <<>>]
      /\ out' = {b \in out : b[1] # t}
    BY DEF End
<1>2. up \in [Tabs -> SUBSET ToObject] /\ down \in [Tabs -> Seq(ToTab)]  BY DEF Wires
<1>3. /\ up' \in [Tabs -> SUBSET ToObject]
      /\ \A o \in Tabs : up'[o] = IF o = t THEN {m \in kept : m.type \notin Asks} ELSE up[o]
    BY <1>1, <1>2
<1>4. down' \in [Tabs -> Seq(ToTab)] /\ \A o \in Tabs : down'[o] = IF o = t THEN <<>> ELSE down[o]
  <2>1. <<>> \in Seq(ToTab)  OBVIOUS
  <2> QED BY <1>1, <1>2, <2>1
<1>5. \A o \in Tabs : In(o)' = IF o = t THEN {} ELSE In(o)
  <2>1. Range(<<>>) = {}  BY DEF Range
  <2> QED BY <1>4, <2>1 DEF In
<1> QED BY <1>1, <1>3, <1>4, <1>5

-----------------------------------------------------------------------------
(* The field.  A dead connection carries no requests, replies or            *)
(* broadcasts.                                                              *)
Connected ==
    /\ live \subseteq open /\ enabled \subseteq open
    /\ \A t \in Tabs \ live : down[t] = <<>> /\ \A m \in up[t] : m.type \notin Asks
    /\ \A b \in out : b[1] \in live

(* A field shows the register, or the baseline.                             *)
Shows == \A t \in Tabs : shown[t] = IF reg[t] = 0 THEN base[t] ELSE reg[t]

LEMMA TextSyncTyped == ASSUME NEW t PROVE TextSync(t) \in ToObject
<1>1. (t \in blank') \in BOOLEAN  OBVIOUS
<1>2. [type |-> "text-sync", blank |-> t \in blank'] \in [type : {"text-sync"}, blank : BOOLEAN]  BY <1>1
<1> QED BY <1>2 DEF TextSync, ToObject

LEMMA ApplyIs ==
    ASSUME Numbers, NEW t \in Tabs, NEW s \in Stamps, Apply(t, s)
    PROVE  /\ reg' \in [Tabs -> Stamps] /\ shown' \in [Tabs -> Stamps]
           /\ reg'[t] = (IF s > reg[t] THEN s ELSE reg[t]) /\ shown'[t] = (IF s > reg[t] THEN s ELSE shown[t])
           /\ \A o \in Tabs : o # t => reg'[o] = reg[o] /\ shown'[o] = shown[o]
BY DEF Numbers, Apply

LEMMA StraysIs ==
    ASSUME astray \subseteq Tabs, NEW t \in Tabs, NEW c, Strays(t, c) \/ Finds(t, c)
    PROVE  astray' \subseteq Tabs /\ \A o \in Tabs : o # t => (o \in astray' <=> o \in astray)
BY DEF Strays, Finds

LEMMA TypedOpen ==
    ASSUME Typed, NEW t \in Tabs,
           Load(t) \/ Heartbeat(t) \/ Refresh(t) \/ Leave(t) \/ Cut(t) \/ Connect(t) \/ Gone(t) \/ Store(t)
    PROVE  Typed'
<1> USE DEF Typed
<1>1. CASE Load(t)
  <2> USE DEF Load, object, copy, wire, counts
  <2>1. Numbers'  BY <1>1, StampsAre DEF Numbers
  <2>2. Sets'
    <3>1. astray' \subseteq Tabs  BY <1>1, StraysIs DEF Sets
    <3> QED BY <1>1, <3>1 DEF Sets
  <2>3. Texts'  BY <1>1, BlankDocs DEF Texts
  <2>4. Wires'  BY <1>1 DEF Wires
  <2> QED BY <2>1, <2>2, <2>3, <2>4
<1>2. CASE Heartbeat(t)
  <2>1. presence' \subseteq Users  BY <1>2, PageSyncAssumption DEF Heartbeat, PageSyncAssumption, Sets
  <2> QED BY <1>2, <2>1 DEF Heartbeat, form, copy, wire, counts, Numbers, Sets, Texts, Wires
<1>3. CASE Refresh(t) \/ Leave(t) \/ Cut(t)
  <2>1. /\ UNCHANGED <<rich, stored, saving, overlay, text, leaving, form, copy, used, pieces>>
        /\ open' \subseteq open /\ presence' \subseteq presence
        /\ UNCHANGED <<live, stale, up, down, out>> \/ \E kept \in SUBSET up[t] : End(t, kept)
    <3>1. CASE Refresh(t)  BY <3>1 DEF Refresh, wire, counts
    <3>2. CASE Leave(t)  BY <3>2 DEF Leave, counts
    <3>3. CASE Cut(t)  BY <3>3 DEF Cut
    <3> QED BY <1>3, <3>1, <3>2, <3>3
  <2>2. live' \subseteq live /\ stale' \subseteq Tabs /\ Wires'
    <3>1. CASE UNCHANGED <<live, stale, up, down, out>>  BY <3>1 DEF Sets, Wires
    <3>2. CASE \E kept \in SUBSET up[t] : End(t, kept)
      <4>1. PICK kept \in SUBSET up[t] : End(t, kept)  BY <3>2
      <4>2. /\ live' \subseteq live /\ stale' \subseteq stale \cup {t}
            /\ up' \in [Tabs -> SUBSET ToObject] /\ down' \in [Tabs -> Seq(ToTab)] /\ out' \subseteq out
        BY <4>1, EndIs
      <4> QED BY <4>2 DEF Sets, Wires
    <3> QED BY <2>1, <3>1, <3>2
  <2>3. Numbers'  BY <2>1 DEF Numbers, form
  <2>4. Sets'  BY <2>1, <2>2 DEF Sets, copy, form
  <2>5. Texts'  BY <2>1 DEF Texts, copy
  <2> QED BY <2>2, <2>3, <2>4, <2>5
<1>4. CASE Connect(t)
  <2> DEFINE ms == {Sync} \cup (IF rich THEN {TextSync(t)} ELSE {})
  <2>1. ms \in SUBSET ToObject /\ Send(t, ms)
      BY <1>4, MessagesTyped, TextSyncTyped DEF Connect
  <2> HIDE DEF ms
  <2>2. up' \in [Tabs -> SUBSET ToObject]  BY <2>1, SendIs
  <2>3. Wires'  BY <1>4, <2>2 DEF Wires, Connect
  <2>4. Numbers' /\ Sets' /\ Texts'  BY <1>4 DEF Connect, object, form, copy, counts, Numbers, Sets, Texts
  <2> QED BY <2>3, <2>4
<1>5. CASE Gone(t)
  <2>1. Sets'  BY <1>5, PageSyncAssumption DEF Gone, PageSyncAssumption, Sets, copy, form
  <2> QED BY <1>5, <2>1 DEF Gone, form, copy, wire, counts, Numbers, Texts, Wires
<1>6. CASE Store(t)
  BY <1>6 DEF Store, object, form, copy, wire, Numbers, Sets, Texts, Wires
<1> QED BY <1>1, <1>2, <1>3, <1>4, <1>5, <1>6

LEMMA TypedTab ==
    ASSUME Typed, NEW t \in Tabs, Edit(t) \/ Type(t) \/ HearSnapshot(t) \/ HearTextSync(t)
    PROVE  Typed'
<1> USE DEF Typed
<1>1. CASE Edit(t)
  <2>1. PICK s \in (1..MaxStamp) \ used :
           /\ used' = used \cup {s}
           /\ reg' = [reg EXCEPT ![t] = s] /\ shown' = [shown EXCEPT ![t] = s]
           /\ Send(t, IF t \in live THEN {Op(s)} ELSE {})
           /\ IF s > Newest(overlay) THEN Finds(t, TRUE) ELSE Strays(t, s < reg[t])
      BY <1>1 DEF Edit
  <2> DEFINE ms == IF t \in live THEN {Op(s)} ELSE {}
  <2>2. ms \in SUBSET ToObject /\ s \in Stamps  BY StampsAre, MessagesTyped
  <2> HIDE DEF ms
  <2>3. up' \in [Tabs -> SUBSET ToObject]  BY <2>1, <2>2, SendIs DEF ms
  <2>4. Wires'  BY <1>1, <2>3 DEF Wires, Edit
  <2>5. Numbers'  BY <1>1, <2>1, <2>2 DEF Edit, Numbers, object
  <2>6. astray' \subseteq Tabs  BY <2>1, StraysIs DEF Sets
  <2>7. Sets' /\ Texts'  BY <1>1, <2>6 DEF Edit, object, copy, Sets, Texts
  <2> QED BY <2>4, <2>5, <2>7
<1>2. CASE Type(t)
  <2>1. CASE ~synced[t]
    BY <1>2, <2>1 DEF Type, object, form, Numbers, Sets, Texts, Wires
  <2>2. CASE synced[t]
    <3>1. /\ pieces' = pieces + 1
          /\ UNCHANGED <<rich, stored, saving, object, open, enabled, live, form, blank, down, out, used, synced, typed>>
      BY <1>2, <2>2 DEF Type
    <3>2. PICK gone \in {{}} \cup {{p} : p \in doc[t].ins \ doc[t].del} :
            LET change == [ins |-> {Piece(t)}, del |-> gone]
            IN  /\ doc' = [doc EXCEPT ![t] = Merge(@, change)]
                /\ IF t \in live THEN Send(t, {Update(change)}) /\ UNCHANGED dirty
                                 ELSE dirty' = [dirty EXCEPT ![t] = TRUE] /\ UNCHANGED up
      BY <1>2, <2>2 DEF Type
    <3> DEFINE change == [ins |-> {Piece(t)}, del |-> gone]
    <3>3. doc[t] \in Docs /\ doc[t].ins \subseteq Marks  BY DEF Texts, Docs
    <3>4. Piece(t) \in Marks  BY DEF Piece, Marks, Numbers
    <3>5. change \in Docs  BY <3>2, <3>3, <3>4 DEF Docs
    <3>6. /\ doc' = [doc EXCEPT ![t] = Merge(@, change)]
          /\ IF t \in live THEN Send(t, {Update(change)}) /\ UNCHANGED dirty
                           ELSE dirty' = [dirty EXCEPT ![t] = TRUE] /\ UNCHANGED up
      BY <3>2
    <3> HIDE DEF change
    <3>7. Merge(doc[t], change) \in Docs  BY <3>3, <3>5, MergeIs
    <3>8. Texts'  BY <3>1, <3>6, <3>7 DEF Texts, object
    <3>9. up' \in [Tabs -> SUBSET ToObject]
      <4>1. {Update(change)} \in SUBSET ToObject  BY <3>5, MessagesTyped
      <4>2. CASE t \in live  BY <4>1, <4>2, <3>6, SendIs
      <4>3. CASE t \notin live  BY <4>3, <3>6 DEF Wires
      <4> QED BY <4>2, <4>3
    <3>10. Wires'  BY <3>1, <3>9 DEF Wires
    <3>11. Numbers' /\ Sets'  BY <3>1 DEF Numbers, Sets, object, form
    <3> QED BY <3>8, <3>10, <3>11
  <2> QED BY <2>1, <2>2
<1>3. CASE HearSnapshot(t)
  <2> DEFINE ops == Head(down[t]).ops
             n == Max({ops[u] : u \in Users \ {Owner[t]}} \cup {0})
             ms == Lacking(t, ops)
  <2>1. /\ down[t] # <<>> /\ Head(down[t]).type = "snapshot" /\ down' = [down EXCEPT ![t] = Tail(@)]
        /\ Apply(t, n) /\ Send(t, ms)
        /\ UNCHANGED <<rich, stored, saving, object, open, enabled, live, base, astray, copy, out, counts>>
    BY <1>3 DEF HearSnapshot
  <2>2. down' \in [Tabs -> Seq(ToTab)] /\ ops \in [Users -> Stamps]
    <3>1. down' \in [Tabs -> Seq(ToTab)] /\ Head(down[t]) \in ToTab  BY <2>1, HeardIs
    <3> QED BY <2>1, <3>1 DEF ToTab
  <2>4. n \in Stamps
    <3> HIDE DEF ops
    <3> QED BY <2>2, NewestOther
  <2> HIDE DEF n
  <2>5. reg' \in [Tabs -> Stamps] /\ shown' \in [Tabs -> Stamps]  BY <2>1, <2>4, ApplyIs
  <2>6. ms \in SUBSET ToObject  BY <2>5, MessagesTyped DEF Lacking
  <2> HIDE DEF ms
  <2>7. up' \in [Tabs -> SUBSET ToObject]  BY <2>1, <2>6, SendIs
  <2>8. Wires'  BY <2>1, <2>2, <2>7 DEF Wires
  <2>9. Numbers' /\ Sets' /\ Texts'  BY <2>1, <2>5 DEF Numbers, Sets, Texts, object, copy, counts
  <2> QED BY <2>8, <2>9
<1>4. CASE HearTextSync(t)
  <2> DEFINE d == Head(down[t]).doc
             merged == Merge(doc[t], d)
             first == ~synced[t] /\ typed[t]
             change == [ins |-> {Piece(t)}, del |-> {p \in merged.ins \ merged.del : p[1] # "base"}]
             now == IF first THEN Merge(merged, change) ELSE merged
             ms == (IF first THEN {Update(change)} ELSE {}) \cup SentAgain(t, now)
  <2>1. /\ down[t] # <<>> /\ Head(down[t]).type = "text-sync" /\ down' = [down EXCEPT ![t] = Tail(@)]
        /\ pieces' = (IF first THEN pieces + 1 ELSE pieces)
        /\ doc' = [doc EXCEPT ![t] = now] /\ synced' = [synced EXCEPT ![t] = TRUE]
        /\ Send(t, ms)
        /\ dirty' = [dirty EXCEPT ![t] = FALSE] /\ typed' = [typed EXCEPT ![t] = FALSE]
        /\ UNCHANGED <<rich, stored, saving, object, open, enabled, live, form, blank, out, used, turns>>
    BY <1>4 DEF HearTextSync
  <2>2. down' \in [Tabs -> Seq(ToTab)] /\ d \in Docs
    <3>1. down' \in [Tabs -> Seq(ToTab)] /\ Head(down[t]) \in ToTab  BY <2>1, HeardIs
    <3> QED BY <2>1, <3>1 DEF ToTab
  <2>3. merged \in Docs
    <3>1. doc[t] \in Docs  BY DEF Texts
    <3> HIDE DEF d
    <3> QED BY <2>2, <3>1, MergeIs
  <2> HIDE DEF d, merged
  <2>4. change \in Docs
    <3>1. Piece(t) \in Marks  BY DEF Piece, Marks, Numbers
    <3>2. merged.ins \subseteq Marks  BY <2>3 DEF Docs
    <3> QED BY <3>1, <3>2 DEF Docs
  <2> HIDE DEF change
  <2>5. now \in Docs  BY <2>3, <2>4, MergeIs
  <2> HIDE DEF now
  <2>6. ms \in SUBSET ToObject  BY <2>4, <2>5, MessagesTyped DEF SentAgain
  <2> HIDE DEF ms
  <2>7. up' \in [Tabs -> SUBSET ToObject]  BY <2>1, <2>6, SendIs
  <2>8. Wires'  BY <2>1, <2>2, <2>7 DEF Wires
  <2>9. Texts'  BY <2>1, <2>5 DEF Texts, object
  <2>10. pieces' \in Nat  BY <2>1 DEF Numbers
  <2> HIDE DEF first
  <2>11. Numbers'  BY <2>1, <2>10 DEF Numbers, object, form
  <2>12. Sets'  BY <2>1 DEF Sets, object, form
  <2> QED BY <2>8, <2>9, <2>11, <2>12
<1> QED BY <1>1, <1>2, <1>3, <1>4

(* What the others are told.                                                *)
LEMMA OthersIs ==
    ASSUME Wires, Sets, NEW t \in Tabs, NEW m \in ToTabs, ToOthers(t, m)
    PROVE  out' \subseteq Tabs \X ToTabs
BY DEF ToOthers, Wires, Sets

LEMMA AllIs ==
    ASSUME Wires, Sets, NEW m \in ToTabs, ToAll(m)
    PROVE  out' \subseteq Tabs \X ToTabs
BY DEF ToAll, Wires, Sets

LEMMA TypedAnswer ==
    ASSUME Typed, NEW t \in Tabs,
           AnswerSync(t) \/ HandleOp(t) \/ AnswerTextSync(t) \/ HandleUpdate(t)
    PROVE  Typed'
<1> USE DEF Typed
<1>1. CASE AnswerSync(t)
  <2> DEFINE r == [type |-> "snapshot", ops |-> overlay]
  <2>1. /\ up' = [up EXCEPT ![t] = @ \ {Sync}] /\ down' = [down EXCEPT ![t] = Append(@, r)]
        /\ UNCHANGED <<rich, stored, saving, object, open, enabled, live, form, copy, out, counts>>
    BY <1>1 DEF AnswerSync, Reply
  <2>2. r \in ToTab  BY DEF ToTab, Numbers
  <2> HIDE DEF r
  <2>3. up' \in [Tabs -> SUBSET ToObject] /\ down' \in [Tabs -> Seq(ToTab)]  BY <2>1, <2>2, HandledIs, ReplyIs
  <2>4. Wires'  BY <2>1, <2>3 DEF Wires
  <2>5. Numbers' /\ Sets' /\ Texts'  BY <2>1 DEF Numbers, Sets, Texts, object, form, copy, counts
  <2> QED BY <2>4, <2>5
<1>2. CASE HandleOp(t)
  <2> DEFINE c(m) == [type |-> "op", edit |-> m.edit, user |-> Owner[t]]
  <2>1. PICK m \in up[t] : /\ m.type = "op" /\ up' = [up EXCEPT ![t] = @ \ {m}]
                           /\ IF m.edit > overlay[Owner[t]]
                              THEN /\ overlay' = [overlay EXCEPT ![Owner[t]] = m.edit] /\ ToOthers(t, c(m))
                                   /\ Strays(t, m.edit > reg[t])
                              ELSE UNCHANGED <<overlay, out, astray>>
    BY <1>2 DEF HandleOp
  <2>2. UNCHANGED <<rich, stored, saving, presence, text, stale, leaving, open, enabled, live, reg, shown, base, copy,
                    down, counts>>
    BY <1>2 DEF HandleOp
  <2>3. m.edit \in Stamps  BY <2>1 DEF Wires, ToObject
  <2>4. c(m) \in ToTabs  BY <2>3, PageSyncAssumption DEF ToTabs, PageSyncAssumption
  <2> HIDE DEF c
  <2>5. up' \in [Tabs -> SUBSET ToObject]  BY <2>1, HandledIs
  <2>6. out' \subseteq Tabs \X ToTabs
    <3>1. CASE m.edit > overlay[Owner[t]]  BY <2>1, <2>4, <3>1, OthersIs
    <3>2. CASE ~(m.edit > overlay[Owner[t]])  BY <2>1, <3>2 DEF Wires
    <3> QED BY <3>1, <3>2
  <2>7. overlay' \in [Users -> Stamps]  BY <2>1, <2>3 DEF Numbers
  <2>8. Wires'  BY <2>2, <2>5, <2>6 DEF Wires
  <2>9. astray' \subseteq Tabs  BY <2>1, StraysIs DEF Sets
  <2>10. Numbers' /\ Sets' /\ Texts'  BY <2>2, <2>7, <2>9 DEF Numbers, Sets, Texts, copy, counts
  <2> QED BY <2>8, <2>10
<1>3. CASE AnswerTextSync(t)
  <2>1. PICK m \in up[t] : /\ m.type = "text-sync" /\ up' = [up EXCEPT ![t] = @ \ {m}]
                           /\ text' = Begun(text, Baseline(m))
                           /\ pieces' = IF text = NoText THEN pieces + 1 ELSE pieces
    BY <1>3 DEF AnswerTextSync
  <2>2. /\ down' = [down EXCEPT ![t] = Append(@, [type |-> "text-sync", doc |-> text'])]
        /\ UNCHANGED <<rich, stored, saving, presence, overlay, stale, leaving, open, enabled, live, form, copy, out, used, turns>>
    BY <1>3 DEF AnswerTextSync, Reply
  <2>3. Baseline(m) \in Docs  BY BlankDocs DEF Baseline, Docs, Marks, Numbers
  <2>4. text' \in Docs  BY <2>1, <2>3 DEF Begun, Texts
  <2>5. [type |-> "text-sync", doc |-> text'] \in ToTab  BY <2>4 DEF ToTab
  <2>6. up' \in [Tabs -> SUBSET ToObject] /\ down' \in [Tabs -> Seq(ToTab)]
      BY <2>1, <2>2, <2>5, HandledIs, ReplyIs
  <2>7. pieces' \in Nat  BY <2>1 DEF Numbers
  <2>8. Wires'  BY <2>2, <2>6 DEF Wires
  <2>9. Numbers' /\ Sets' /\ Texts'  BY <2>2, <2>4, <2>7 DEF Numbers, Sets, Texts, form, copy
  <2> QED BY <2>8, <2>9
<1>4. CASE HandleUpdate(t)
  <2>1. PICK m \in up[t] : /\ m.type = "text-update" /\ up' = [up EXCEPT ![t] = @ \ {m}]
                           /\ text' = Merge(Begun(text, Empty), m.change) /\ ToOthers(t, m)
    BY <1>4 DEF HandleUpdate
  <2>2. UNCHANGED <<rich, stored, saving, presence, overlay, stale, leaving, open, enabled, live, form, copy, down, counts>>
    BY <1>4 DEF HandleUpdate
  <2>3. m \in ToTabs /\ m.change \in Docs  BY <2>1 DEF Wires, ToObject, ToTabs
  <2>4. Begun(text, Empty) \in Docs  BY BlankDocs DEF Begun, Texts
  <2>5. text' \in Docs  BY <2>1, <2>3, <2>4, MergeIs
  <2>6. up' \in [Tabs -> SUBSET ToObject] /\ out' \subseteq Tabs \X ToTabs
      BY <2>1, <2>3, HandledIs, OthersIs
  <2>7. Wires'  BY <2>2, <2>6 DEF Wires
  <2>8. Numbers' /\ Sets' /\ Texts'  BY <2>2, <2>5 DEF Numbers, Sets, Texts, form, copy, counts
  <2> QED BY <2>7, <2>8
<1> QED BY <1>1, <1>2, <1>3, <1>4

LEMMA TypedHear ==
    ASSUME Typed, NEW t \in Tabs, NEW m,
           HearOp(t, m) \/ HearUpdate(t, m) \/ HearReset(t, m) \/ HearSaved(t, m)
    PROVE  Typed'
<1> USE DEF Typed
<1>1. m \in ToTabs /\ out' \subseteq Tabs \X ToTabs
    BY DEF HearOp, HearUpdate, HearReset, HearSaved, Hear, Wires
<1>2. CASE HearOp(t, m)
  <2>1. m.edit \in Stamps  BY <1>1, <1>2 DEF HearOp, Hear, ToTabs
  <2>2. reg' \in [Tabs -> Stamps] /\ shown' \in [Tabs -> Stamps] /\ astray' \subseteq Tabs
    <3>1. CASE m.user = Owner[t]  BY <1>2, <3>1 DEF HearOp, Numbers, Sets
    <3>2. CASE m.user # Owner[t]
      <4>1. PICK c : Apply(t, m.edit) /\ Strays(t, c)  BY <1>2, <3>2 DEF HearOp
      <4> QED BY <2>1, <4>1, ApplyIs, StraysIs DEF Sets
    <3> QED BY <3>1, <3>2
  <2> QED BY <1>1, <1>2, <2>2 DEF HearOp, object, copy, counts, Numbers, Sets, Texts, Wires
<1>3. CASE HearUpdate(t, m)
  <2>1. m.change \in Docs /\ doc[t] \in Docs  BY <1>1, <1>3 DEF HearUpdate, Hear, ToTabs, Texts
  <2>2. Merge(doc[t], m.change) \in Docs  BY <2>1, MergeIs
  <2>3. Texts'  BY <1>3, <2>2 DEF HearUpdate, object, Texts
  <2> QED BY <1>1, <1>3, <2>3 DEF HearUpdate, object, form, counts, Numbers, Sets, Wires
<1>4. CASE HearReset(t, m)
  <2>1. m.edit \in Stamps  BY <1>1, <1>4 DEF HearReset, Hear, ToTabs
  <2>2. astray' \subseteq Tabs  BY <1>4, StraysIs DEF HearReset, Sets
  <2>3. Numbers'  BY <1>4, <2>1 DEF HearReset, object, counts, Numbers
  <2> QED BY <1>1, <1>4, <2>2, <2>3 DEF HearReset, object, copy, counts, Sets, Texts, Wires
<1>5. CASE HearSaved(t, m)
  <2> DEFINE ms == IF rich THEN {TextSync(t)} ELSE {}
  <2>1. ms \in SUBSET ToObject /\ Send(t, ms)  BY <1>5, TextSyncTyped DEF HearSaved
  <2> HIDE DEF ms
  <2>2. up' \in [Tabs -> SUBSET ToObject]  BY <2>1, SendIs
  <2>3. Wires'  BY <1>1, <1>5, <2>2 DEF HearSaved, Wires
  <2>4. Numbers'  BY <1>5, StampsAre DEF HearSaved, object, counts, Numbers
  <2>5. astray' \subseteq Tabs  BY <1>5, StraysIs DEF HearSaved, Sets
  <2>6. Sets'  BY <1>5, <2>5 DEF HearSaved, object, Sets
  <2>7. Texts'  BY <1>5, BlankDocs DEF HearSaved, object, Texts
  <2> QED BY <2>3, <2>4, <2>6, <2>7
<1> QED BY <1>2, <1>3, <1>4, <1>5

LEMMA TypedObject ==
    ASSUME Typed, (\E u \in Users : Drop(u) \/ Forget(u)) \/ Saved
    PROVE  Typed'
<1> USE DEF Typed
<1>1. ASSUME NEW u \in Users, Drop(u) PROVE Typed'
  <2>1. overlay' \in [Users -> Stamps] /\ out' \subseteq Tabs \X ToTabs
    <3>1. CASE overlay[u] = 0  BY <1>1, <3>1 DEF Drop, Numbers, Wires
    <3>2. CASE overlay[u] # 0
      <4> DEFINE m == [type |-> "reset", edit |-> Newest(overlay'), newest |-> Newest(overlay')]
      <4>1. overlay' = [overlay EXCEPT ![u] = 0] /\ ToAll(m)  BY <1>1, <3>2 DEF Drop, FallBack
      <4>2. overlay' \in [Users -> Stamps]  BY <4>1, StampsAre DEF Numbers
      <4>3. m \in ToTabs  BY <4>2, NewestIs DEF ToTabs
      <4> HIDE DEF m
      <4> QED BY <4>1, <4>2, <4>3, AllIs
    <3> QED BY <3>1, <3>2
  <2> QED BY <1>1, <2>1 DEF Drop, form, copy, counts, Numbers, Sets, Texts, Wires
<1>2. ASSUME NEW u \in Users, Forget(u) PROVE Typed'
  BY <1>2 DEF Forget, form, copy, wire, counts, Numbers, Sets, Texts, Wires
<1>3. ASSUME Saved PROVE Typed'
  <2>1. [type |-> "saved"] \in ToTabs  BY DEF ToTabs
  <2>2. out' \subseteq Tabs \X ToTabs  BY <1>3, <2>1, AllIs DEF Saved
  <2>3. Wires'  BY <1>3, <2>2 DEF Saved, Wires
  <2>4. Numbers' /\ Sets' /\ Texts'
      BY <1>3, BlankDocs, StampsAre DEF Saved, form, copy, counts, Numbers, Sets, Texts
  <2> QED BY <2>3, <2>4
<1> QED BY <1>1, <1>2, <1>3

(* A register that is newer than all the object has is on its way there, or *)
(* will be once the object has answered.  A tab that is to hear of a        *)
(* departure or a save will take what it says, or be astray.                *)
Told(t) == \E b \in out : b[1] = t /\ b[2].type \in {"reset", "saved"}
Announced(t) == \E m \in up[t] : m.type = "op" /\ m.edit >= reg[t]
Asking(t) == Sync \in up[t] \/ \E m \in In(t) : m.type = "snapshot"
Above == \A t \in live \ astray : reg[t] <= Newest(overlay) \/ Announced(t) \/ Asking(t) \/ Told(t)

(* Another user's edit that a tab has not applied is on its way to it.      *)
Answered(t, u) == \E m \in In(t) : m.type = "snapshot" /\ m.ops[u] >= overlay[u]
Passed(t, u) == \E b \in out : b[1] = t /\ b[2].type = "op" /\ b[2].user = u /\ b[2].edit >= overlay[u]
Reached ==
    \A t \in live \ astray, u \in Users : Owner[t] # u =>
        overlay[u] <= reg[t] \/ Sync \in up[t] \/ Answered(t, u) \/ Passed(t, u) \/ Told(t)

(* A snapshot under way holds nothing the object has not, unless the tab is *)
(* to hear of a departure or a save after it.                               *)
Fresh ==
    \A t \in Tabs : \A m \in In(t) :
        m.type = "snapshot" => Told(t) \/ \A u \in Users : m.ops[u] <= overlay[u]

(* The object has no edit of a user's only tab that is newer than its       *)
(* register.                                                                *)
Alone == \A t \in open \ astray : TabsOf(Owner[t]) = {t} => overlay[Owner[t]] <= reg[t]

(* A departure is told with what is newest then.                            *)
Resets == \A b \in out : b[2].type = "reset" => b[2].edit = b[2].newest

FieldInv == Connected /\ Shows /\ Resets /\ Above /\ Reached /\ Fresh /\ Alone

LEMMA FieldInit == SyncInit => FieldInv
<1> SUFFICES ASSUME SyncInit PROVE FieldInv  OBVIOUS
<1> USE DEF SyncInit
<1>1. \A t \in Tabs : In(t) = {}  BY DEF In, Range
<1>2. Connected /\ Shows /\ Resets  BY DEF Connected, Shows, Resets
<1>3. Above /\ Reached  BY DEF Above, Reached
<1>4. Fresh  BY <1>1 DEF Fresh
<1>5. Alone  BY DEF Alone
<1> QED BY <1>2, <1>3, <1>4, <1>5 DEF FieldInv

(* What the steps below leave of the state.                                 *)
LEMMA FieldTypes ==
    ASSUME Typed
    PROVE  /\ live \subseteq Tabs /\ open \subseteq Tabs /\ astray \subseteq Tabs
           /\ overlay \in [Users -> Stamps] /\ reg \in [Tabs -> Stamps]
           /\ \A t \in Tabs : reg[t] \in Nat /\ Owner[t] \in Users
           /\ \A u \in Users : overlay[u] \in Nat /\ overlay[u] <= Newest(overlay)
           /\ Newest(overlay) \in Nat
           /\ \A t \in Tabs : up[t] \subseteq ToObject /\ In(t) \subseteq ToTab
<1>1. overlay \in [Users -> Stamps] /\ reg \in [Tabs -> Stamps] /\ Owner \in [Tabs -> Users] /\ Wires
    BY PageSyncAssumption DEF Typed, Numbers, PageSyncAssumption
<1>2. \A t \in Tabs : up[t] \subseteq ToObject /\ In(t) \subseteq ToTab  BY <1>1, InIs DEF Wires
<1>3. Newest(overlay) \in Nat /\ \A u \in Users : overlay[u] <= Newest(overlay)  BY <1>1, NewestIs
<1> QED BY <1>1, <1>2, <1>3, StampsAre DEF Typed, Sets

(* A step that leaves the field alone: it moves text, or nothing.           *)
LEMMA FieldAside ==
    ASSUME Typed, Typed', FieldInv,
           UNCHANGED <<open, live, overlay, reg, shown, base, astray>>, enabled' \subseteq open,
           \A o \in Tabs : \A m \in ToObject : m.type \in {"op", "sync"} => (m \in up'[o] <=> m \in up[o]),
           \A o \in Tabs : \A m \in ToTab : m.type = "snapshot" => (m \in In(o)' <=> m \in In(o)),
           \A b \in out' : b \in out \/ (b[1] \in live /\ b[2].type = "text-update"),
           \A b \in out : b \in out' \/ b[2].type = "text-update",
           \A o \in Tabs \ live : down'[o] = <<>> /\ \A m \in up'[o] : m.type \notin Asks
    PROVE  FieldInv'
<1> USE DEF FieldInv
<1>1. \A o \in Tabs : /\ up'[o] \subseteq ToObject /\ up[o] \subseteq ToObject
                      /\ In(o)' \subseteq ToTab /\ In(o) \subseteq ToTab
    <2>1. Wires /\ Wires'  BY DEF Typed
    <2>2. \A o \in Tabs : In(o)' \subseteq ToTab  BY <2>1 DEF Wires, In, Range
    <2> QED BY <2>1, <2>2, InIs DEF Wires
<1>2. \A o \in Tabs : Told(o)' <=> Told(o)  BY DEF Told
<1>3. \A o \in Tabs : Sync \in up'[o] <=> Sync \in up[o]  BY MessagesTyped DEF Sync
<1>4. live \subseteq Tabs  BY FieldTypes
<1>5. Connected' /\ Shows' /\ Resets'  BY DEF Connected, Shows, Resets
<1>6. Above'
    <2>1. \A o \in Tabs : (Announced(o) => Announced(o)') /\ (Asking(o) => Asking(o)')
        BY <1>1, <1>3 DEF Announced, Asking
    <2> QED BY <1>2, <1>4, <2>1 DEF Above
<1>7. Reached'
    <2>1. \A o \in Tabs, u \in Users : (Answered(o, u) => Answered(o, u)') /\ (Passed(o, u) => Passed(o, u)')
        BY <1>1 DEF Answered, Passed
    <2> QED BY <1>2, <1>3, <1>4, <2>1 DEF Reached
<1>8. Fresh'  BY <1>1, <1>2 DEF Fresh
<1>9. Alone'  BY DEF Alone, TabsOf
<1> QED BY <1>5, <1>6, <1>7, <1>8, <1>9

LEMMA FieldLoad ==
    ASSUME Typed, FieldInv, NEW t \in Tabs, Load(t)
    PROVE  FieldInv'
<1> USE DEF FieldInv
<1>1. /\ t \notin open /\ open' = open \cup {t}
      /\ reg' = [reg EXCEPT ![t] = 0] /\ shown' = [shown EXCEPT ![t] = stored] /\ base' = [base EXCEPT ![t] = stored]
      /\ Finds(t, overlay[Owner[t]] = 0)
      /\ UNCHANGED <<overlay, enabled, live, up, down, out>>
    BY DEF Load, object, wire
<1>2. /\ reg'[t] = 0 /\ shown'[t] = stored /\ base'[t] = stored
      /\ \A o \in Tabs : o # t => reg'[o] = reg[o] /\ shown'[o] = shown[o] /\ base'[o] = base[o]
    BY <1>1 DEF Typed, Numbers
<1>3. /\ \A o \in Tabs : o # t => (o \in astray' <=> o \in astray)
      /\ t \notin astray' => overlay[Owner[t]] = 0
    BY <1>1, FieldTypes DEF Finds
<1>4. \A o \in Tabs : In(o)' = In(o) /\ (Told(o)' <=> Told(o))  BY <1>1 DEF In, Told
<1>5. t \notin live /\ live \subseteq Tabs /\ open \subseteq Tabs  BY <1>1, FieldTypes DEF Connected
<1>6. Connected' /\ Shows' /\ Resets'  BY <1>1, <1>2 DEF Connected, Shows, Resets
<1>7. Above'  BY <1>1, <1>2, <1>3, <1>4, <1>5 DEF Above, Announced, Asking, Newest
<1>8. Reached'  BY <1>1, <1>2, <1>3, <1>4, <1>5 DEF Reached, Answered, Passed
<1>9. Fresh'  BY <1>1, <1>4 DEF Fresh
<1>10. Alone'  BY <1>1, <1>2, <1>3, <1>5 DEF Alone, TabsOf
<1> QED BY <1>6, <1>7, <1>8, <1>9, <1>10

LEMMA FieldEnd ==
    ASSUME Typed, FieldInv, NEW t \in Tabs, NEW kept \in SUBSET up[t], End(t, kept),
           UNCHANGED <<overlay, reg, shown, base, astray>>,
           open' \subseteq open, enabled' \subseteq open', live \ {t} \subseteq open'
    PROVE  FieldInv'
<1> USE DEF FieldInv
<1>1. /\ live' = live \ {t}
      /\ \A o \in Tabs : o # t => up'[o] = up[o] /\ down'[o] = down[o] /\ In(o)' = In(o)
      /\ \A m \in up'[t] : m.type \notin Asks
      /\ down'[t] = <<>> /\ In(t)' = {}
      /\ out' \subseteq out /\ \A b \in out : b \in out' <=> b[1] # t
  <2>1. Wires /\ Sets  BY DEF Typed
  <2>2. /\ live' = live \ {t}
        /\ \A o \in Tabs : /\ up'[o] = IF o = t THEN {m \in kept : m.type \notin Asks} ELSE up[o]
                           /\ down'[o] = IF o = t THEN <<>> ELSE down[o]
                           /\ In(o)' = IF o = t THEN {} ELSE In(o)
        /\ out' \subseteq out /\ \A b \in out : b \in out' <=> b[1] # t
    BY <2>1, EndIs
  <2> QED BY <2>2
<1>2. live \subseteq Tabs  BY FieldTypes
<1>3. \A o \in Tabs : o # t => (Told(o)' <=> Told(o))  BY <1>1 DEF Told
<1>4. Connected' /\ Shows' /\ Resets'  BY <1>1 DEF Connected, Shows, Resets
<1>5. Above'
  <2>1. \A o \in live' : o # t /\ (Announced(o) => Announced(o)') /\ (Asking(o) => Asking(o)')
      BY <1>1, <1>2 DEF Announced, Asking
  <2> QED BY <1>1, <1>2, <1>3, <2>1 DEF Above
<1>6. Reached'
  <2>1. \A o \in live', u \in Users : /\ (Sync \in up[o] => Sync \in up'[o]) /\ (Answered(o, u) => Answered(o, u)')
                                      /\ (Passed(o, u) => Passed(o, u)')
      BY <1>1, <1>2 DEF Answered, Passed
  <2> QED BY <1>1, <1>2, <1>3, <2>1 DEF Reached
<1>7. Fresh'  BY <1>1, <1>3 DEF Fresh
<1>8. Alone'  BY DEF Alone, TabsOf
<1> QED BY <1>4, <1>5, <1>6, <1>7, <1>8

LEMMA FieldConnect ==
    ASSUME Typed, FieldInv, NEW t \in Tabs, Connect(t)
    PROVE  FieldInv'
<1> USE DEF FieldInv
<1> DEFINE ms == {Sync} \cup (IF rich THEN {TextSync(t)} ELSE {})
<1>1. /\ t \in enabled \ live /\ live' = live \cup {t} /\ Send(t, ms)
      /\ UNCHANGED <<overlay, open, enabled, reg, shown, base, astray, down, out>>
    BY DEF Connect, object, form
<1>2. \A o \in Tabs : up'[o] = IF o = t THEN up[t] \cup ms ELSE up[o]
  <2>1. ms \in SUBSET ToObject /\ Wires  BY MessagesTyped, TextSyncTyped DEF Typed
  <2> HIDE DEF ms
  <2> QED BY <1>1, <2>1, SendIs
<1>3. Sync \in ms  OBVIOUS
<1> HIDE DEF ms
<1>4. \A o \in Tabs : In(o)' = In(o) /\ (Told(o)' <=> Told(o))  BY <1>1 DEF In, Told
<1>5. live \subseteq Tabs  BY FieldTypes
<1>6. Connected' /\ Shows' /\ Resets'  BY <1>1, <1>2 DEF Connected, Shows, Resets
<1>7. Above'
  <2>1. \A o \in live : (Announced(o) => Announced(o)') /\ (Asking(o) => Asking(o)')
      BY <1>1, <1>2, <1>4, <1>5 DEF Announced, Asking
  <2>2. Asking(t)'  BY <1>2, <1>3 DEF Asking, Sync
  <2> QED BY <1>1, <1>4, <1>5, <2>1, <2>2 DEF Above
<1>8. Reached'
  <2>1. \A o \in live, u \in Users : (Answered(o, u) => Answered(o, u)') /\ (Passed(o, u) => Passed(o, u)')
      BY <1>1, <1>4, <1>5 DEF Answered, Passed
  <2>2. Sync \in up'[t] /\ \A o \in live : Sync \in up[o] => Sync \in up'[o]  BY <1>2, <1>3, <1>5
  <2> QED BY <1>1, <1>4, <1>5, <2>1, <2>2 DEF Reached
<1>9. Fresh'  BY <1>1, <1>4 DEF Fresh
<1>10. Alone'  BY <1>1 DEF Alone, TabsOf
<1> QED BY <1>6, <1>7, <1>8, <1>9, <1>10

(* An edit is on its way to the object.  One older than the register leads  *)
(* astray, unless it is newer than all the object has.                      *)
LEMMA FieldEdit ==
    ASSUME Typed, FieldInv, NEW t \in Tabs, Edit(t)
    PROVE  FieldInv'
<1> USE DEF FieldInv
<1>1. PICK s \in (1..MaxStamp) \ used :
        /\ reg' = [reg EXCEPT ![t] = s] /\ shown' = [shown EXCEPT ![t] = s]
        /\ Send(t, IF t \in live THEN {Op(s)} ELSE {})
        /\ IF s > Newest(overlay) THEN Finds(t, TRUE) ELSE Strays(t, s < reg[t])
    BY DEF Edit
<1> DEFINE ms == IF t \in live THEN {Op(s)} ELSE {}
<1>2. UNCHANGED <<overlay, open, enabled, live, base, down, out>>  BY DEF Edit, object
<1>3. s \in Nat /\ s # 0 /\ s \in Stamps
  <2>1. MaxStamp \in Nat  BY PageSyncAssumption DEF PageSyncAssumption
  <2> QED BY <2>1, StampsAre
<1>4. \A o \in Tabs : up'[o] = IF o = t THEN up[t] \cup ms ELSE up[o]
  <2>1. ms \in SUBSET ToObject /\ Wires  BY <1>3, MessagesTyped DEF Typed
  <2> HIDE DEF ms
  <2> QED BY <1>1, <2>1, SendIs DEF ms
<1>5. /\ \A m \in ms : m.type = "op"
      /\ t \in live => Op(s) \in ms /\ Op(s).type = "op" /\ Op(s).edit = s
    BY DEF Op
<1> HIDE DEF ms
<1>6. /\ reg'[t] = s /\ shown'[t] = s
      /\ \A o \in Tabs : o # t => reg'[o] = reg[o] /\ shown'[o] = shown[o]
    BY <1>1 DEF Typed, Numbers
<1>7. /\ \A o \in Tabs : o # t => (o \in astray' <=> o \in astray)
      /\ t \notin astray' => s > Newest(overlay) \/ (t \notin astray /\ ~(s < reg[t]))
    BY <1>1, FieldTypes DEF Finds, Strays
<1>8. \A o \in Tabs : In(o)' = In(o) /\ (Told(o)' <=> Told(o))  BY <1>2 DEF In, Told
<1>9. /\ live \subseteq Tabs /\ open \subseteq Tabs /\ reg[t] \in Nat /\ Newest(overlay) \in Nat
      /\ \A u \in Users : overlay[u] \in Nat /\ overlay[u] <= Newest(overlay)
      /\ Owner[t] \in Users
    BY FieldTypes
<1>10. Connected'  BY <1>2, <1>4, <1>5 DEF Connected, Asks
<1>11. Shows' /\ Resets'  BY <1>2, <1>3, <1>6 DEF Shows, Resets
<1>12. Above'
  <2>1. ASSUME NEW o \in live', o \notin astray'
        PROVE  reg'[o] <= Newest(overlay') \/ Announced(o)' \/ Asking(o)' \/ Told(o)'
    <3>1. CASE o = t
      <4>1. Op(s) \in up'[t] /\ Op(s).type = "op" /\ Op(s).edit >= reg'[t]  BY <1>2, <1>3, <1>4, <1>5, <1>6, <2>1, <3>1
      <4> QED BY <3>1, <4>1 DEF Announced
    <3>2. CASE o # t
      <4>1. reg[o] <= Newest(overlay) \/ Announced(o) \/ Asking(o) \/ Told(o)
          BY <1>2, <1>7, <1>9, <2>1, <3>2 DEF Above
      <4>2. reg'[o] = reg[o] /\ up'[o] = up[o] /\ In(o)' = In(o) /\ overlay' = overlay /\ (Told(o)' <=> Told(o))
          BY <1>2, <1>4, <1>6, <1>8, <1>9, <2>1, <3>2
      <4> QED BY <4>1, <4>2 DEF Announced, Asking
    <3> QED BY <3>1, <3>2
  <2> QED BY <2>1 DEF Above
<1>13. Reached'
  <2> SUFFICES ASSUME NEW o \in live, o \notin astray', NEW u \in Users, Owner[o] # u
               PROVE  overlay[u] <= reg'[o] \/ Sync \in up'[o] \/ Answered(o, u)' \/ Passed(o, u)' \/ Told(o)'
      BY <1>2 DEF Reached
  <2>1. /\ (Answered(o, u) => Answered(o, u)') /\ (Passed(o, u) => Passed(o, u)')
        /\ (Sync \in up[o] => Sync \in up'[o])
      BY <1>2, <1>4, <1>8, <1>9 DEF Answered, Passed
  <2>2. CASE o = t /\ s > Newest(overlay)  BY <1>3, <1>6, <1>9, <2>2
  <2>3. CASE o # t \/ ~(s > Newest(overlay))
    <3>1. o \notin astray  BY <1>7, <1>9, <2>3
    <3>2. overlay[u] <= reg[o] \/ Sync \in up[o] \/ Answered(o, u) \/ Passed(o, u) \/ Told(o)
        BY <3>1 DEF Reached
    <3>3. overlay[u] <= reg[o] => overlay[u] <= reg'[o]  BY <1>3, <1>6, <1>7, <1>9, <2>3
    <3> QED BY <1>8, <1>9, <2>1, <3>2, <3>3
  <2> QED BY <2>2, <2>3
<1>14. Fresh'  BY <1>2, <1>8 DEF Fresh
<1>15. Alone'
  <2> SUFFICES ASSUME NEW o \in open, o \notin astray', TabsOf(Owner[o]) = {o}
               PROVE  overlay[Owner[o]] <= reg'[o]
      BY <1>2 DEF Alone, TabsOf
  <2>1. CASE o = t /\ s > Newest(overlay)  BY <1>3, <1>6, <1>9, <2>1
  <2>2. CASE o # t \/ ~(s > Newest(overlay))
    <3>1. o \notin astray  BY <1>7, <1>9, <2>2
    <3>2. overlay[Owner[o]] <= reg[o]  BY <3>1 DEF Alone
    <3> QED BY <1>3, <1>6, <1>7, <1>9, <2>2, <3>2
  <2> QED BY <2>1, <2>2
<1> QED BY <1>10, <1>11, <1>12, <1>13, <1>14, <1>15

LEMMA FieldAnswerSync ==
    ASSUME Typed, FieldInv, NEW t \in Tabs, AnswerSync(t)
    PROVE  FieldInv'
<1> USE DEF FieldInv
<1> DEFINE r == [type |-> "snapshot", ops |-> overlay]
<1>1. /\ Sync \in up[t] /\ up' = [up EXCEPT ![t] = @ \ {Sync}] /\ down' = [down EXCEPT ![t] = Append(@, r)]
      /\ UNCHANGED <<overlay, open, enabled, live, reg, shown, base, astray, out>>
    BY DEF AnswerSync, Reply, object, form
<1>2. \A o \in Tabs : /\ up'[o] = IF o = t THEN up[t] \ {Sync} ELSE up[o]
                      /\ down'[o] = IF o = t THEN Append(down[t], r) ELSE down[o]
                      /\ In(o)' = IF o = t THEN In(t) \cup {r} ELSE In(o)
  <2>1. r \in ToTab /\ Wires  BY DEF Typed, Numbers, ToTab
  <2> HIDE DEF r
  <2> QED BY <1>1, <2>1, HandledIs, ReplyIs
<1>3. r.type = "snapshot" /\ r.ops = overlay  OBVIOUS
<1> HIDE DEF r
<1>4. \A o \in Tabs : Told(o)' <=> Told(o)  BY <1>1 DEF Told
<1>5. live \subseteq Tabs /\ \A u \in Users : overlay[u] \in Nat  BY FieldTypes
<1>6. t \in live  BY <1>1 DEF Connected, Sync, Asks
<1>7. Connected' /\ Shows' /\ Resets'  BY <1>1, <1>2, <1>6 DEF Connected, Shows, Resets
<1>8. Above'
  <2>1. \A o \in live : (Announced(o) => Announced(o)') /\ (o # t => (Asking(o) => Asking(o)'))
      BY <1>1, <1>2, <1>5 DEF Announced, Asking, Sync
  <2>2. Asking(t)'  BY <1>2, <1>3 DEF Asking
  <2> QED BY <1>1, <1>4, <1>5, <2>1, <2>2 DEF Above
<1>9. Reached'
  <2>1. \A o \in live, u \in Users : /\ (Answered(o, u) => Answered(o, u)') /\ (Passed(o, u) => Passed(o, u)')
                                     /\ (o # t => (Sync \in up[o] => Sync \in up'[o]))
      BY <1>1, <1>2, <1>5 DEF Answered, Passed
  <2>2. \A u \in Users : Answered(t, u)'  BY <1>1, <1>2, <1>3, <1>5 DEF Answered
  <2> QED BY <1>1, <1>4, <1>5, <2>1, <2>2 DEF Reached
<1>10. Fresh'
  <2>1. \A u \in Users : r.ops[u] <= overlay'[u]  BY <1>1, <1>3, <1>5
  <2> QED BY <1>1, <1>2, <1>4, <2>1 DEF Fresh
<1>11. Alone'  BY <1>1 DEF Alone, TabsOf
<1> QED BY <1>7, <1>8, <1>9, <1>10, <1>11

(* The object passes an edit on, unless it has a newer one of the user.     *)
LEMMA FieldHandleOp ==
    ASSUME Typed, Typed', FieldInv, NEW t \in Tabs, HandleOp(t)
    PROVE  FieldInv'
<1> USE DEF FieldInv
<1> DEFINE w == Owner[t]
<1>1. PICK m \in up[t] :
        /\ m.type = "op" /\ up' = [up EXCEPT ![t] = @ \ {m}]
        /\ IF m.edit > overlay[w]
           THEN /\ overlay' = [overlay EXCEPT ![w] = m.edit]
                /\ ToOthers(t, [type |-> "op", edit |-> m.edit, user |-> w])
                /\ Strays(t, m.edit > reg[t])
           ELSE UNCHANGED <<overlay, out, astray>>
    BY DEF HandleOp
<1>2. UNCHANGED <<open, enabled, live, reg, shown, base, down>>  BY DEF HandleOp
<1>3. /\ w \in Users /\ m.edit \in Nat /\ live \subseteq Tabs /\ open \subseteq Tabs
      /\ overlay \in [Users -> Stamps] /\ overlay' \in [Users -> Stamps]
      /\ \A o \in Tabs : reg[o] \in Nat
      /\ \A u \in Users : overlay[u] \in Nat /\ overlay'[u] \in Nat
  <2>1. m \in ToObject  BY FieldTypes
  <2>2. m.edit \in Nat  BY <1>1, <2>1, StampsAre DEF ToObject
  <2>3. overlay' \in [Users -> Stamps]  BY DEF Typed, Numbers
  <2> QED BY <2>2, <2>3, FieldTypes, StampsAre
<1>4. \A o \in Tabs : up'[o] = IF o = t THEN up[t] \ {m} ELSE up[o]
  <2>1. Wires  BY DEF Typed
  <2> QED BY <1>1, <2>1, HandledIs
<1>5. /\ m.edit <= overlay'[w]
      /\ \A u \in Users : overlay[u] <= overlay'[u] /\ (u # w => overlay'[u] = overlay[u])
  <2>1. CASE m.edit > overlay[w]  BY <1>1, <1>3, <2>1
  <2>2. CASE ~(m.edit > overlay[w])  BY <1>1, <1>3, <2>2
  <2> QED BY <2>1, <2>2
<1>6. /\ out \subseteq out'
      /\ \A b \in out' : b \in out \/ (b[1] \in live /\ b[2].type = "op")
      /\ overlay'[w] = overlay[w]
         \/ \A o \in live : o # t => <<o, [type |-> "op", edit |-> overlay'[w], user |-> w]>> \in out'
  <2>1. CASE m.edit > overlay[w]
    <3>1. overlay'[w] = m.edit  BY <1>1, <1>3, <2>1
    <3> QED BY <1>1, <2>1, <3>1 DEF ToOthers
  <2>2. CASE ~(m.edit > overlay[w])  BY <1>1, <2>2
  <2> QED BY <2>1, <2>2
<1>7. /\ astray \subseteq astray'
      /\ t \notin astray' => overlay'[w] = overlay[w] \/ overlay'[w] <= reg[t]
  <2>1. CASE m.edit > overlay[w]  BY <1>1, <1>3, <2>1 DEF Strays
  <2>2. CASE ~(m.edit > overlay[w])  BY <1>1, <2>2
  <2> QED BY <2>1, <2>2
<1>8. \A o \in Tabs : In(o)' = In(o) /\ (Told(o)' <=> Told(o))  BY <1>2, <1>6 DEF In, Told
<1>9. /\ Newest(overlay) <= Newest(overlay') /\ Newest(overlay) \in Nat /\ Newest(overlay') \in Nat
      /\ \A u \in Users : overlay'[u] <= Newest(overlay')
    BY <1>3, <1>5, NewestGrows, NewestIs
<1>10. Connected'  BY <1>2, <1>4, <1>6 DEF Connected
<1>11. Shows' /\ Resets'  BY <1>2, <1>6 DEF Shows, Resets
<1>12. Above'
  <2> SUFFICES ASSUME NEW o \in live, o \notin astray
               PROVE  reg[o] <= Newest(overlay') \/ Announced(o)' \/ Asking(o)' \/ Told(o)'
      BY <1>2, <1>7 DEF Above
  <2>1. reg[o] \in Nat /\ o \in Tabs  BY <1>3
  <2>2. reg[o] <= Newest(overlay) \/ Announced(o) \/ Asking(o) \/ Told(o)  BY DEF Above
  <2>3. CASE reg[o] <= Newest(overlay)  BY <1>9, <2>1, <2>3
  <2>4. CASE Announced(o)
    <3>1. PICK x \in up[o] : x.type = "op" /\ x.edit >= reg[o]  BY <2>4 DEF Announced
    <3>2. CASE o = t /\ x = m
      <4>1. reg[t] <= m.edit /\ m.edit <= overlay'[w] /\ overlay'[w] <= Newest(overlay')
          BY <1>3, <1>5, <1>9, <3>1, <3>2
      <4> QED BY <1>3, <1>9, <3>2, <4>1
    <3>3. CASE ~(o = t /\ x = m)
      <4>1. x \in up'[o]  BY <1>4, <2>1, <3>3
      <4> QED BY <1>2, <3>1, <4>1 DEF Announced
    <3> QED BY <3>2, <3>3
  <2>5. CASE Asking(o)
    <3>1. Sync # m  BY <1>1 DEF Sync
    <3> QED BY <1>4, <1>8, <2>1, <2>5, <3>1 DEF Asking
  <2>6. CASE Told(o)  BY <1>8, <2>1, <2>6
  <2> QED BY <2>2, <2>3, <2>4, <2>5, <2>6
<1>13. Reached'
  <2> SUFFICES ASSUME NEW o \in live, o \notin astray, NEW u \in Users, Owner[o] # u
               PROVE  overlay'[u] <= reg[o] \/ Sync \in up'[o] \/ Answered(o, u)' \/ Passed(o, u)' \/ Told(o)'
      BY <1>2, <1>7 DEF Reached
  <2>1. CASE overlay'[u] = overlay[u]
    <3>1. overlay[u] <= reg[o] \/ Sync \in up[o] \/ Answered(o, u) \/ Passed(o, u) \/ Told(o)  BY DEF Reached
    <3>2. Sync \in up[o] => Sync \in up'[o]  BY <1>1, <1>3, <1>4 DEF Sync
    <3>3. (Answered(o, u) => Answered(o, u)') /\ (Passed(o, u) => Passed(o, u)')
        BY <1>3, <1>6, <1>8, <2>1 DEF Answered, Passed
    <3> QED BY <1>3, <1>8, <2>1, <3>1, <3>2, <3>3
  <2>2. CASE overlay'[u] # overlay[u]
    <3>1. u = w /\ o # t  BY <1>5, <2>2
    <3> DEFINE b == <<o, [type |-> "op", edit |-> overlay'[w], user |-> w]>>
    <3>2. b \in out'  BY <1>6, <2>2, <3>1
    <3>3. b[1] = o /\ b[2].type = "op" /\ b[2].user = u /\ b[2].edit = overlay'[u]  BY <3>1
    <3> HIDE DEF b
    <3>4. b[2].edit >= overlay'[u]  BY <1>3, <3>3
    <3> QED BY <3>2, <3>3, <3>4 DEF Passed
  <2> QED BY <2>1, <2>2
<1>14. Fresh'
  <2> SUFFICES ASSUME NEW o \in Tabs, NEW x \in In(o), x.type = "snapshot", ~Told(o), NEW u \in Users
               PROVE  x.ops[u] <= overlay'[u]
      BY <1>8 DEF Fresh
  <2>1. x.ops[u] <= overlay[u]  BY DEF Fresh
  <2>2. x.ops[u] \in Nat
    <3>1. In(o) \subseteq ToTab  BY FieldTypes
    <3> QED BY <3>1, StampsAre DEF ToTab
  <2> QED BY <1>3, <1>5, <2>1, <2>2
<1>15. Alone'
  <2> SUFFICES ASSUME NEW o \in open, o \notin astray', TabsOf(Owner[o]) = {o}
               PROVE  overlay'[Owner[o]] <= reg[o]
      BY <1>2 DEF Alone, TabsOf
  <2>1. overlay[Owner[o]] <= reg[o]  BY <1>7 DEF Alone
  <2>2. CASE o = t  BY <1>7, <2>1, <2>2
  <2>3. CASE o # t
    <3>1. Owner[o] # w /\ Owner[o] \in Users  BY <1>3, <2>3, FieldTypes DEF TabsOf
    <3> QED BY <1>5, <2>1, <3>1
  <2> QED BY <2>2, <2>3
<1> QED BY <1>10, <1>11, <1>12, <1>13, <1>14, <1>15

(* Edits are dropped, after a departure or a save, and all who are          *)
(* connected are to hear of it.                                             *)
LEMMA FieldDropped ==
    ASSUME Typed, Typed', FieldInv, NEW m, m.type \in {"reset", "saved"}, m.type = "reset" => m.edit = m.newest,
           ToAll(m), \A u \in Users : overlay'[u] <= overlay[u],
           UNCHANGED <<open, enabled, live, reg, shown, base, astray, up, down>>
    PROVE  FieldInv'
<1> USE DEF FieldInv
<1>1. out \subseteq out' /\ \A b \in out' : b \in out \/ (b[1] \in live /\ b[2] = m)  BY DEF ToAll
<1>2. \A t \in live : Told(t)'
  <2> SUFFICES ASSUME NEW t \in live PROVE Told(t)'  OBVIOUS
  <2>1. <<t, m>> \in out' /\ <<t, m>>[1] = t /\ <<t, m>>[2] = m  BY DEF ToAll
  <2> QED BY <2>1 DEF Told
<1>3. /\ live \subseteq Tabs /\ open \subseteq Tabs /\ \A t \in Tabs : reg[t] \in Nat /\ Owner[t] \in Users
      /\ \A u \in Users : overlay[u] \in Nat /\ overlay'[u] \in Nat
  <2>1. overlay' \in [Users -> Stamps]  BY DEF Typed, Numbers
  <2> QED BY <2>1, FieldTypes, StampsAre
<1>4. Connected' /\ Shows' /\ Resets'  BY <1>1 DEF Connected, Shows, Resets
<1>5. Above' /\ Reached'  BY <1>2 DEF Above, Reached
<1>6. Fresh'
  <2>1. \A t \in Tabs \ live : In(t) = {}  BY InIs DEF Connected, Typed
  <2>2. \A t \in Tabs : In(t)' = In(t)  BY DEF In
  <2> QED BY <1>2, <2>1, <2>2 DEF Fresh
<1>7. Alone'
  <2> SUFFICES ASSUME NEW t \in open, t \notin astray, TabsOf(Owner[t]) = {t}
               PROVE  overlay'[Owner[t]] <= reg[t]
      BY DEF Alone, TabsOf
  <2>1. overlay[Owner[t]] <= reg[t]  BY DEF Alone
  <2> QED BY <1>3, <2>1
<1> QED BY <1>4, <1>5, <1>6, <1>7

LEMMA FieldObject ==
    ASSUME Typed, Typed', FieldInv, (\E u \in Users : Drop(u)) \/ Saved
    PROVE  FieldInv'
<1>1. \A u \in Users : overlay[u] \in Nat  BY FieldTypes
<1>2. ASSUME NEW u \in Users, Drop(u), overlay[u] # 0 PROVE FieldInv'
  <2> DEFINE m == [type |-> "reset", edit |-> Newest(overlay'), newest |-> Newest(overlay')]
  <2>1. overlay' = [overlay EXCEPT ![u] = 0] /\ ToAll(m)  BY <1>2 DEF Drop, FallBack
  <2>2. m.type = "reset" /\ m.edit = m.newest  OBVIOUS
  <2> HIDE DEF m
  <2>3. \A v \in Users : overlay'[v] <= overlay[v]  BY <1>1, <2>1 DEF Typed, Numbers
  <2>4. UNCHANGED <<open, enabled, live, reg, shown, base, astray, up, down>>  BY <1>2 DEF Drop, form
  <2> QED BY <2>1, <2>2, <2>3, <2>4, FieldDropped
<1>3. ASSUME NEW u \in Users, Drop(u), overlay[u] = 0 PROVE FieldInv'
  <2>1. UNCHANGED <<open, enabled, live, overlay, reg, shown, base, astray, up, down, out>>  BY <1>3 DEF Drop, form
  <2>2. \A o \in Tabs : In(o)' = In(o)  BY <2>1 DEF In
  <2>3. enabled' \subseteq open /\ \A o \in Tabs \ live : down'[o] = <<>> /\ \A m \in up'[o] : m.type \notin Asks
      BY <2>1 DEF FieldInv, Connected
  <2> QED BY <2>1, <2>2, <2>3, FieldAside
<1>4. CASE Saved
  <2> DEFINE m == [type |-> "saved"]
  <2>1. /\ overlay' = [u \in Users |-> 0] /\ ToAll(m)
        /\ UNCHANGED <<open, enabled, live, reg, shown, base, astray, up, down>>
      BY <1>4 DEF Saved, form
  <2>2. m.type = "saved"  OBVIOUS
  <2> HIDE DEF m
  <2>3. \A v \in Users : overlay'[v] <= overlay[v]  BY <1>1, <2>1
  <2> QED BY <2>1, <2>2, <2>3, FieldDropped
<1> QED BY <1>2, <1>3, <1>4

(* A tab takes what it is told, and is astray if the object has moved on.   *)
LEMMA FieldTold ==
    ASSUME Typed, Typed', FieldInv, NEW t \in Tabs, NEW m, HearReset(t, m) \/ HearSaved(t, m)
    PROVE  FieldInv'
<1> USE DEF FieldInv
<1>1. /\ <<t, m>> \in out /\ m.type \in {"reset", "saved"} /\ down[t] = <<>> /\ out' = out \ {<<t, m>>}
      /\ UNCHANGED <<overlay, open, enabled, live, down>>
    BY DEF HearReset, HearSaved, Hear, object
<1>2. /\ \A o \in Tabs : o # t => /\ reg'[o] = reg[o] /\ base'[o] = base[o] /\ shown'[o] = shown[o]
                                  /\ (o \in astray' <=> o \in astray)
      /\ shown'[t] = IF reg'[t] = 0 THEN base'[t] ELSE reg'[t]
      /\ t \notin astray' => reg'[t] = Newest(overlay)
  <2>1. CASE HearReset(t, m)
    <3>1. /\ reg' = [reg EXCEPT ![t] = m.edit] /\ base' = base
          /\ shown' = [shown EXCEPT ![t] = IF m.edit = 0 THEN base[t] ELSE m.edit]
          /\ Finds(t, Newest(overlay) = m.newest) /\ m.type = "reset"
        BY <2>1 DEF HearReset, Hear
    <3>2. m.edit = m.newest
      <4>1. <<t, m>>[2] = m  OBVIOUS
      <4> QED BY <1>1, <3>1, <4>1 DEF Resets
    <3> QED BY <3>1, <3>2, FieldTypes DEF Typed, Numbers, Finds
  <2>2. CASE HearSaved(t, m)
    <3>1. /\ reg' = [reg EXCEPT ![t] = 0] /\ base' = [base EXCEPT ![t] = shown[t]] /\ shown' = shown
          /\ Finds(t, Newest(overlay) = 0)
        BY <2>2 DEF HearSaved
    <3> QED BY <3>1, FieldTypes DEF Typed, Numbers, Finds
  <2> QED BY <2>1, <2>2
<1>3. \A o \in Tabs : /\ up[o] \subseteq up'[o] /\ (o # t => up'[o] = up[o])
                      /\ \A x \in up'[o] : x \in up[o] \/ x.type = "text-sync"
  <2>1. CASE HearReset(t, m)  BY <2>1 DEF HearReset
  <2>2. CASE HearSaved(t, m)
    <3> DEFINE ms == IF rich THEN {TextSync(t)} ELSE {}
    <3>1. Send(t, ms) /\ ms \in SUBSET ToObject /\ Wires  BY <2>2, TextSyncTyped DEF HearSaved, Typed
    <3>2. \A x \in ms : x.type = "text-sync"  BY DEF TextSync
    <3> HIDE DEF ms
    <3>3. \A o \in Tabs : up'[o] = IF o = t THEN up[t] \cup ms ELSE up[o]  BY <3>1, SendIs
    <3> QED BY <3>2, <3>3
  <2> QED BY <2>1, <2>2
<1>4. /\ live \subseteq Tabs /\ open \subseteq Tabs /\ Newest(overlay) \in Nat /\ Owner[t] \in Users
      /\ \A u \in Users : overlay[u] <= Newest(overlay)
    BY FieldTypes
<1>5. \A o \in Tabs : o # t => (Told(o) => Told(o)')
  <2> SUFFICES ASSUME NEW o \in Tabs, o # t, NEW b \in out, b[1] = o, b[2].type \in {"reset", "saved"}
               PROVE  Told(o)'
      BY DEF Told
  <2>1. b # <<t, m>>  OBVIOUS
  <2>2. b \in out'  BY <1>1, <2>1
  <2> QED BY <2>2 DEF Told
<1>6. \A o \in Tabs : In(o)' = In(o) /\ (o = t => In(o) = {})
  <2>1. Wires  BY DEF Typed
  <2> QED BY <1>1, <2>1, InIs DEF In
<1>7. t \in live
  <2>1. <<t, m>>[1] = t  OBVIOUS
  <2> QED BY <1>1, <2>1 DEF Connected
<1>8. Connected'  BY <1>1, <1>3, <1>7 DEF Connected
<1>9. Shows' /\ Resets'  BY <1>1, <1>2 DEF Shows, Resets
<1>10. Above'
  <2> SUFFICES ASSUME NEW o \in live, o \notin astray'
               PROVE  reg'[o] <= Newest(overlay) \/ Announced(o)' \/ Asking(o)' \/ Told(o)'
      BY <1>1 DEF Above
  <2>1. CASE o = t  BY <1>2, <1>4, <2>1
  <2>2. CASE o # t
    <3>1. reg[o] <= Newest(overlay) \/ Announced(o) \/ Asking(o) \/ Told(o)  BY <1>2, <1>4, <2>2 DEF Above
    <3>2. reg'[o] = reg[o] /\ up'[o] = up[o] /\ In(o)' = In(o)  BY <1>2, <1>3, <1>4, <1>6, <2>2
    <3> QED BY <1>4, <1>5, <2>2, <3>1, <3>2 DEF Announced, Asking
  <2> QED BY <2>1, <2>2
<1>11. Reached'
  <2> SUFFICES ASSUME NEW o \in live, o \notin astray', NEW u \in Users, Owner[o] # u
               PROVE  overlay[u] <= reg'[o] \/ Sync \in up'[o] \/ Answered(o, u)' \/ Passed(o, u)' \/ Told(o)'
      BY <1>1 DEF Reached
  <2>1. CASE o = t  BY <1>2, <1>4, <2>1
  <2>2. CASE o # t
    <3>1. overlay[u] <= reg[o] \/ Sync \in up[o] \/ Answered(o, u) \/ Passed(o, u) \/ Told(o)
        BY <1>2, <1>4, <2>2 DEF Reached
    <3>2. reg'[o] = reg[o] /\ up'[o] = up[o] /\ In(o)' = In(o) /\ overlay' = overlay  BY <1>1, <1>2, <1>3, <1>4, <1>6, <2>2
    <3>3. Passed(o, u) => Passed(o, u)'
      <4> SUFFICES ASSUME NEW b \in out, b[1] = o, b[2].type = "op", b[2].user = u, b[2].edit >= overlay[u]
                   PROVE  Passed(o, u)'
          BY DEF Passed
      <4>1. b # <<t, m>>  BY <2>2
      <4>2. b \in out'  BY <1>1, <4>1
      <4> QED BY <3>2, <4>2 DEF Passed
    <3> QED BY <1>4, <1>5, <2>2, <3>1, <3>2, <3>3 DEF Answered
  <2> QED BY <2>1, <2>2
<1>12. Fresh'  BY <1>1, <1>5, <1>6 DEF Fresh
<1>13. Alone'
  <2> SUFFICES ASSUME NEW o \in open, o \notin astray', TabsOf(Owner[o]) = {o}
               PROVE  overlay[Owner[o]] <= reg'[o]
      BY <1>1 DEF Alone, TabsOf
  <2>1. CASE o = t  BY <1>2, <1>4, <2>1
  <2>2. CASE o # t  BY <1>2, <1>4, <2>2 DEF Alone
  <2> QED BY <2>1, <2>2
<1> QED BY <1>8, <1>9, <1>10, <1>11, <1>12, <1>13

LEMMA FieldHearSnapshot ==
    ASSUME Typed, Typed', FieldInv, NEW t \in Tabs, HearSnapshot(t)
    PROVE  FieldInv'
<1> USE DEF FieldInv
<1> DEFINE h == Head(down[t])
           ops == h.ops
           n == Max({ops[u] : u \in Users \ {Owner[t]}} \cup {0})
           ms == Lacking(t, ops)
<1>1. /\ down[t] # <<>> /\ h.type = "snapshot" /\ down' = [down EXCEPT ![t] = Tail(@)]
      /\ Apply(t, n) /\ Send(t, ms)
      /\ UNCHANGED <<overlay, open, enabled, live, base, astray, out>>
    BY DEF HearSnapshot, object
<1>2. /\ h \in ToTab /\ In(t) = In(t)' \cup {h}
      /\ \A o \in Tabs : o # t => down'[o] = down[o] /\ In(o)' = In(o)
  <2>1. Wires  BY DEF Typed
  <2> QED BY <1>1, <2>1, HeardIs
<1>3. \A o \in Tabs : Told(o)' <=> Told(o)  BY <1>1 DEF Told
<1>4. /\ live \subseteq Tabs /\ open \subseteq Tabs /\ overlay \in [Users -> Stamps]
      /\ \A o \in Tabs : reg[o] \in Nat /\ Owner[o] \in Users
      /\ \A u \in Users : overlay[u] \in Nat
    BY FieldTypes
<1>5. ops \in [Users -> Stamps] /\ (Told(t) \/ \A u \in Users : ops[u] <= overlay[u])
    BY <1>1, <1>2 DEF ToTab, Fresh
<1>6. /\ n \in Stamps /\ n \in Nat /\ n <= Newest(ops) /\ \A u \in Users : u # Owner[t] => ops[u] <= n
      /\ Told(t) \/ Newest(ops) <= Newest(overlay)
      /\ Newest(ops) \in Nat /\ Newest(overlay) \in Nat /\ \A u \in Users : ops[u] \in Nat
  <2> HIDE DEF ops
  <2> QED BY <1>4, <1>5, NewestOther, NewestGrows, NewestIs, StampsAre
<1>7. h \in In(t) /\ h.ops = ops  BY <1>2
<1> HIDE DEF n, ops, h
<1>8. /\ reg'[t] = (IF n > reg[t] THEN n ELSE reg[t]) /\ shown'[t] = (IF n > reg[t] THEN n ELSE shown[t])
      /\ \A o \in Tabs : o # t => reg'[o] = reg[o] /\ shown'[o] = shown[o]
  <2>1. Numbers  BY DEF Typed
  <2> QED BY <1>1, <1>6, <2>1, ApplyIs
<1>9. reg[t] <= reg'[t] /\ n <= reg'[t] /\ reg'[t] \in Nat /\ reg'[t] \in Stamps
  <2>1. reg'[t] \in Stamps  BY DEF Typed, Numbers
  <2> QED BY <1>4, <1>6, <1>8, <2>1, StampsAre
<1>10. /\ \A m \in ms : m.type = "op"
       /\ reg'[t] > Newest(ops) => Op(reg'[t]) \in ms
       /\ ms \in SUBSET ToObject
    BY <1>9, MessagesTyped DEF Lacking, Op
<1> HIDE DEF ms
<1>11. \A o \in Tabs : up'[o] = IF o = t THEN up[t] \cup ms ELSE up[o]
  <2>1. Wires  BY DEF Typed
  <2> QED BY <1>1, <1>10, <2>1, SendIs
<1>12. t \in live  BY <1>1 DEF Connected
<1>13. Connected'  BY <1>1, <1>2, <1>10, <1>11, <1>12 DEF Connected
<1>14. Shows' /\ Resets'  BY <1>1, <1>4, <1>6, <1>8 DEF Shows, Resets
<1>15. Above'
  <2>1. ASSUME NEW o \in live, o \notin astray, o # t
        PROVE  reg'[o] <= Newest(overlay') \/ Announced(o)' \/ Asking(o)' \/ Told(o)'
    <3>1. reg[o] <= Newest(overlay) \/ Announced(o) \/ Asking(o) \/ Told(o)  BY <2>1 DEF Above
    <3>2. reg'[o] = reg[o] /\ up'[o] = up[o] /\ In(o)' = In(o) /\ overlay' = overlay /\ (Told(o)' <=> Told(o))
        BY <1>1, <1>2, <1>3, <1>4, <1>8, <1>11, <2>1
    <3> QED BY <3>1, <3>2 DEF Announced, Asking
  <2>2. reg'[t] <= Newest(overlay') \/ Announced(t)' \/ Told(t)'
    <3>1. CASE reg'[t] > Newest(ops)
      <4>1. Op(reg'[t]) \in up'[t] /\ Op(reg'[t]).type = "op" /\ Op(reg'[t]).edit >= reg'[t]
          BY <1>9, <1>10, <1>11, <3>1 DEF Op
      <4> QED BY <4>1 DEF Announced
    <3>2. CASE ~(reg'[t] > Newest(ops))
      <4>1. Told(t) \/ reg'[t] <= Newest(overlay)  BY <1>6, <1>9, <3>2
      <4> QED BY <1>1, <1>3, <4>1
    <3> QED BY <3>1, <3>2
  <2> QED BY <1>1, <2>1, <2>2 DEF Above
<1>16. Reached'
  <2> SUFFICES ASSUME NEW o \in live, o \notin astray, NEW u \in Users, Owner[o] # u
               PROVE  overlay[u] <= reg'[o] \/ Sync \in up'[o] \/ Answered(o, u)' \/ Passed(o, u)' \/ Told(o)'
      BY <1>1 DEF Reached
  <2>1. overlay[u] <= reg[o] \/ Sync \in up[o] \/ Answered(o, u) \/ Passed(o, u) \/ Told(o)  BY DEF Reached
  <2>2. /\ (Sync \in up[o] => Sync \in up'[o]) /\ (Passed(o, u) => Passed(o, u)') /\ (Told(o) => Told(o)')
      BY <1>1, <1>3, <1>4, <1>11 DEF Passed
  <2>3. CASE o # t
    <3>1. reg'[o] = reg[o] /\ In(o)' = In(o)  BY <1>2, <1>4, <1>8, <2>3
    <3> QED BY <1>1, <2>1, <2>2, <3>1 DEF Answered
  <2>4. CASE o = t
    <3>1. overlay[u] <= reg[t] => overlay[u] <= reg'[t]  BY <1>4, <1>9
    <3>2. Answered(t, u) => Answered(t, u)' \/ overlay[u] <= reg'[t]
      <4> SUFFICES ASSUME NEW m \in In(t), m.type = "snapshot", m.ops[u] >= overlay[u]
                   PROVE  Answered(t, u)' \/ overlay[u] <= reg'[t]
          BY DEF Answered
      <4>1. CASE m = h
        <5>1. ops[u] >= overlay[u] /\ ops[u] <= n /\ ops[u] \in Nat  BY <1>6, <1>7, <2>4, <4>1
        <5> QED BY <1>4, <1>6, <1>9, <5>1
      <4>2. CASE m # h
        <5>1. m \in In(t)'  BY <1>2, <4>2
        <5> QED BY <1>1, <5>1 DEF Answered
      <4> QED BY <4>1, <4>2
    <3> QED BY <2>1, <2>2, <2>4, <3>1, <3>2
  <2> QED BY <2>3, <2>4
<1>17. Fresh'
  <2>1. \A o \in Tabs : In(o)' \subseteq In(o)  BY <1>2
  <2> QED BY <1>1, <1>3, <2>1 DEF Fresh
<1>18. Alone'
  <2> SUFFICES ASSUME NEW o \in open, o \notin astray, TabsOf(Owner[o]) = {o}
               PROVE  overlay[Owner[o]] <= reg'[o]
      BY <1>1 DEF Alone, TabsOf
  <2>1. overlay[Owner[o]] <= reg[o] /\ overlay[Owner[o]] \in Nat  BY <1>4 DEF Alone
  <2>2. CASE o = t  BY <1>4, <1>9, <2>1, <2>2
  <2>3. CASE o # t  BY <1>4, <1>8, <2>1, <2>3
  <2> QED BY <2>2, <2>3
<1> QED BY <1>13, <1>14, <1>15, <1>16, <1>17, <1>18

(* A tab applies another's edit if it is newer, and is astray if the object *)
(* has dropped it.                                                          *)
LEMMA FieldHearOp ==
    ASSUME Typed, Typed', FieldInv, NEW t \in Tabs, NEW m, HearOp(t, m)
    PROVE  FieldInv'
<1> USE DEF FieldInv
<1>1. /\ <<t, m>> \in out /\ m.type = "op" /\ out' = out \ {<<t, m>>}
      /\ IF m.user = Owner[t] THEN UNCHANGED <<reg, shown, astray>>
                              ELSE Apply(t, m.edit) /\ Strays(t, m.edit > overlay[m.user] /\ m.edit > reg[t])
      /\ UNCHANGED <<overlay, open, enabled, live, base, up, down>>
    BY DEF HearOp, Hear, object
<1>2. m.edit \in Stamps /\ m.edit \in Nat /\ m.user \in Users
  <2>1. m \in ToTabs  BY <1>1 DEF Typed, Wires
  <2> QED BY <1>1, <2>1, StampsAre DEF ToTabs
<1>3. /\ live \subseteq Tabs /\ open \subseteq Tabs /\ Newest(overlay) \in Nat
      /\ \A o \in Tabs : reg[o] \in Nat /\ Owner[o] \in Users
      /\ \A u \in Users : overlay[u] \in Nat /\ overlay[u] <= Newest(overlay)
    BY FieldTypes
<1>4. \A o \in Tabs : In(o)' = In(o) /\ (Told(o)' <=> Told(o))
  <2>1. <<t, m>>[2] = m  OBVIOUS
  <2> QED BY <1>1, <2>1 DEF In, Told
<1>5. /\ \A o \in Tabs : o # t => reg'[o] = reg[o] /\ shown'[o] = shown[o]
      /\ \/ reg'[t] = reg[t] /\ shown'[t] = shown[t] /\ (m.user = Owner[t] \/ m.edit <= reg[t])
         \/ /\ m.edit > reg[t] /\ reg'[t] = m.edit /\ shown'[t] = m.edit
            /\ t \in astray' \/ m.edit <= overlay[m.user]
      /\ astray \subseteq astray'
  <2>1. CASE m.user = Owner[t]  BY <1>1, <2>1
  <2>2. CASE m.user # Owner[t]
    <3>1. Numbers /\ Apply(t, m.edit) /\ Strays(t, m.edit > overlay[m.user] /\ m.edit > reg[t])
        BY <1>1, <2>2 DEF Typed
    <3>2. /\ reg'[t] = (IF m.edit > reg[t] THEN m.edit ELSE reg[t])
          /\ shown'[t] = (IF m.edit > reg[t] THEN m.edit ELSE shown[t])
          /\ \A o \in Tabs : o # t => reg'[o] = reg[o] /\ shown'[o] = shown[o]
        BY <1>2, <3>1, ApplyIs
    <3>3. astray \subseteq astray'  BY <3>1 DEF Strays
    <3>4. CASE m.edit > reg[t]
      <4>1. t \in astray' \/ m.edit <= overlay[m.user]  BY <1>2, <1>3, <3>1, <3>4 DEF Strays
      <4> QED BY <3>2, <3>3, <3>4, <4>1
    <3>5. CASE ~(m.edit > reg[t])  BY <1>2, <1>3, <3>2, <3>3, <3>5
    <3> QED BY <3>4, <3>5
  <2> QED BY <2>1, <2>2
<1>6. reg[t] <= reg'[t] /\ reg'[t] \in Nat /\ reg[t] \in Nat  BY <1>2, <1>3, <1>5
<1>7. t \in live
  <2>1. <<t, m>>[1] = t  OBVIOUS
  <2> QED BY <1>1, <2>1 DEF Connected
<1>8. Connected' /\ Resets'  BY <1>1 DEF Connected, Resets
<1>9. Shows'
  <2> SUFFICES ASSUME NEW o \in Tabs PROVE shown'[o] = IF reg'[o] = 0 THEN base[o] ELSE reg'[o]
      BY <1>1 DEF Shows
  <2>1. CASE o = t  BY <1>2, <1>3, <1>5, <2>1 DEF Shows
  <2>2. CASE o # t  BY <1>5, <2>2 DEF Shows
  <2> QED BY <2>1, <2>2
<1>10. Above'
  <2> SUFFICES ASSUME NEW o \in live, o \notin astray'
               PROVE  reg'[o] <= Newest(overlay) \/ Announced(o)' \/ Asking(o)' \/ Told(o)'
      BY <1>1 DEF Above
  <2>1. reg[o] <= Newest(overlay) \/ Announced(o) \/ Asking(o) \/ Told(o)  BY <1>5 DEF Above
  <2>2. CASE reg'[o] = reg[o]  BY <1>1, <1>3, <1>4, <2>1, <2>2 DEF Announced, Asking
  <2>3. CASE reg'[o] # reg[o]
    <3>1. o = t /\ reg'[t] = m.edit /\ m.edit <= overlay[m.user]  BY <1>3, <1>5, <2>3
    <3> QED BY <1>2, <1>3, <3>1
  <2> QED BY <2>2, <2>3
<1>11. Reached'
  <2> SUFFICES ASSUME NEW o \in live, o \notin astray', NEW u \in Users, Owner[o] # u
               PROVE  overlay[u] <= reg'[o] \/ Sync \in up[o] \/ Answered(o, u)' \/ Passed(o, u)' \/ Told(o)'
      BY <1>1 DEF Reached
  <2>1. overlay[u] <= reg[o] \/ Sync \in up[o] \/ Answered(o, u) \/ Passed(o, u) \/ Told(o)
      BY <1>5 DEF Reached
  <2>2. (Answered(o, u) => Answered(o, u)') /\ (Told(o) => Told(o)')  BY <1>1, <1>3, <1>4 DEF Answered
  <2>3. overlay[u] <= reg[o] => overlay[u] <= reg'[o]
    <3>1. CASE o = t  BY <1>3, <1>6, <3>1
    <3>2. CASE o # t  BY <1>3, <1>5, <3>2
    <3> QED BY <3>1, <3>2
  <2>4. Passed(o, u) => Passed(o, u)' \/ overlay[u] <= reg'[o]
    <3> SUFFICES ASSUME NEW b \in out, b[1] = o, b[2].type = "op", b[2].user = u, b[2].edit >= overlay[u]
                 PROVE  Passed(o, u)' \/ overlay[u] <= reg'[o]
        BY DEF Passed
    <3>1. CASE b = <<t, m>>
      <4>1. o = t /\ m.user = u /\ m.edit >= overlay[u]  BY <3>1
      <4> QED BY <1>2, <1>3, <1>5, <1>6, <4>1
    <3>2. CASE b # <<t, m>>  BY <1>1, <3>2 DEF Passed
    <3> QED BY <3>1, <3>2
  <2> QED BY <2>1, <2>2, <2>3, <2>4
<1>12. Fresh'  BY <1>1, <1>4 DEF Fresh
<1>13. Alone'
  <2> SUFFICES ASSUME NEW o \in open, o \notin astray', TabsOf(Owner[o]) = {o}
               PROVE  overlay[Owner[o]] <= reg'[o]
      BY <1>1 DEF Alone, TabsOf
  <2>1. overlay[Owner[o]] <= reg[o] /\ overlay[Owner[o]] \in Nat  BY <1>3, <1>5 DEF Alone
  <2>2. CASE o = t  BY <1>6, <2>1, <2>2
  <2>3. CASE o # t  BY <1>3, <1>5, <2>1, <2>3
  <2> QED BY <2>2, <2>3
<1> QED BY <1>8, <1>9, <1>10, <1>11, <1>12, <1>13

LEMMA TypedNext ==
    ASSUME Typed, [SyncNext]_syncVars
    PROVE  Typed'
<1>1. CASE UNCHANGED syncVars
  BY <1>1 DEF syncVars, object, form, copy, wire, counts, Typed, Numbers, Sets, Texts, Wires
<1>2. ASSUME NEW t \in Tabs, Settle(t) \/ People(t) \/ Cut(t) PROVE Typed'
  <2>1. CASE Load(t) \/ Heartbeat(t) \/ Refresh(t) \/ Leave(t) \/ Cut(t) \/ Connect(t) \/ Gone(t) \/ Store(t)
      BY <2>1, TypedOpen
  <2>2. CASE Edit(t) \/ Type(t) \/ HearSnapshot(t) \/ HearTextSync(t)  BY <2>2, TypedTab
  <2>3. CASE Answer(t)  BY <2>3, TypedAnswer DEF Answer
  <2>4. CASE Broadcast(t)  BY <2>4, TypedHear DEF Broadcast
  <2> QED BY <1>2, <2>1, <2>2, <2>3, <2>4 DEF Settle, People, Receive
<1>3. CASE (\E u \in Users : Drop(u) \/ Forget(u)) \/ Saved  BY <1>3, TypedObject
<1> QED BY <1>1, <1>2, <1>3 DEF SyncNext

LEMMA FieldText ==
    ASSUME Typed, Typed', FieldInv, NEW t \in Tabs,
           Type(t) \/ AnswerTextSync(t) \/ HandleUpdate(t) \/ HearTextSync(t) \/ \E m : HearUpdate(t, m)
    PROVE  FieldInv'
<1> DEFINE Alike == UNCHANGED <<open, live, overlay, reg, shown, base, astray, enabled>>
           Ups == \A o \in Tabs : \A m \in ToObject : m.type \in {"op", "sync"} => (m \in up'[o] <=> m \in up[o])
           Downs == \A o \in Tabs : \A m \in ToTab : m.type = "snapshot" => (m \in In(o)' <=> m \in In(o))
           Outs == /\ \A b \in out' : b \in out \/ (b[1] \in live /\ b[2].type = "text-update")
                   /\ \A b \in out : b \in out' \/ b[2].type = "text-update"
           Dead == \A o \in Tabs \ live : down'[o] = <<>> /\ \A m \in up'[o] : m.type \notin Asks
<1>1. Wires /\ Connected /\ enabled \subseteq open
    BY DEF Typed, FieldInv, Connected
<1>2. CASE Type(t)
  <2>1. Alike /\ down' = down /\ out' = out  BY <1>2 DEF Type, object, form
  <2>2. \A o \in Tabs : \A m \in up'[o] : m \in up[o] \/ m.type = "text-update"
    <3>1. CASE UNCHANGED up  BY <3>1
    <3>2. CASE \E d : Send(t, {Update(d)})
      <4>1. PICK d : Send(t, {Update(d)})  BY <3>2
      <4>2. up' = [up EXCEPT ![t] = @ \cup {Update(d)}]  BY <4>1 DEF Send
      <4> QED BY <1>1, <4>2 DEF Update, Wires
    <3>3. UNCHANGED up \/ \E d : Send(t, {Update(d)})
      <4>1. CASE ~synced[t]  BY <1>2, <4>1 DEF Type
      <4>2. CASE synced[t]
        <5>1. PICK gone : LET change == [ins |-> {Piece(t)}, del |-> gone]
                          IN  IF t \in live THEN Send(t, {Update(change)}) /\ UNCHANGED dirty
                              ELSE dirty' = [dirty EXCEPT ![t] = TRUE] /\ UNCHANGED up
          BY <1>2, <4>2 DEF Type
        <5> QED BY <5>1
      <4> QED BY <4>1, <4>2
    <3> QED BY <3>1, <3>2, <3>3
  <2>3. \A o \in Tabs : up[o] \subseteq up'[o]
    <3>1. UNCHANGED up \/ \E d : Send(t, {Update(d)})
      <4>1. CASE ~synced[t]  BY <1>2, <4>1 DEF Type
      <4>2. CASE synced[t]
        <5>1. PICK gone : LET change == [ins |-> {Piece(t)}, del |-> gone]
                          IN  IF t \in live THEN Send(t, {Update(change)}) /\ UNCHANGED dirty
                              ELSE dirty' = [dirty EXCEPT ![t] = TRUE] /\ UNCHANGED up
          BY <1>2, <4>2 DEF Type
        <5> QED BY <5>1
      <4> QED BY <4>1, <4>2
    <3> QED BY <1>1, <3>1 DEF Send, Wires
  <2>4. Ups  BY <2>2, <2>3
  <2>5. Downs /\ Outs  BY <2>1 DEF In
  <2>6. Dead  BY <1>1, <2>1, <2>2 DEF Connected, Asks
  <2> QED BY <1>1, <2>1, <2>4, <2>5, <2>6, FieldAside
<1>3. CASE AnswerTextSync(t)
  <2>1. Alike /\ out' = out  BY <1>3 DEF AnswerTextSync, form, copy
  <2>2. PICK m \in up[t] : m.type = "text-sync" /\ up' = [up EXCEPT ![t] = @ \ {m}]  BY <1>3 DEF AnswerTextSync
  <2> DEFINE r == [type |-> "text-sync", doc |-> text']
  <2>3. down' = [down EXCEPT ![t] = Append(@, r)]  BY <1>3 DEF AnswerTextSync, Reply
  <2>4. r \in ToTab /\ r.type = "text-sync"  BY DEF ToTab, Typed, Texts
  <2> HIDE DEF r
  <2>5. /\ \A o \in Tabs : up'[o] = IF o = t THEN up[t] \ {m} ELSE up[o]
        /\ \A o \in Tabs : down'[o] = IF o = t THEN Append(down[t], r) ELSE down[o]
        /\ \A o \in Tabs : In(o)' = IF o = t THEN In(t) \cup {r} ELSE In(o)
    BY <1>1, <2>2, <2>3, <2>4, HandledIs, ReplyIs
  <2>6. Ups  BY <2>2, <2>5
  <2>7. Downs /\ Outs  BY <2>1, <2>4, <2>5
  <2>8. t \in live  BY <1>1, <2>2 DEF Connected, Asks
  <2>9. Dead  BY <1>1, <2>5, <2>8 DEF Connected
  <2> QED BY <1>1, <2>1, <2>6, <2>7, <2>9, FieldAside
<1>4. CASE HandleUpdate(t)
  <2>1. Alike /\ down' = down  BY <1>4 DEF HandleUpdate, form, copy, counts
  <2>2. PICK m \in up[t] : m.type = "text-update" /\ up' = [up EXCEPT ![t] = @ \ {m}] /\ ToOthers(t, m)
      BY <1>4 DEF HandleUpdate
  <2>3. \A o \in Tabs : up'[o] = IF o = t THEN up[t] \ {m} ELSE up[o]  BY <1>1, <2>2, HandledIs
  <2>4. Ups  BY <2>2, <2>3
  <2>5. Downs /\ Outs  BY <2>1, <2>2 DEF In, ToOthers
  <2>6. Dead  BY <1>1, <2>1, <2>3 DEF Connected
  <2> QED BY <1>1, <2>1, <2>4, <2>5, <2>6, FieldAside
<1>5. CASE HearTextSync(t)
  <2>1. /\ Alike /\ out' = out
        /\ down[t] # <<>> /\ Head(down[t]).type = "text-sync" /\ down' = [down EXCEPT ![t] = Tail(@)]
      BY <1>5 DEF HearTextSync, object, form
  <2>2. PICK ms : Send(t, ms) /\ \A m \in ms : m.type = "text-update"
      BY <1>5 DEF HearTextSync, SentAgain, Update
  <2>3. \A o \in Tabs : up'[o] = IF o = t THEN up[t] \cup ms ELSE up[o]
      BY <1>1, <2>2 DEF Send, Wires
  <2>4. /\ \A o \in Tabs : o # t => down'[o] = down[o] /\ In(o)' = In(o)
        /\ In(t) = In(t)' \cup {Head(down[t])}
      BY <1>1, <2>1, HeardIs
  <2>5. Ups  BY <2>2, <2>3
  <2>6. Downs /\ Outs  BY <2>1, <2>4
  <2>7. t \in live  BY <1>1, <2>1 DEF Connected
  <2>8. Dead  BY <1>1, <2>3, <2>4, <2>7 DEF Connected
  <2> QED BY <1>1, <2>1, <2>5, <2>6, <2>8, FieldAside
<1>6. ASSUME NEW m, HearUpdate(t, m) PROVE FieldInv'
  <2>1. Alike /\ down' = down /\ up' = up /\ m.type = "text-update" /\ out' = out \ {<<t, m>>}
      BY <1>6 DEF HearUpdate, Hear, object, form, counts
  <2>2. Ups /\ Downs /\ Outs /\ Dead  BY <1>1, <2>1 DEF In, Connected
  <2> QED BY <1>1, <2>1, <2>2, FieldAside
<1> QED BY <1>2, <1>3, <1>4, <1>5, <1>6

LEMMA FieldSaves ==
    ASSUME Typed, Typed', FieldInv,
           \/ \E t \in Tabs : Heartbeat(t) \/ Store(t) \/ Gone(t) \/ (Refresh(t) /\ UNCHANGED <<live, stale, wire>>)
           \/ \E u \in Users : Forget(u)
    PROVE  FieldInv'
<1> DEFINE Stays == /\ UNCHANGED <<open, live, overlay, reg, shown, base, astray, up, down, out>>
                    /\ enabled' \subseteq open
<1>1. Stays
  <2>1. enabled \subseteq open  BY DEF FieldInv, Connected
  <2>2. ASSUME NEW t \in Tabs, Heartbeat(t) PROVE Stays
    BY <2>1, <2>2 DEF Heartbeat, form, wire
  <2>3. ASSUME NEW t \in Tabs, Store(t) PROVE Stays
    BY <2>1, <2>3 DEF Store, object, form, wire
  <2>4. ASSUME NEW t \in Tabs, Gone(t) PROVE Stays
    BY <2>1, <2>4 DEF Gone, form, wire
  <2>5. ASSUME NEW t \in Tabs, Refresh(t), UNCHANGED <<live, stale, wire>> PROVE Stays
    <3>1. enabled' \subseteq enabled \cup {t} /\ t \in open  BY <2>5 DEF Refresh
    <3> QED BY <2>1, <2>5, <3>1 DEF Refresh, form, wire
  <2>6. ASSUME NEW u \in Users, Forget(u) PROVE Stays
    BY <2>1, <2>6 DEF Forget, form, wire
  <2> QED BY <2>2, <2>3, <2>4, <2>5, <2>6
<1>2. \A o \in Tabs \ live : down'[o] = <<>> /\ \A m \in up'[o] : m.type \notin Asks
    BY <1>1 DEF FieldInv, Connected
<1>3. \A o \in Tabs : In(o)' = In(o)  BY <1>1 DEF In
<1> QED BY <1>1, <1>2, <1>3, FieldAside

LEMMA FieldNext ==
    ASSUME Typed, FieldInv, [SyncNext]_syncVars
    PROVE  Typed' /\ FieldInv'
<1>1. Typed'  BY TypedNext
<1>2. CASE UNCHANGED syncVars
  <2> USE <1>2 DEF syncVars, object, form, copy, wire, counts
  <2>1. \A o \in Tabs : In(o)' = In(o)  BY DEF In
  <2>2. enabled' \subseteq open /\ \A o \in Tabs \ live : down'[o] = <<>> /\ \A m \in up'[o] : m.type \notin Asks
      BY DEF FieldInv, Connected
  <2> QED BY <1>1, <2>1, <2>2, FieldAside
<1>3. ASSUME NEW t \in Tabs, Settle(t) \/ People(t) \/ Cut(t) PROVE FieldInv'
  <2>1. CASE Load(t)  BY <2>1, FieldLoad
  <2>2. CASE Heartbeat(t) \/ Store(t) \/ Gone(t)  BY <1>1, <2>2, FieldSaves
  <2>3. CASE Refresh(t)
    <3>1. CASE UNCHANGED <<live, stale, wire>>  BY <1>1, <2>3, <3>1, FieldSaves
    <3>2. CASE t \in enabled /\ enabled' = enabled \ {t} /\ End(t, up[t])
      <4>1. /\ UNCHANGED <<overlay, reg, shown, base, astray, open>>
            /\ enabled \subseteq open /\ live \subseteq open
          BY <2>3 DEF Refresh, form, FieldInv, Connected
      <4> QED BY <3>2, <4>1, FieldEnd
    <3> QED BY <2>3, <3>1, <3>2 DEF Refresh
  <2>4. CASE Leave(t)
    <3>1. /\ UNCHANGED <<overlay, reg, shown, base, astray>>
          /\ open' = open \ {t} /\ enabled' = enabled \ {t} /\ End(t, up[t])
          /\ enabled \subseteq open /\ live \subseteq open
        BY <2>4 DEF Leave, form, FieldInv, Connected
    <3> QED BY <3>1, FieldEnd
  <2>5. CASE Cut(t)
    <3>1. /\ UNCHANGED <<overlay, reg, shown, base, astray, open, enabled>>
          /\ enabled \subseteq open /\ live \subseteq open
        BY <2>5 DEF Cut, form, FieldInv, Connected
    <3>2. PICK kept \in SUBSET up[t] : End(t, kept)  BY <2>5 DEF Cut
    <3> QED BY <3>1, <3>2, FieldEnd
  <2>6. CASE Connect(t)  BY <2>6, FieldConnect
  <2>7. CASE Edit(t)  BY <2>7, FieldEdit
  <2>8. CASE Type(t) \/ AnswerTextSync(t) \/ HandleUpdate(t) \/ HearTextSync(t)  BY <1>1, <2>8, FieldText
  <2>9. CASE AnswerSync(t)  BY <2>9, FieldAnswerSync
  <2>10. CASE HandleOp(t)  BY <1>1, <2>10, FieldHandleOp
  <2>11. CASE HearSnapshot(t)  BY <1>1, <2>11, FieldHearSnapshot
  <2>12. CASE Broadcast(t)
    <3>1. ASSUME NEW m, HearOp(t, m) PROVE FieldInv'  BY <1>1, <3>1, FieldHearOp
    <3>2. ASSUME NEW m, HearUpdate(t, m) PROVE FieldInv'  BY <1>1, <3>2, FieldText
    <3>3. ASSUME NEW m, HearReset(t, m) \/ HearSaved(t, m) PROVE FieldInv'  BY <1>1, <3>3, FieldTold
    <3> QED BY <2>12, <3>1, <3>2, <3>3 DEF Broadcast
  <2> QED BY <1>3, <2>1, <2>2, <2>3, <2>4, <2>5, <2>6, <2>7, <2>8, <2>9, <2>10, <2>11, <2>12
        DEF Settle, People, Answer, Receive
<1>4. CASE \E u \in Users : Forget(u)  BY <1>1, <1>4, FieldSaves
<1>5. CASE (\E u \in Users : Drop(u)) \/ Saved  BY <1>1, <1>5, FieldObject
<1> QED BY <1>1, <1>2, <1>3, <1>4, <1>5 DEF SyncNext

(* Whatever connections break, whichever messages are lost or overtake each *)
(* other and however the clocks differ, once all has arrived every          *)
(* connected editor who was not led astray has the newest edit of every     *)
(* other, keeps none the object has dropped, and shows what it has          *)
(* (page-sync.ts, handleDisconnect; editor-sync.js, sendOp and onmessage).  *)
THEOREM EditorsConverge == SyncSpec => []FieldsConverge
<1> DEFINE Inv == Typed /\ FieldInv
<1>1. SyncInit => Inv  BY TypedInit, FieldInit
<1>2. Inv /\ [SyncNext]_syncVars => Inv'  BY FieldNext
<1>3. Inv => FieldsConverge
  <2> SUFFICES ASSUME Typed, FieldInv PROVE FieldsConverge  OBVIOUS
  <2>1. live \subseteq Tabs /\ live \subseteq open  BY DEF Typed, Sets, FieldInv, Connected
  <2>2. SyncTypes  BY <2>1 DEF SyncTypes, Typed, Numbers, Sets, Texts, Stamps
  <2>3. ASSUME Quiet, NEW t \in live \ astray
        PROVE  /\ \A u \in Users : Owner[t] # u \/ TabsOf(u) = {t} => overlay[u] <= reg[t]
               /\ shown[t] = IF reg[t] = 0 THEN base[t] ELSE reg[t]
               /\ reg[t] <= Newest(overlay)
    <3>1. up[t] = {} /\ down[t] = <<>> /\ out = {}  BY <2>1, <2>3 DEF Quiet, Still
    <3>2. In(t) = {}  BY <2>1, <3>1, InIs DEF Typed
    <3>3. ~Told(t) /\ ~Announced(t) /\ ~Asking(t) /\ Sync \notin up[t]  BY <3>1, <3>2 DEF Told, Announced, Asking
    <3>4. \A u \in Users : ~Answered(t, u) /\ ~Passed(t, u)  BY <3>1, <3>2 DEF Answered, Passed
    <3>5. reg[t] <= Newest(overlay)  BY <3>3 DEF FieldInv, Above
    <3>6. shown[t] = IF reg[t] = 0 THEN base[t] ELSE reg[t]  BY <2>1 DEF FieldInv, Shows
    <3>7. ASSUME NEW u \in Users, Owner[t] # u PROVE overlay[u] <= reg[t]
        BY <3>3, <3>4, <3>7 DEF FieldInv, Reached
    <3>8. ASSUME NEW u \in Users, Owner[t] = u, TabsOf(u) = {t} PROVE overlay[u] <= reg[t]
        BY <2>1, <3>8 DEF FieldInv, Alone
    <3> QED BY <3>5, <3>6, <3>7, <3>8
  <2> QED BY <2>2, <2>3 DEF FieldsConverge, EditsArrive
<1> QED BY <1>1, <1>2, <1>3, PTL DEF SyncSpec

-----------------------------------------------------------------------------
(* The text.  What a replica has been told: pieces, and which are deleted.  *)
Parts(d) == ({"ins"} \X d.ins) \cup ({"del"} \X d.del)

LEMMA PartsMerge ==
    ASSUME NEW d, NEW e
    PROVE  Parts(Merge(d, e)) = Parts(d) \cup Parts(e) /\ Bases(Merge(d, e)) = Bases(d) \cup Bases(e)
BY DEF Parts, Bases, Merge

LEMMA PartsEqual == ASSUME NEW d \in Docs, NEW e \in Docs, Parts(d) = Parts(e) PROVE d = e
<1>1. \A x : <<"ins", x>> \in Parts(d) <=> x \in d.ins  BY DEF Parts
<1>2. \A x : <<"ins", x>> \in Parts(e) <=> x \in e.ins  BY DEF Parts
<1>3. \A x : <<"del", x>> \in Parts(d) <=> x \in d.del  BY DEF Parts
<1>4. \A x : <<"del", x>> \in Parts(e) <=> x \in e.del  BY DEF Parts
<1>5. d.ins = e.ins /\ d.del = e.del  BY <1>1, <1>2, <1>3, <1>4
<1> QED BY <1>5 DEF Docs

LEMMA PartsBases == ASSUME NEW d, NEW e, Parts(d) \subseteq Parts(e) PROVE Bases(d) \subseteq Bases(e)
<1>1. \A x : <<"ins", x>> \in Parts(d) <=> x \in d.ins  BY DEF Parts
<1>2. \A x : <<"ins", x>> \in Parts(e) <=> x \in e.ins  BY DEF Parts
<1> QED BY <1>1, <1>2 DEF Bases

LEMMA PartsBlank == Parts(Empty) = {} /\ Bases(Empty) = {} /\ Bases(NoText) = {}
BY DEF Parts, Bases, Empty, NoText

(* The object's text has one beginning; after a save it has none until the  *)
(* tabs that were told ask for one.                                         *)
ToldSaved(t) == \E b \in out : b[1] = t /\ b[2].type = "saved"
Began ==
    /\ text = NoText \/ \E b : Bases(text) = {b}
    /\ (\E b \in out : b[2].type = "saved") => text = NoText

(* No tab takes the page for empty, and each that has the object's text     *)
(* has its beginning.                                                       *)
Grounded ==
    /\ blank = {}
    /\ \A t \in Tabs : /\ \A m \in up[t] : m.type = "text-sync" => ~m.blank
                       /\ synced[t] => Bases(doc[t]) # {}
                       /\ ToldSaved(t) \/ dirty[t] => synced[t]

(* Updates on their way to the object are the sender's text and bring no    *)
(* other beginning; what comes from the object is its text.                 *)
Sound ==
    \A t \in Tabs :
        /\ \A m \in Updates(t) :
             text # NoText /\ Parts(m.change) \subseteq Parts(doc[t]) /\ Bases(m.change) \subseteq Bases(text)
        /\ \A b \in out : b[2].type = "text-update" =>
             text # NoText /\ Parts(b[2].change) \subseteq Parts(text)
        /\ \A m \in In(t) : m.type = "text-sync" =>
             text # NoText /\ Bases(m.doc) # {} /\ Parts(m.doc) \subseteq Parts(text)

(* What a tab has and the object lacks is under way, unless it was typed    *)
(* offline; then, and while the tab waits for a first text, an answer is    *)
(* due that has it sent.                                                    *)
Requested(t) == \E m \in up[t] : m.type = "text-sync"
Awaiting(t) == Requested(t) \/ \E m \in In(t) : m.type = "text-sync"
Sent(t) == UNION {Parts(m.change) : m \in Updates(t)}
Kept ==
    \A t \in open : ~ToldSaved(t) =>
        /\ synced[t] => text # NoText
        /\ text = NoText => doc[t] = Empty
        /\ Bases(doc[t]) \subseteq Bases(text)
        /\ ~dirty[t] => Parts(doc[t]) \subseteq Parts(text) \cup Sent(t)
        /\ t \in live /\ (dirty[t] \/ ~synced[t]) => Awaiting(t)

(* What the object has a connected tab has, or is about to be told.         *)
Promised(t, x) == \E m \in In(t) : m.type = "text-sync" /\ x \in Parts(m.doc)
Spreading(t, x) == \E b \in out : b[1] = t /\ b[2].type = "text-update" /\ x \in Parts(b[2].change)
Spread ==
    \A t \in live : ~ToldSaved(t) /\ text # NoText =>
        \A x \in Parts(text) : x \in Parts(doc[t]) \/ Requested(t) \/ Promised(t, x) \/ Spreading(t, x)

TextInv == rich => Began /\ Grounded /\ Sound /\ Kept /\ Spread

LEMMA TextInit == SyncInit => TextInv
<1> SUFFICES ASSUME SyncInit PROVE TextInv  OBVIOUS
<1> USE DEF SyncInit
<1>1. \A t \in Tabs : In(t) = {} /\ ~ToldSaved(t)  BY DEF In, Range, ToldSaved
<1>2. Began  BY DEF Began
<1>3. Grounded  BY <1>1 DEF Grounded
<1>4. Sound  BY <1>1 DEF Sound, Updates
<1>5. Kept /\ Spread  BY DEF Kept, Spread
<1> QED BY <1>2, <1>3, <1>4, <1>5 DEF TextInv

LEMMA CalmText == ASSUME ~Turning PROVE \A t : ~ToldSaved(t)
BY DEF Turning, ToldSaved

(* A step that leaves the text alone: it moves edits of the field, or       *)
(* nothing.                                                                 *)
LEMMA TextAside ==
    ASSUME Typed, Typed', TextInv,
           UNCHANGED <<rich, text, doc, synced, dirty, blank, open, live>>,
           \A o \in Tabs : \A m \in ToObject : m.type \in {"text-sync", "text-update"} => (m \in up'[o] <=> m \in up[o]),
           \A o \in Tabs : \A m \in ToTab : m.type = "text-sync" => (m \in In(o)' <=> m \in In(o)),
           \A b \in Tabs \X ToTabs : b[2].type \in {"text-update", "saved"} => (b \in out' <=> b \in out)
    PROVE  TextInv'
<1> SUFFICES ASSUME rich PROVE (Began /\ Grounded /\ Sound /\ Kept /\ Spread)'  BY DEF TextInv
<1> USE DEF TextInv
<1>1. \A o \in Tabs : /\ up'[o] \subseteq ToObject /\ up[o] \subseteq ToObject
                      /\ In(o)' \subseteq ToTab /\ In(o) \subseteq ToTab
  <2>1. Wires /\ Wires'  BY DEF Typed
  <2>2. \A o \in Tabs : In(o)' \subseteq ToTab  BY <2>1 DEF Wires, In, Range
  <2> QED BY <2>1, <2>2, InIs DEF Wires
<1>2. out \subseteq Tabs \X ToTabs /\ out' \subseteq Tabs \X ToTabs /\ live \subseteq Tabs /\ open \subseteq Tabs
    BY DEF Typed, Wires, Sets
<1>3. \A o : ToldSaved(o)' <=> ToldSaved(o)  BY <1>2 DEF ToldSaved
<1>4. \A o \in Tabs : Updates(o)' = Updates(o) /\ (Requested(o)' <=> Requested(o))
    BY <1>1 DEF Updates, Requested
<1>5. \A o \in Tabs : Sent(o)' = Sent(o)  BY <1>4 DEF Sent
<1>6. \A o \in Tabs : Awaiting(o)' <=> Awaiting(o)  BY <1>1, <1>4 DEF Awaiting
<1>7. Began'  BY <1>2 DEF Began
<1>8. Grounded'  BY <1>1, <1>3 DEF Grounded
<1>9. Sound'  BY <1>1, <1>2, <1>4 DEF Sound
<1>10. Kept'  BY <1>2, <1>3, <1>5, <1>6 DEF Kept
<1>11. Spread'
  <2>1. \A o \in Tabs : \A x : (Promised(o, x) <=> Promised(o, x)') /\ (Spreading(o, x) <=> Spreading(o, x)')
      BY <1>1, <1>2 DEF Promised, Spreading
  <2> QED BY <1>2, <1>3, <1>4, <2>1 DEF Spread
<1> QED BY <1>7, <1>8, <1>9, <1>10, <1>11

LEMMA TextLoad ==
    ASSUME Typed, TextInv, Connected, ~Turning, NEW t \in Tabs, Load(t), up[t] = {}
    PROVE  TextInv'
<1>1. /\ t \notin open /\ open' = open \cup {t}
      /\ doc' = [doc EXCEPT ![t] = Empty] /\ synced' = [synced EXCEPT ![t] = FALSE]
      /\ dirty' = [dirty EXCEPT ![t] = FALSE] /\ blank' = blank \ {t}
      /\ UNCHANGED <<rich, text, live, up, down, out>>
    BY DEF Load, object, wire
<1> SUFFICES ASSUME rich PROVE (Began /\ Grounded /\ Sound /\ Kept /\ Spread)'  BY <1>1 DEF TextInv
<1> USE DEF TextInv
<1>2. /\ doc'[t] = Empty /\ ~synced'[t] /\ ~dirty'[t]
      /\ \A o \in Tabs : o # t => doc'[o] = doc[o] /\ synced'[o] = synced[o] /\ dirty'[o] = dirty[o]
    BY <1>1 DEF Typed, Texts
<1>3. \A o : ~ToldSaved(o) /\ ~ToldSaved(o)'  BY <1>1, CalmText DEF ToldSaved
<1>4. \A o \in Tabs : /\ In(o)' = In(o) /\ Updates(o)' = Updates(o) /\ (Requested(o)' <=> Requested(o))
                      /\ Sent(o)' = Sent(o) /\ (Awaiting(o)' <=> Awaiting(o))
    BY <1>1 DEF In, Updates, Requested, Sent, Awaiting
<1>5. t \notin live /\ live \subseteq Tabs /\ open \subseteq Tabs  BY <1>1 DEF Connected, Typed, Sets
<1>6. Updates(t) = {}  BY DEF Updates
<1>7. Began'  BY <1>1 DEF Began
<1>8. Grounded'  BY <1>1, <1>2, <1>3 DEF Grounded
<1>9. Sound'  BY <1>1, <1>2, <1>4, <1>6 DEF Sound
<1>10. Kept'  BY <1>1, <1>2, <1>3, <1>4, <1>5, PartsBlank DEF Kept
<1>11. Spread'  BY <1>1, <1>2, <1>3, <1>4, <1>5 DEF Spread, Promised, Spreading
<1> QED BY <1>7, <1>8, <1>9, <1>10, <1>11

LEMMA TextEnd ==
    ASSUME Typed, TextInv, ~Turning, NEW t \in Tabs, NEW kept \in SUBSET up[t], End(t, kept),
           UNCHANGED <<rich, text, doc, synced, dirty, blank>>, open' \subseteq open, Updates(t) \subseteq up'[t]
    PROVE  TextInv'
<1>1. /\ live' = live \ {t}
      /\ \A o \in Tabs : /\ up'[o] = IF o = t THEN {m \in kept : m.type \notin Asks} ELSE up[o]
                         /\ In(o)' = IF o = t THEN {} ELSE In(o)
      /\ out' \subseteq out /\ \A b \in out : b \in out' <=> b[1] # t
  <2>1. Wires /\ Sets  BY DEF Typed
  <2>2. /\ live' = live \ {t} /\ stale \subseteq stale' /\ (t \in live => t \in stale')
        /\ \A o \in Tabs : /\ up'[o] = IF o = t THEN {m \in kept : m.type \notin Asks} ELSE up[o]
                           /\ down'[o] = IF o = t THEN <<>> ELSE down[o]
                           /\ In(o)' = IF o = t THEN {} ELSE In(o)
        /\ out' \subseteq out /\ \A b \in out : b \in out' <=> b[1] # t
    BY <2>1, EndIs
  <2> QED BY <2>2
<1> SUFFICES ASSUME rich PROVE (Began /\ Grounded /\ Sound /\ Kept /\ Spread)'  BY DEF TextInv
<1> USE DEF TextInv
<1>2. live \subseteq Tabs /\ open \subseteq Tabs  BY DEF Typed, Sets
<1>3. \A o : ~ToldSaved(o) /\ ~ToldSaved(o)'  BY <1>1, CalmText DEF ToldSaved
<1>4. \A o \in Tabs : up'[o] \subseteq up[o]  BY <1>1
<1>5. \A o \in Tabs : Updates(o)' = Updates(o) /\ Sent(o)' = Sent(o)
  <2>1. \A o \in Tabs : Updates(o) \subseteq up'[o]  BY <1>1 DEF Updates
  <2>2. \A o \in Tabs : Updates(o)' = Updates(o)  BY <1>4, <2>1 DEF Updates
  <2> QED BY <2>2 DEF Sent
<1>6. \A o \in live' : /\ o # t /\ o \in live /\ (Requested(o) => Requested(o)') /\ (Awaiting(o) => Awaiting(o)')
    BY <1>1, <1>2 DEF Requested, Awaiting
<1>7. Began'  BY <1>1 DEF Began
<1>8. Grounded'  BY <1>3, <1>4 DEF Grounded
<1>9. Sound'
  <2>1. \A o \in Tabs : In(o)' \subseteq In(o)  BY <1>1
  <2> QED BY <1>1, <1>5, <2>1 DEF Sound
<1>10. Kept'  BY <1>2, <1>3, <1>5, <1>6 DEF Kept
<1>11. Spread'
  <2>1. \A o \in live' : \A x : (Promised(o, x) => Promised(o, x)') /\ (Spreading(o, x) => Spreading(o, x)')
      BY <1>1, <1>2, <1>6 DEF Promised, Spreading
  <2> QED BY <1>3, <1>6, <2>1 DEF Spread
<1> QED BY <1>7, <1>8, <1>9, <1>10, <1>11

LEMMA TextConnect ==
    ASSUME Typed, TextInv, Connected, ~Turning, NEW t \in Tabs, Connect(t)
    PROVE  TextInv'
<1> DEFINE ms == {Sync} \cup (IF rich THEN {TextSync(t)} ELSE {})
<1>1. /\ live' = live \cup {t} /\ Send(t, ms) /\ t \in open
      /\ UNCHANGED <<rich, text, open, doc, synced, dirty, blank, down, out>>
    BY DEF Connect, object, copy, Connected
<1> SUFFICES ASSUME rich PROVE (Began /\ Grounded /\ Sound /\ Kept /\ Spread)'  BY <1>1 DEF TextInv
<1> USE DEF TextInv
<1>2. \A o \in Tabs : up'[o] = IF o = t THEN up[t] \cup ms ELSE up[o]
  <2>1. ms \in SUBSET ToObject /\ Wires  BY MessagesTyped, TextSyncTyped DEF Typed
  <2> HIDE DEF ms
  <2> QED BY <1>1, <2>1, SendIs
<1>3. /\ \A m \in ms : m.type \in Asks /\ (m.type = "text-sync" => ~m.blank)
      /\ \E m \in ms : m.type = "text-sync"
  <2>1. t \notin blank'  BY <1>1 DEF Grounded
  <2>2. TextSync(t).type = "text-sync" /\ ~TextSync(t).blank  BY <2>1 DEF TextSync
  <2>3. ms = {Sync, TextSync(t)}  OBVIOUS
  <2> HIDE DEF ms
  <2>4. Sync.type = "sync"  BY DEF Sync
  <2> QED BY <2>2, <2>3, <2>4 DEF Asks
<1> HIDE DEF ms
<1>4. live \subseteq Tabs /\ open \subseteq Tabs  BY DEF Typed, Sets
<1>5. \A o : ~ToldSaved(o) /\ ~ToldSaved(o)'  BY <1>1, CalmText DEF ToldSaved
<1>6. \A o \in Tabs : /\ In(o)' = In(o) /\ Updates(o)' = Updates(o) /\ (Requested(o) => Requested(o)')
    BY <1>1, <1>2, <1>3 DEF In, Updates, Requested, Asks
<1>7. Requested(t)'  BY <1>2, <1>3 DEF Requested
<1>8. \A o \in Tabs : Sent(o)' = Sent(o) /\ (Awaiting(o) => Awaiting(o)')  BY <1>6 DEF Sent, Awaiting
<1>9. Began'  BY <1>1 DEF Began
<1>10. Grounded'  BY <1>1, <1>2, <1>3, <1>5 DEF Grounded
<1>11. Sound'  BY <1>1, <1>6 DEF Sound
<1>12. Kept'
  <2>1. Awaiting(t)'  BY <1>7 DEF Awaiting
  <2> QED BY <1>1, <1>4, <1>5, <1>8, <2>1 DEF Kept
<1>13. Spread'
  <2>1. \A o \in Tabs : \A x : (Promised(o, x) => Promised(o, x)') /\ (Spreading(o, x) => Spreading(o, x)')
      BY <1>1, <1>6 DEF Promised, Spreading
  <2> QED BY <1>1, <1>4, <1>5, <1>6, <1>7, <2>1 DEF Spread
<1> QED BY <1>9, <1>10, <1>11, <1>12, <1>13

LEMMA TextType ==
    ASSUME Typed, Typed', TextInv, Connected, ~Turning, NEW t \in Tabs, Type(t), synced[t]
    PROVE  TextInv'
<1>1. /\ rich /\ t \in open
      /\ UNCHANGED <<rich, text, open, live, blank, down, out, synced>>
    BY DEF Type, object
<1>2. PICK gone \in {{}} \cup {{p} : p \in doc[t].ins \ doc[t].del} :
        LET change == [ins |-> {Piece(t)}, del |-> gone]
        IN  /\ doc' = [doc EXCEPT ![t] = Merge(@, change)]
            /\ IF t \in live THEN Send(t, {Update(change)}) /\ UNCHANGED dirty
                             ELSE dirty' = [dirty EXCEPT ![t] = TRUE] /\ UNCHANGED up
    BY DEF Type
<1> DEFINE change == [ins |-> {Piece(t)}, del |-> gone]
<1>3. /\ doc' = [doc EXCEPT ![t] = Merge(@, change)]
      /\ IF t \in live THEN Send(t, {Update(change)}) /\ UNCHANGED dirty
                       ELSE dirty' = [dirty EXCEPT ![t] = TRUE] /\ UNCHANGED up
    BY <1>2
<1>4. Bases(change) = {}
  <2>1. Piece(t)[1] # "base"  BY PageSyncAssumption DEF Piece, PageSyncAssumption
  <2> QED BY <2>1 DEF Bases
<1> HIDE DEF change
<1> USE DEF TextInv
<1>5. /\ \A o \in Tabs : o # t => doc'[o] = doc[o] /\ up'[o] = up[o] /\ dirty'[o] = dirty[o]
      /\ Parts(doc'[t]) = Parts(doc[t]) \cup Parts(change) /\ Bases(doc'[t]) = Bases(doc[t])
      /\ up[t] \subseteq up'[t]
      /\ t \in live => dirty'[t] = dirty[t]
      /\ t \notin live => dirty'[t]
  <2>1. doc'[t] = Merge(doc[t], change)  BY <1>3 DEF Typed, Texts
  <2>2. Parts(doc'[t]) = Parts(doc[t]) \cup Parts(change) /\ Bases(doc'[t]) = Bases(doc[t])
      BY <1>4, <2>1, PartsMerge
  <2> QED BY <1>3, <2>2 DEF Typed, Texts, Wires, Send
<1>6. /\ \A m \in up'[t] : m \in up[t] \/ (t \in live /\ m.type = "text-update" /\ m.change = change)
      /\ t \in live => Update(change) \in up'[t] /\ Update(change).type = "text-update" /\ Update(change).change = change
    BY <1>3 DEF Typed, Wires, Send, Update
<1>7. live \subseteq Tabs /\ open \subseteq Tabs  BY DEF Typed, Sets
<1>8. \A o : ~ToldSaved(o) /\ ~ToldSaved(o)'  BY <1>1, CalmText DEF ToldSaved
<1>9. \A o \in Tabs : In(o)' = In(o) /\ (Requested(o) <=> Requested(o)')
    BY <1>1, <1>5, <1>6 DEF In, Requested
<1>10. \A o \in Tabs : Awaiting(o) <=> Awaiting(o)'  BY <1>9 DEF Awaiting
<1>11. \A o \in Tabs : /\ Updates(o) \subseteq Updates(o)' /\ (o # t => Updates(o)' = Updates(o))
                       /\ \A m \in Updates(o)' : m \in Updates(o) \/ (o = t /\ m.change = change)
    BY <1>5, <1>6 DEF Updates
<1>12. \A o \in Tabs : Sent(o) \subseteq Sent(o)'  BY <1>11 DEF Sent
<1>13. t \in live => Parts(change) \subseteq Sent(t)'
  <2>1. t \in live => Update(change) \in Updates(t)'  BY <1>6 DEF Updates
  <2> QED BY <1>6, <2>1 DEF Sent
<1>14. text # NoText  BY <1>1, <1>8 DEF Kept
<1>15. Began'  BY <1>1 DEF Began
<1>16. Grounded'
  <2>1. \A o \in Tabs : synced'[o] => Bases(doc'[o]) # {}  BY <1>1, <1>5 DEF Grounded
  <2>2. \A o \in Tabs : \A m \in up'[o] : m.type = "text-sync" => ~m.blank  BY <1>1, <1>5, <1>6 DEF Grounded
  <2>3. \A o \in Tabs : dirty'[o] => synced'[o]  BY <1>1, <1>5 DEF Grounded
  <2> QED BY <1>1, <1>8, <2>1, <2>2, <2>3 DEF Grounded
<1>17. Sound'
  <2>1. ASSUME NEW o \in Tabs, NEW m \in Updates(o)'
        PROVE  Parts(m.change) \subseteq Parts(doc'[o]) /\ Bases(m.change) \subseteq Bases(text)
    <3>1. CASE m \in Updates(o)  BY <1>1, <1>5, <3>1 DEF Sound
    <3>2. CASE o = t /\ m.change = change  BY <1>4, <1>5, <3>2
    <3> QED BY <1>11, <2>1, <3>1, <3>2
  <2> QED BY <1>1, <1>9, <1>14, <2>1 DEF Sound
<1>18. Kept'
  <2> SUFFICES ASSUME NEW o \in open
               PROVE  /\ synced[o] => text # NoText
                      /\ text = NoText => doc'[o] = Empty
                      /\ Bases(doc'[o]) \subseteq Bases(text)
                      /\ ~dirty'[o] => Parts(doc'[o]) \subseteq Parts(text) \cup Sent(o)'
                      /\ o \in live /\ (dirty'[o] \/ ~synced[o]) => Awaiting(o)'
      BY <1>1 DEF Kept
  <2>1. /\ Bases(doc[o]) \subseteq Bases(text)
        /\ ~dirty[o] => Parts(doc[o]) \subseteq Parts(text) \cup Sent(o)
        /\ o \in live /\ (dirty[o] \/ ~synced[o]) => Awaiting(o)
      BY <1>1, <1>8 DEF Kept
  <2>2. CASE o = t  BY <1>5, <1>7, <1>10, <1>12, <1>13, <1>14, <2>1, <2>2
  <2>3. CASE o # t  BY <1>5, <1>7, <1>10, <1>12, <1>14, <2>1, <2>3
  <2> QED BY <2>2, <2>3
<1>19. Spread'
  <2>1. \A o \in Tabs : \A x : /\ (Promised(o, x) => Promised(o, x)') /\ (Spreading(o, x) => Spreading(o, x)')
                               /\ (x \in Parts(doc[o]) => x \in Parts(doc'[o]))
      BY <1>1, <1>5, <1>9 DEF Promised, Spreading
  <2> QED BY <1>1, <1>7, <1>8, <1>9, <2>1 DEF Spread
<1> QED BY <1>1, <1>15, <1>16, <1>17, <1>18, <1>19

LEMMA TextAnswer ==
    ASSUME Typed, Typed', TextInv, Connected, ~Turning, NEW t \in Tabs, AnswerTextSync(t)
    PROVE  TextInv'
<1>1. UNCHANGED <<rich, open, live, doc, synced, dirty, blank, out>>  BY DEF AnswerTextSync, copy
<1> SUFFICES ASSUME rich PROVE (Began /\ Grounded /\ Sound /\ Kept /\ Spread)'  BY <1>1 DEF TextInv
<1> USE DEF TextInv
<1>2. PICK m \in up[t] : /\ m.type = "text-sync" /\ up' = [up EXCEPT ![t] = @ \ {m}]
                         /\ text' = Begun(text, Baseline(m))
    BY DEF AnswerTextSync
<1> DEFINE r == [type |-> "text-sync", doc |-> text']
<1>3. /\ \A o \in Tabs : up'[o] = IF o = t THEN up[t] \ {m} ELSE up[o]
      /\ \A o \in Tabs : In(o)' = IF o = t THEN In(t) \cup {r} ELSE In(o)
  <2>1. Wires /\ r \in ToTab  BY DEF Typed, Texts, ToTab
  <2>2. down' = [down EXCEPT ![t] = Append(@, r)]  BY DEF AnswerTextSync, Reply
  <2> HIDE DEF r
  <2> QED BY <1>2, <2>1, <2>2, HandledIs, ReplyIs
<1>4. r.type = "text-sync" /\ r.doc = text'  OBVIOUS
<1> HIDE DEF r
<1>5. live \subseteq Tabs /\ open \subseteq Tabs /\ live \subseteq open  BY DEF Typed, Sets, Connected
<1>6. \A o : ~ToldSaved(o) /\ ~ToldSaved(o)'  BY <1>1, CalmText DEF ToldSaved
<1>7. text' # NoText /\ \E b : Bases(text') = {b}
  <2>1. CASE text # NoText  BY <1>2, <2>1 DEF Begun, Began
  <2>2. CASE text = NoText
    <3>1. ~m.blank  BY <1>2 DEF Grounded
    <3>2. text' = [ins |-> {<<"base", pieces + 1>>}, del |-> {}]  BY <1>2, <2>2, <3>1 DEF Begun, Baseline
    <3>3. Bases(text') = {<<"base", pieces + 1>>}  BY <3>2 DEF Bases
    <3> QED BY <3>3, PartsBlank
  <2> QED BY <2>1, <2>2
<1>8. text # NoText => text' = text  BY <1>2 DEF Begun
<1>9. \A o \in Tabs : Updates(o)' = Updates(o) /\ Sent(o)' = Sent(o)
  <2>1. \A o \in Tabs : Updates(o)' = Updates(o)  BY <1>2, <1>3 DEF Updates
  <2> QED BY <2>1 DEF Sent
<1>10. Awaiting(t)' /\ \A o \in Tabs : o # t => (Requested(o) <=> Requested(o)') /\ (Awaiting(o) <=> Awaiting(o)')
    BY <1>3, <1>4 DEF Requested, Awaiting
<1>11. Began'
  <2>1. ~\E b \in out : b[2].type = "saved"  BY DEF Turning
  <2> QED BY <1>1, <1>7, <2>1 DEF Began
<1>12. Grounded'  BY <1>1, <1>3, <1>6 DEF Grounded
<1>13. Sound'
  <2>1. ASSUME NEW o \in Tabs, NEW x \in Updates(o)'
        PROVE  Parts(x.change) \subseteq Parts(doc[o]) /\ Bases(x.change) \subseteq Bases(text')
      BY <1>8, <1>9 DEF Sound
  <2>2. ASSUME NEW b \in out, b[2].type = "text-update" PROVE Parts(b[2].change) \subseteq Parts(text')
      BY <1>8, <2>2 DEF Sound
  <2>3. ASSUME NEW o \in Tabs, NEW x \in In(o)', x.type = "text-sync"
        PROVE  Bases(x.doc) # {} /\ Parts(x.doc) \subseteq Parts(text')
    <3>1. CASE x \in In(o)  BY <1>8, <2>3, <3>1 DEF Sound
    <3>2. CASE x = r  BY <1>4, <1>7, <3>2
    <3> QED BY <1>3, <2>3, <3>1, <3>2
  <2> QED BY <1>1, <1>7, <2>1, <2>2, <2>3 DEF Sound
<1>14. Kept'
  <2> SUFFICES ASSUME NEW o \in open
               PROVE  /\ Bases(doc[o]) \subseteq Bases(text')
                      /\ ~dirty[o] => Parts(doc[o]) \subseteq Parts(text') \cup Sent(o)
                      /\ o \in live /\ (dirty[o] \/ ~synced[o]) => Awaiting(o)'
      BY <1>1, <1>5, <1>7, <1>9 DEF Kept
  <2>1. /\ text = NoText => doc[o] = Empty
        /\ Bases(doc[o]) \subseteq Bases(text)
        /\ ~dirty[o] => Parts(doc[o]) \subseteq Parts(text) \cup Sent(o)
        /\ o \in live /\ (dirty[o] \/ ~synced[o]) => Awaiting(o)
      BY <1>6 DEF Kept
  <2>2. o \in live /\ (dirty[o] \/ ~synced[o]) => Awaiting(o)'  BY <1>5, <1>10, <2>1
  <2>3. CASE text = NoText  BY <2>1, <2>2, <2>3, PartsBlank
  <2>4. CASE text # NoText  BY <1>8, <2>1, <2>2, <2>4
  <2> QED BY <2>3, <2>4
<1>15. Spread'
  <2> SUFFICES ASSUME NEW o \in live, NEW x \in Parts(text')
               PROVE  x \in Parts(doc[o]) \/ Requested(o)' \/ Promised(o, x)' \/ Spreading(o, x)'
      BY <1>1 DEF Spread
  <2>1. CASE o = t
    <3>1. r \in In(t)' /\ x \in Parts(r.doc)  BY <1>3, <1>4
    <3> QED BY <1>4, <2>1, <3>1 DEF Promised
  <2>2. CASE o # t /\ text # NoText
    <3>1. x \in Parts(doc[o]) \/ Requested(o) \/ Promised(o, x) \/ Spreading(o, x)
        BY <1>6, <1>8, <2>2 DEF Spread
    <3>2. (Promised(o, x) => Promised(o, x)') /\ (Spreading(o, x) => Spreading(o, x)')
        BY <1>1, <1>3, <1>5, <2>2 DEF Promised, Spreading
    <3> QED BY <1>5, <1>10, <2>2, <3>1, <3>2
  <2>3. CASE o # t /\ text = NoText
    <3>1. Awaiting(o)  BY <1>5, <1>6, <2>3 DEF Kept
    <3>2. \A y \in In(o) : y.type # "text-sync"  BY <1>5, <2>3 DEF Sound
    <3>3. Requested(o)  BY <3>1, <3>2 DEF Awaiting
    <3> QED BY <1>5, <1>10, <2>3, <3>3
  <2> QED BY <2>1, <2>2, <2>3
<1> QED BY <1>11, <1>12, <1>13, <1>14, <1>15

LEMMA TextUpdate ==
    ASSUME Typed, Typed', TextInv, Connected, ~Turning, NEW t \in Tabs, HandleUpdate(t)
    PROVE  TextInv'
<1>1. UNCHANGED <<rich, open, live, doc, synced, dirty, blank, down>>  BY DEF HandleUpdate, copy
<1> SUFFICES ASSUME rich PROVE (Began /\ Grounded /\ Sound /\ Kept /\ Spread)'  BY <1>1 DEF TextInv
<1> USE DEF TextInv
<1>2. PICK m \in up[t] : /\ m.type = "text-update" /\ up' = [up EXCEPT ![t] = @ \ {m}]
                         /\ text' = Merge(Begun(text, Empty), m.change)
                         /\ out' = out \cup {<<o, m>> : o \in live \ {t}}
    BY DEF HandleUpdate, ToOthers
<1>3. \A o \in Tabs : up'[o] = IF o = t THEN up[t] \ {m} ELSE up[o]
    BY <1>2, HandledIs DEF Typed
<1>4. text # NoText /\ Parts(m.change) \subseteq Parts(doc[t]) /\ Bases(m.change) \subseteq Bases(text)
    BY <1>2 DEF Sound, Updates
<1>5. Parts(text') = Parts(text) \cup Parts(m.change) /\ Bases(text') = Bases(text)
  <2>1. text' = Merge(text, m.change)  BY <1>2, <1>4 DEF Begun
  <2>2. Parts(text') = Parts(text) \cup Parts(m.change) /\ Bases(text') = Bases(text) \cup Bases(m.change)
      BY <2>1, PartsMerge
  <2> QED BY <1>4, <2>2
<1>6. text' # NoText /\ \E b : Bases(text') = {b}  BY <1>4, <1>5, PartsBlank DEF Began
<1>7. live \subseteq Tabs /\ open \subseteq Tabs  BY DEF Typed, Sets
<1>8. \A b \in out' : b \in out \/ (b[1] \in live \ {t} /\ b[2] = m)  BY <1>2
<1>9. \A o : ~ToldSaved(o) /\ ~ToldSaved(o)'
  <2>1. \A o : ~ToldSaved(o)  BY CalmText
  <2> QED BY <1>2, <1>8, <2>1 DEF ToldSaved
<1>10. \A o \in Tabs : /\ In(o)' = In(o) /\ Updates(o)' \subseteq Updates(o)
                       /\ (Requested(o) => Requested(o)') /\ (Awaiting(o) => Awaiting(o)')
                       /\ Updates(o) \subseteq Updates(o)' \cup {m}
    BY <1>1, <1>2, <1>3 DEF In, Updates, Requested, Awaiting
<1>11. \A o \in Tabs : Sent(o) \subseteq Sent(o)' \cup Parts(m.change)  BY <1>10 DEF Sent
<1>12. Began'
  <2>1. \A b \in out' : b[2].type # "saved"  BY <1>2, <1>8 DEF Turning
  <2> QED BY <1>6, <2>1 DEF Began
<1>13. Grounded'  BY <1>1, <1>3, <1>9 DEF Grounded
<1>14. Sound'
  <2>1. ASSUME NEW o \in Tabs, NEW x \in Updates(o)'
        PROVE  Parts(x.change) \subseteq Parts(doc[o]) /\ Bases(x.change) \subseteq Bases(text')
      BY <1>5, <1>10 DEF Sound
  <2>2. ASSUME NEW b \in out', b[2].type = "text-update" PROVE Parts(b[2].change) \subseteq Parts(text')
    <3>1. CASE b \in out
      <4>1. Parts(b[2].change) \subseteq Parts(text)  BY <2>2, <3>1 DEF Sound
      <4> QED BY <1>5, <4>1
    <3>2. CASE b[2] = m  BY <1>5, <3>2
    <3> QED BY <1>8, <3>1, <3>2
  <2>3. ASSUME NEW o \in Tabs, NEW x \in In(o)', x.type = "text-sync"
        PROVE  Bases(x.doc) # {} /\ Parts(x.doc) \subseteq Parts(text')
    <3>1. Bases(x.doc) # {} /\ Parts(x.doc) \subseteq Parts(text)  BY <1>10, <2>3 DEF Sound
    <3> QED BY <1>5, <3>1
  <2> QED BY <1>1, <1>6, <2>1, <2>2, <2>3 DEF Sound
<1>15. Kept'
  <2> SUFFICES ASSUME NEW o \in open
               PROVE  /\ Bases(doc[o]) \subseteq Bases(text')
                      /\ ~dirty[o] => Parts(doc[o]) \subseteq Parts(text') \cup Sent(o)'
                      /\ o \in live /\ (dirty[o] \/ ~synced[o]) => Awaiting(o)'
      BY <1>1, <1>6 DEF Kept
  <2>1. /\ Bases(doc[o]) \subseteq Bases(text)
        /\ ~dirty[o] => Parts(doc[o]) \subseteq Parts(text) \cup Sent(o)
        /\ o \in live /\ (dirty[o] \/ ~synced[o]) => Awaiting(o)
      BY <1>9 DEF Kept
  <2>2. Sent(o) \subseteq Sent(o)' \cup Parts(m.change) /\ (Awaiting(o) => Awaiting(o)')  BY <1>7, <1>10, <1>11
  <2> QED BY <1>5, <2>1, <2>2
<1>16. Spread'
  <2> SUFFICES ASSUME NEW o \in live, NEW x \in Parts(text')
               PROVE  x \in Parts(doc[o]) \/ Requested(o)' \/ Promised(o, x)' \/ Spreading(o, x)'
      BY <1>1 DEF Spread
  <2>1. CASE x \in Parts(text)
    <3>1. x \in Parts(doc[o]) \/ Requested(o) \/ Promised(o, x) \/ Spreading(o, x)
        BY <1>4, <1>9, <2>1 DEF Spread
    <3>2. (Promised(o, x) => Promised(o, x)') /\ (Spreading(o, x) => Spreading(o, x)')
        BY <1>2, <1>7, <1>10 DEF Promised, Spreading
    <3> QED BY <1>7, <1>10, <3>1, <3>2
  <2>2. CASE x \in Parts(m.change) /\ o = t  BY <1>4, <2>2
  <2>3. CASE x \in Parts(m.change) /\ o # t
    <3>1. <<o, m>> \in out' /\ <<o, m>>[1] = o /\ <<o, m>>[2] = m  BY <1>2, <2>3
    <3> QED BY <1>2, <2>3, <3>1 DEF Spreading
  <2> QED BY <1>5, <2>1, <2>2, <2>3
<1> QED BY <1>12, <1>13, <1>14, <1>15, <1>16

LEMMA TextHear ==
    ASSUME Typed, Typed', TextInv, Connected, ~Turning, NEW t \in Tabs, HearTextSync(t)
    PROVE  TextInv'
<1> DEFINE h == Head(down[t])
           merged == Merge(doc[t], h.doc)
           first == ~synced[t] /\ typed[t]
           change == [ins |-> {Piece(t)}, del |-> {p \in merged.ins \ merged.del : p[1] # "base"}]
           now == IF first THEN Merge(merged, change) ELSE merged
           ms == (IF first THEN {Update(change)} ELSE {}) \cup SentAgain(t, now)
<1>1. /\ UNCHANGED <<rich, text, open, live, blank, out>>
      /\ down[t] # <<>> /\ h.type = "text-sync" /\ down' = [down EXCEPT ![t] = Tail(@)]
    BY DEF HearTextSync, object
<1>2. doc' = [doc EXCEPT ![t] = now] /\ synced' = [synced EXCEPT ![t] = TRUE] /\ Send(t, ms)
      /\ dirty' = [dirty EXCEPT ![t] = FALSE]
    BY DEF HearTextSync
<1> SUFFICES ASSUME rich PROVE (Began /\ Grounded /\ Sound /\ Kept /\ Spread)'  BY <1>1 DEF TextInv
<1> USE DEF TextInv
<1>3. Bases(change) = {}
  <2>1. Piece(t)[1] # "base"  BY PageSyncAssumption DEF Piece, PageSyncAssumption
  <2> QED BY <2>1 DEF Bases
<1>4. Parts(merged) = Parts(doc[t]) \cup Parts(h.doc) /\ Bases(merged) = Bases(doc[t]) \cup Bases(h.doc)
    BY PartsMerge
<1>5. /\ \A m \in ms : m.type = "text-update" /\ m.change \in {change, now} /\ (m.change = change => first \/ m.change = now)
      /\ first => Update(change) \in ms
      /\ dirty[t] => Update(now) \in ms
  <2> HIDE DEF change, now, first
  <2> QED BY DEF Update, SentAgain
<1> HIDE DEF ms, change, merged, h
<1>6. /\ Parts(now) = Parts(doc[t]) \cup Parts(h.doc) \cup (IF first THEN Parts(change) ELSE {})
      /\ Bases(now) = Bases(doc[t]) \cup Bases(h.doc)
    BY <1>3, <1>4, PartsMerge
<1> HIDE DEF now, first
<1>7. /\ \A o \in Tabs : up'[o] = IF o = t THEN up[t] \cup ms ELSE up[o]
      /\ \A o \in Tabs : o # t => doc'[o] = doc[o] /\ synced'[o] = synced[o] /\ dirty'[o] = dirty[o]
      /\ doc'[t] = now /\ synced'[t] /\ ~dirty'[t]
    BY <1>2 DEF Typed, Texts, Wires, Send
<1>8. /\ \A o \in Tabs : o # t => In(o)' = In(o)
      /\ In(t) = In(t)' \cup {h}
    BY <1>1, HeardIs DEF Typed, h
<1>9. live \subseteq Tabs /\ open \subseteq Tabs /\ t \in live /\ t \in open
    BY <1>1 DEF Typed, Sets, Connected
<1>10. \A o : ~ToldSaved(o) /\ ~ToldSaved(o)'  BY <1>1, CalmText DEF ToldSaved
<1>11. text # NoText /\ Bases(h.doc) # {} /\ Parts(h.doc) \subseteq Parts(text) /\ Bases(h.doc) \subseteq Bases(text)
  <2>1. text # NoText /\ Bases(h.doc) # {} /\ Parts(h.doc) \subseteq Parts(text)  BY <1>1, <1>8 DEF Sound
  <2> QED BY <2>1, PartsBases
<1>12. \A o \in Tabs : Requested(o) <=> Requested(o)'  BY <1>5, <1>7 DEF Requested
<1>13. /\ \A o \in Tabs : Updates(o) \subseteq Updates(o)' /\ (o # t => Updates(o)' = Updates(o))
       /\ Updates(t)' = Updates(t) \cup ms
    BY <1>5, <1>7 DEF Updates
<1>14. /\ \A o \in Tabs : Sent(o) \subseteq Sent(o)'
       /\ first => Parts(change) \subseteq Sent(t)'
       /\ dirty[t] => Parts(now) \subseteq Sent(t)'
  <2>1. Update(change).change = change /\ Update(now).change = now  BY DEF Update
  <2> QED BY <1>5, <1>13, <2>1 DEF Sent
<1>15. Began'  BY <1>1 DEF Began
<1>16. Grounded'
  <2>1. \A o \in Tabs : synced'[o] => Bases(doc'[o]) # {}  BY <1>6, <1>7, <1>11 DEF Grounded
  <2>2. \A o \in Tabs : \A m \in up'[o] : m.type = "text-sync" => ~m.blank  BY <1>5, <1>7 DEF Grounded
  <2>3. \A o \in Tabs : dirty'[o] => synced'[o]  BY <1>7 DEF Grounded
  <2> QED BY <1>1, <1>10, <2>1, <2>2, <2>3 DEF Grounded
<1>17. Bases(now) \subseteq Bases(text)  BY <1>6, <1>9, <1>10, <1>11 DEF Kept
<1>18. Sound'
  <2>1. ASSUME NEW o \in Tabs, NEW m \in Updates(o)'
        PROVE  Parts(m.change) \subseteq Parts(doc'[o]) /\ Bases(m.change) \subseteq Bases(text)
    <3>1. CASE m \in Updates(o) /\ o # t  BY <1>7, <3>1 DEF Sound
    <3>2. CASE m \in Updates(o) /\ o = t
      <4>1. Parts(m.change) \subseteq Parts(doc[t]) /\ Bases(m.change) \subseteq Bases(text)  BY <3>2 DEF Sound
      <4> QED BY <1>6, <1>7, <3>2, <4>1
    <3>3. CASE m \in ms /\ o = t
      <4>1. CASE m.change = now  BY <1>7, <1>17, <3>3, <4>1
      <4>2. CASE m.change = change /\ first  BY <1>3, <1>6, <1>7, <3>3, <4>2
      <4> QED BY <1>5, <3>3, <4>1, <4>2
    <3> QED BY <1>13, <2>1, <3>1, <3>2, <3>3
  <2>2. \A o \in Tabs : In(o)' \subseteq In(o)  BY <1>8
  <2> QED BY <1>1, <1>11, <2>1, <2>2 DEF Sound
<1>19. Kept'
  <2> SUFFICES ASSUME NEW o \in open
               PROVE  /\ Bases(doc'[o]) \subseteq Bases(text)
                      /\ ~dirty'[o] => Parts(doc'[o]) \subseteq Parts(text) \cup Sent(o)'
                      /\ o \in live /\ (dirty'[o] \/ ~synced'[o]) => Awaiting(o)'
      BY <1>1, <1>11 DEF Kept
  <2>1. /\ Bases(doc[o]) \subseteq Bases(text)
        /\ ~dirty[o] => Parts(doc[o]) \subseteq Parts(text) \cup Sent(o)
        /\ o \in live /\ (dirty[o] \/ ~synced[o]) => Awaiting(o)
      BY <1>10 DEF Kept
  <2>2. CASE o = t
    <3>1. Parts(now) \subseteq Parts(text) \cup Sent(t)'
      <4>1. CASE dirty[t]  BY <1>14, <4>1
      <4>2. CASE ~dirty[t]  BY <1>6, <1>9, <1>11, <1>14, <2>1, <2>2, <4>2
      <4> QED BY <4>1, <4>2
    <3> QED BY <1>7, <1>17, <2>2, <3>1
  <2>3. CASE o # t
    <3>1. Awaiting(o) => Awaiting(o)'  BY <1>8, <1>9, <1>12, <2>3 DEF Awaiting
    <3> QED BY <1>7, <1>9, <1>14, <2>1, <2>3, <3>1
  <2> QED BY <2>2, <2>3
<1>20. Spread'
  <2> SUFFICES ASSUME NEW o \in live, NEW x \in Parts(text)
               PROVE  x \in Parts(doc'[o]) \/ Requested(o)' \/ Promised(o, x)' \/ Spreading(o, x)'
      BY <1>1 DEF Spread
  <2>1. x \in Parts(doc[o]) \/ Requested(o) \/ Promised(o, x) \/ Spreading(o, x)  BY <1>10, <1>11 DEF Spread
  <2>2. (Requested(o) => Requested(o)') /\ (Spreading(o, x) => Spreading(o, x)')
      BY <1>1, <1>9, <1>12 DEF Spreading
  <2>3. CASE o = t
    <3>1. Promised(t, x) => Promised(t, x)' \/ x \in Parts(h.doc)  BY <1>8 DEF Promised
    <3> QED BY <1>6, <1>7, <2>1, <2>2, <2>3, <3>1
  <2>4. CASE o # t
    <3>1. Promised(o, x) => Promised(o, x)'  BY <1>8, <1>9, <2>4 DEF Promised
    <3> QED BY <1>7, <1>9, <2>1, <2>2, <2>4, <3>1
  <2> QED BY <2>3, <2>4
<1> QED BY <1>15, <1>16, <1>18, <1>19, <1>20

LEMMA TextHearUpdate ==
    ASSUME Typed, Typed', TextInv, Connected, ~Turning, NEW t \in Tabs, NEW m, HearUpdate(t, m)
    PROVE  TextInv'
<1>1. /\ <<t, m>> \in out /\ m.type = "text-update" /\ out' = out \ {<<t, m>>}
      /\ doc' = [doc EXCEPT ![t] = Merge(@, m.change)]
      /\ UNCHANGED <<rich, text, open, live, synced, dirty, blank, up, down>>
    BY DEF HearUpdate, Hear, object
<1> SUFFICES ASSUME rich PROVE (Began /\ Grounded /\ Sound /\ Kept /\ Spread)'  BY <1>1 DEF TextInv
<1> USE DEF TextInv
<1>2. text # NoText /\ Parts(m.change) \subseteq Parts(text) /\ Bases(m.change) \subseteq Bases(text)
  <2>1. text # NoText /\ Parts(<<t, m>>[2].change) \subseteq Parts(text)  BY <1>1 DEF Sound
  <2> QED BY <2>1, PartsBases
<1>3. /\ \A o \in Tabs : o # t => doc'[o] = doc[o]
      /\ Parts(doc'[t]) = Parts(doc[t]) \cup Parts(m.change) /\ Bases(doc'[t]) = Bases(doc[t]) \cup Bases(m.change)
  <2>1. doc'[t] = Merge(doc[t], m.change)  BY <1>1 DEF Typed, Texts
  <2> QED BY <1>1, <2>1, PartsMerge DEF Typed, Texts
<1>4. live \subseteq Tabs /\ open \subseteq Tabs  BY DEF Typed, Sets
<1>5. \A o : ~ToldSaved(o) /\ ~ToldSaved(o)'  BY <1>1, CalmText DEF ToldSaved
<1>6. \A o \in Tabs : /\ In(o)' = In(o) /\ Updates(o)' = Updates(o) /\ (Requested(o)' <=> Requested(o))
                      /\ Sent(o)' = Sent(o) /\ (Awaiting(o)' <=> Awaiting(o))
    BY <1>1 DEF In, Updates, Requested, Sent, Awaiting
<1>7. Began'  BY <1>1 DEF Began
<1>8. Grounded'
  <2>1. \A o \in Tabs : synced[o] => Bases(doc'[o]) # {}  BY <1>3 DEF Grounded
  <2> QED BY <1>1, <1>5, <2>1 DEF Grounded
<1>9. \A o \in Tabs : Parts(doc[o]) \subseteq Parts(doc'[o])  BY <1>3
<1>10. Sound'
  <2>1. ASSUME NEW o \in Tabs, NEW x \in Updates(o)
        PROVE  Parts(x.change) \subseteq Parts(doc'[o]) /\ Bases(x.change) \subseteq Bases(text)
      BY <1>9 DEF Sound
  <2> QED BY <1>1, <1>2, <1>6, <2>1 DEF Sound
<1>11. Kept'
  <2> SUFFICES ASSUME NEW o \in open
               PROVE  /\ Bases(doc'[o]) \subseteq Bases(text)
                      /\ ~dirty[o] => Parts(doc'[o]) \subseteq Parts(text) \cup Sent(o)
                      /\ o \in live /\ (dirty[o] \/ ~synced[o]) => Awaiting(o)
      BY <1>1, <1>2, <1>4, <1>6 DEF Kept
  <2>1. /\ Bases(doc[o]) \subseteq Bases(text)
        /\ ~dirty[o] => Parts(doc[o]) \subseteq Parts(text) \cup Sent(o)
        /\ o \in live /\ (dirty[o] \/ ~synced[o]) => Awaiting(o)
      BY <1>5 DEF Kept
  <2>2. CASE o = t  BY <1>2, <1>3, <2>1, <2>2
  <2>3. CASE o # t  BY <1>3, <1>4, <2>1, <2>3
  <2> QED BY <2>2, <2>3
<1>12. Spread'
  <2> SUFFICES ASSUME NEW o \in live, NEW x \in Parts(text)
               PROVE  x \in Parts(doc'[o]) \/ Requested(o)' \/ Promised(o, x)' \/ Spreading(o, x)'
      BY <1>1 DEF Spread
  <2>1. x \in Parts(doc[o]) \/ Requested(o) \/ Promised(o, x) \/ Spreading(o, x)  BY <1>2, <1>5 DEF Spread
  <2>2. Promised(o, x) <=> Promised(o, x)'  BY <1>4, <1>6 DEF Promised
  <2>3. Spreading(o, x) => Spreading(o, x)' \/ (o = t /\ x \in Parts(m.change))
    <3> SUFFICES ASSUME Spreading(o, x), ~Spreading(o, x)' PROVE o = t /\ x \in Parts(m.change)  OBVIOUS
    <3>1. PICK b \in out : b[1] = o /\ b[2].type = "text-update" /\ x \in Parts(b[2].change)  BY DEF Spreading
    <3>2. b = <<t, m>>  BY <1>1, <3>1 DEF Spreading
    <3>3. b[1] = t /\ b[2] = m  BY <3>2
    <3> QED BY <3>1, <3>3
  <2> QED BY <1>3, <1>4, <1>6, <1>9, <2>1, <2>2, <2>3
<1> QED BY <1>7, <1>8, <1>10, <1>11, <1>12

(* After a save the tabs are told, and then the text begins anew.           *)
LEMMA TextSaved ==
    ASSUME Typed, TextInv, Saved, Still, open \subseteq live, rich => \A t \in live : synced[t]
    PROVE  TextInv'
<1>1. /\ text' = NoText /\ out' = out \cup {<<o, [type |-> "saved"]>> : o \in live}
      /\ UNCHANGED <<rich, open, live, doc, synced, dirty, blank, up, down>>
    BY DEF Saved, ToAll, copy
<1> SUFFICES ASSUME rich PROVE (Began /\ Grounded /\ Sound /\ Kept /\ Spread)'  BY <1>1 DEF TextInv
<1> USE DEF TextInv
<1>2. out = {} /\ \A o \in Tabs : up'[o] = {} /\ In(o)' = {}
  <2>1. \A o \in Tabs : In(o) = {}  BY InIs DEF Still, Typed
  <2> QED BY <1>1, <2>1 DEF Still, In
<1>3. \A b \in out' : b[1] \in live /\ b[2].type = "saved"  BY <1>1, <1>2
<1>4. \A o \in live : ToldSaved(o)'
  <2> SUFFICES ASSUME NEW o \in live PROVE ToldSaved(o)'  OBVIOUS
  <2> DEFINE m == [type |-> "saved"]
  <2>1. <<o, m>> \in out' /\ <<o, m>>[1] = o /\ <<o, m>>[2] = m /\ m.type = "saved"  BY <1>1
  <2> HIDE DEF m
  <2> QED BY <2>1 DEF ToldSaved
<1>5. Began'  BY <1>1 DEF Began
<1>6. Grounded'
  <2>1. \A o \in Tabs : ToldSaved(o)' => synced[o]  BY <1>3 DEF ToldSaved
  <2> QED BY <1>1, <1>2, <2>1 DEF Grounded
<1>7. Sound'  BY <1>2, <1>3 DEF Sound, Updates
<1>8. Kept' /\ Spread'  BY <1>1, <1>4 DEF Kept, Spread
<1> QED BY <1>5, <1>6, <1>7, <1>8

LEMMA TextHearSaved ==
    ASSUME Typed, Typed', TextInv, NEW t \in Tabs, NEW m, HearSaved(t, m)
    PROVE  TextInv'
<1>1. /\ <<t, m>> \in out /\ m.type = "saved" /\ out' = out \ {<<t, m>>}
      /\ doc' = [doc EXCEPT ![t] = Empty] /\ synced' = [synced EXCEPT ![t] = FALSE]
      /\ dirty' = [dirty EXCEPT ![t] = FALSE]
      /\ blank' = (IF doc[t].ins = {} THEN blank \cup {t} ELSE blank \ {t})
      /\ Send(t, IF rich THEN {TextSync(t)} ELSE {})
      /\ UNCHANGED <<rich, text, open, live, down>>
    BY DEF HearSaved, Hear, object
<1> SUFFICES ASSUME rich PROVE (Began /\ Grounded /\ Sound /\ Kept /\ Spread)'  BY <1>1 DEF TextInv
<1> USE DEF TextInv
<1>2. ToldSaved(t) /\ text = NoText
  <2>1. <<t, m>>[1] = t /\ <<t, m>>[2] = m  OBVIOUS
  <2> QED BY <1>1, <2>1 DEF ToldSaved, Began
<1>3. ~ToldSaved(t)' /\ \A o \in Tabs : o # t => (ToldSaved(o)' <=> ToldSaved(o))
  <2>1. \A b \in out : b[1] = t /\ b[2].type = "saved" => b = <<t, m>>
    <3> SUFFICES ASSUME NEW b \in out, b[1] = t, b[2].type = "saved" PROVE b = <<t, m>>  OBVIOUS
    <3>1. \A x \in ToTabs : x.type = "saved" => x = [type |-> "saved"]  BY DEF ToTabs
    <3>2. out \subseteq Tabs \X ToTabs  BY DEF Typed, Wires
    <3>3. m \in ToTabs /\ b[2] \in ToTabs /\ b = <<b[1], b[2]>>  BY <1>1, <3>2
    <3>4. m = b[2]  BY <1>1, <3>1, <3>3
    <3> QED BY <3>3, <3>4
  <2>2. <<t, m>>[1] = t  OBVIOUS
  <2> QED BY <1>1, <2>1, <2>2 DEF ToldSaved
<1>4. blank' = {} /\ ~TextSync(t).blank /\ TextSync(t).type = "text-sync"
  <2>1. Bases(doc[t]) # {}  BY <1>2 DEF Grounded
  <2>2. doc[t].ins # {}  BY <2>1 DEF Bases
  <2>3. blank' = {}  BY <1>1, <2>2 DEF Grounded
  <2> QED BY <2>3 DEF TextSync
<1>5. \A o \in Tabs : up'[o] = IF o = t THEN up[t] \cup {TextSync(t)} ELSE up[o]
    BY <1>1 DEF Send, Typed, Wires
<1>6. /\ \A o \in Tabs : o # t => doc'[o] = doc[o] /\ synced'[o] = synced[o] /\ dirty'[o] = dirty[o]
      /\ doc'[t] = Empty /\ ~synced'[t] /\ ~dirty'[t]
    BY <1>1 DEF Typed, Texts
<1>7. live \subseteq Tabs /\ open \subseteq Tabs  BY DEF Typed, Sets
<1>8. \A o \in Tabs : In(o)' = In(o) /\ Updates(o)' = Updates(o) /\ (Requested(o) => Requested(o)')
    BY <1>1, <1>4, <1>5 DEF In, Updates, Requested
<1>9. Awaiting(t)'  BY <1>4, <1>5 DEF Awaiting, Requested
<1>10. \A o \in Tabs : Sent(o)' = Sent(o) /\ (Awaiting(o) => Awaiting(o)')  BY <1>8 DEF Sent, Awaiting
<1>11. Began'  BY <1>1, <1>2 DEF Began
<1>12. Grounded'
  <2>1. \A o \in Tabs : \A x \in up'[o] : x.type = "text-sync" => ~x.blank  BY <1>4, <1>5 DEF Grounded
  <2>2. \A o \in Tabs : /\ synced'[o] => Bases(doc'[o]) # {}
                        /\ ToldSaved(o)' \/ dirty'[o] => synced'[o]
      BY <1>3, <1>6 DEF Grounded
  <2> QED BY <1>4, <2>1, <2>2 DEF Grounded
<1>13. Sound'
  <2>1. \A o \in Tabs : Updates(o) = {} /\ \A x \in In(o) : x.type # "text-sync"  BY <1>2 DEF Sound
  <2>2. Tabs # {} /\ \A b \in out : b[2].type # "text-update"  BY <1>2 DEF Sound
  <2> QED BY <1>1, <1>8, <2>1, <2>2 DEF Sound
<1>14. Kept'
  <2> SUFFICES ASSUME NEW o \in open, ~ToldSaved(o)'
               PROVE  /\ ~synced'[o] /\ doc'[o] = Empty
                      /\ Bases(doc'[o]) \subseteq Bases(text)
                      /\ ~dirty'[o] => Parts(doc'[o]) \subseteq Parts(text) \cup Sent(o)'
                      /\ o \in live /\ (dirty'[o] \/ ~synced'[o]) => Awaiting(o)'
      BY <1>1, <1>2 DEF Kept
  <2>1. CASE o = t  BY <1>6, <1>9, <2>1, PartsBlank
  <2>2. CASE o # t
    <3>1. /\ ~synced[o] /\ doc[o] = Empty
          /\ o \in live /\ (dirty[o] \/ ~synced[o]) => Awaiting(o)
        BY <1>2, <1>3, <1>7, <2>2 DEF Kept
    <3> QED BY <1>6, <1>7, <1>10, <2>2, <3>1, PartsBlank
  <2> QED BY <2>1, <2>2
<1>15. Spread'  BY <1>1, <1>2 DEF Spread
<1> QED BY <1>11, <1>12, <1>13, <1>14, <1>15

(* The steps that move the field, the presence or the saved value only.     *)
LEMMA TextRest ==
    ASSUME Typed, Typed', TextInv,
           \/ \E t \in Tabs : \/ Heartbeat(t) \/ Store(t) \/ Gone(t) \/ (Type(t) /\ ~synced[t])
                              \/ (Refresh(t) /\ UNCHANGED <<live, stale, wire>>)
           \/ \E u \in Users : Forget(u) \/ Drop(u)
           \/ \E t \in Tabs, m \in {b[2] : b \in out} : HearReset(t, m) \/ HearOp(t, m)
    PROVE  TextInv'
<1> DEFINE Alike == UNCHANGED <<rich, text, doc, synced, dirty, blank, open, live, up, down>>
           Outs == \A b \in Tabs \X ToTabs : b[2].type \in {"text-update", "saved"} => (b \in out' <=> b \in out)
<1>1. Alike /\ Outs
  <2>1. ASSUME NEW t \in Tabs, Heartbeat(t) \/ Store(t) \/ Gone(t) PROVE Alike /\ out' = out
      BY <2>1 DEF Heartbeat, Store, Gone, object, copy, wire
  <2>2. ASSUME NEW t \in Tabs, Type(t), ~synced[t] PROVE Alike /\ out' = out
      BY <2>2 DEF Type, object
  <2>3. ASSUME NEW t \in Tabs, Refresh(t), UNCHANGED <<live, stale, wire>> PROVE Alike /\ out' = out
      BY <2>3 DEF Refresh, copy, wire
  <2>4. ASSUME NEW u \in Users, Forget(u) PROVE Alike /\ out' = out
      BY <2>4 DEF Forget, copy, wire
  <2>5. ASSUME NEW u \in Users, Drop(u) PROVE Alike /\ Outs
    <3>1. Alike  BY <2>5 DEF Drop, copy
    <3>2. \A b \in out' : b \in out \/ b[2].type = "reset"  BY <2>5 DEF Drop, ToAll
    <3>3. out \subseteq out'  BY <2>5 DEF Drop, ToAll
    <3> QED BY <3>1, <3>2, <3>3
  <2>6. ASSUME NEW t \in Tabs, NEW m, HearReset(t, m) \/ HearOp(t, m) PROVE Alike /\ Outs
    <3>1. Alike /\ out' = out \ {<<t, m>>} /\ m.type \in {"reset", "op"}
        BY <2>6 DEF HearReset, HearOp, Hear, object, copy
    <3>2. <<t, m>>[2] = m  OBVIOUS
    <3> QED BY <3>1, <3>2
  <2> QED BY <2>1, <2>2, <2>3, <2>4, <2>5, <2>6
<1>2. \A o \in Tabs : In(o)' = In(o)  BY <1>1 DEF In
<1> QED BY <1>1, <1>2, TextAside

LEMMA TextEdits ==
    ASSUME Typed, Typed', TextInv, NEW t \in Tabs, Edit(t) \/ AnswerSync(t) \/ HandleOp(t) \/ HearSnapshot(t)
    PROVE  TextInv'
<1> DEFINE Alike == UNCHANGED <<rich, text, doc, synced, dirty, blank, open, live>>
           Ups == \A o \in Tabs : \A m \in ToObject :
                      m.type \in {"text-sync", "text-update"} => (m \in up'[o] <=> m \in up[o])
           Downs == \A o \in Tabs : \A m \in ToTab : m.type = "text-sync" => (m \in In(o)' <=> m \in In(o))
           Outs == \A b \in Tabs \X ToTabs : b[2].type \in {"text-update", "saved"} => (b \in out' <=> b \in out)
<1>1. Wires  BY DEF Typed
<1>2. CASE Edit(t)
  <2>1. PICK s : Alike /\ UNCHANGED <<down, out>> /\ Send(t, IF t \in live THEN {Op(s)} ELSE {})
      BY <1>2 DEF Edit, object, copy
  <2>2. Op(s).type = "op"  BY DEF Op
  <2>3. \A o \in Tabs : /\ up[o] \subseteq up'[o] /\ \A m \in up'[o] : m \in up[o] \/ m.type = "op"
      BY <1>1, <2>1, <2>2 DEF Send, Wires
  <2>4. Ups /\ Downs /\ Outs  BY <2>1, <2>3 DEF In
  <2> QED BY <2>1, <2>4, TextAside
<1>3. CASE AnswerSync(t)
  <2> DEFINE r == [type |-> "snapshot", ops |-> overlay]
  <2>1. /\ Alike /\ out' = out /\ up' = [up EXCEPT ![t] = @ \ {Sync}] /\ down' = [down EXCEPT ![t] = Append(@, r)]
      BY <1>3 DEF AnswerSync, Reply, object, copy
  <2>2. r \in ToTab /\ r.type = "snapshot"  BY DEF ToTab, Typed, Numbers
  <2> HIDE DEF r
  <2>3. /\ \A o \in Tabs : up'[o] = IF o = t THEN up[t] \ {Sync} ELSE up[o]
        /\ \A o \in Tabs : In(o)' = IF o = t THEN In(t) \cup {r} ELSE In(o)
      BY <1>1, <2>1, <2>2, HandledIs, ReplyIs
  <2>4. Sync.type = "sync"  BY DEF Sync
  <2>5. Ups /\ Downs /\ Outs  BY <2>1, <2>2, <2>3, <2>4
  <2> QED BY <2>1, <2>5, TextAside
<1>4. CASE HandleOp(t)
  <2>1. Alike /\ down' = down  BY <1>4 DEF HandleOp, copy
  <2>2. PICK m \in up[t] : /\ m.type = "op" /\ up' = [up EXCEPT ![t] = @ \ {m}]
                           /\ \/ UNCHANGED out
                              \/ ToOthers(t, [type |-> "op", edit |-> m.edit, user |-> Owner[t]])
      BY <1>4 DEF HandleOp
  <2>3. \A o \in Tabs : up'[o] = IF o = t THEN up[t] \ {m} ELSE up[o]  BY <1>1, <2>2, HandledIs
  <2>4. out \subseteq out' /\ \A b \in out' : b \in out \/ b[2].type = "op"  BY <2>2 DEF ToOthers
  <2>5. Ups /\ Downs /\ Outs  BY <2>1, <2>2, <2>3, <2>4 DEF In
  <2> QED BY <2>1, <2>5, TextAside
<1>5. CASE HearSnapshot(t)
  <2>1. /\ Alike /\ out' = out
        /\ down[t] # <<>> /\ Head(down[t]).type = "snapshot" /\ down' = [down EXCEPT ![t] = Tail(@)]
        /\ Send(t, Lacking(t, Head(down[t]).ops))
      BY <1>5 DEF HearSnapshot, object, copy
  <2>2. \A m \in Lacking(t, Head(down[t]).ops) : m.type = "op"  BY DEF Lacking, Op
  <2>3. \A o \in Tabs : /\ up[o] \subseteq up'[o] /\ \A m \in up'[o] : m \in up[o] \/ m.type = "op"
      BY <1>1, <2>1, <2>2 DEF Send, Wires
  <2>4. /\ \A o \in Tabs : o # t => In(o)' = In(o)
        /\ In(t) = In(t)' \cup {Head(down[t])}
      BY <1>1, <2>1, HeardIs
  <2>5. Ups /\ Outs  BY <2>1, <2>3
  <2>6. Downs  BY <2>1, <2>4
  <2> QED BY <2>1, <2>5, <2>6, TextAside
<1> QED BY <1>2, <1>3, <1>4, <1>5

LEMMA TextNext ==
    ASSUME Typed, Typed', Connected, TextInv, [SyncNext /\ Apart]_syncVars
    PROVE  TextInv'
<1>1. CASE UNCHANGED syncVars
  <2> USE <1>1 DEF syncVars, object, copy, wire
  <2>1. \A o \in Tabs : In(o)' = In(o)  BY DEF In
  <2> QED BY <2>1, TextAside
<1>0. CASE ~rich
  <2>1. rich' = rich
    <3>1. CASE UNCHANGED syncVars  BY <3>1 DEF syncVars
    <3>2. ASSUME NEW t \in Tabs, Settle(t) \/ People(t) \/ Cut(t) PROVE rich' = rich
        BY <3>2 DEF Settle, People, Answer, Receive, Broadcast, Load, Leave, Edit, Type, Store, Cut, Gone, Heartbeat,
           Refresh, Connect, AnswerSync, AnswerTextSync, HandleOp, HandleUpdate, HearSnapshot, HearTextSync, HearOp,
           HearUpdate, HearReset, HearSaved
    <3>3. CASE (\E u \in Users : Drop(u) \/ Forget(u)) \/ Saved  BY <3>3 DEF Drop, Forget, Saved
    <3> QED BY <3>1, <3>2, <3>3 DEF SyncNext
  <2> QED BY <1>0, <2>1 DEF TextInv
<1>2. CASE SyncNext /\ Apart /\ rich /\ Turning
  <2>1. PICK t \in Tabs : \E m \in {b[2] : b \in out} : HearSaved(t, m)  BY <1>2 DEF Apart
  <2> QED BY <2>1, TextHearSaved
<1>3. CASE SyncNext /\ Apart /\ rich /\ ~Turning
  <2>1. ASSUME NEW t \in Tabs, Settle(t) \/ People(t) \/ Cut(t) PROVE TextInv'
    <3>1. CASE Load(t)
      <4>1. t \in open' \ open  BY <3>1 DEF Load
      <4>2. up[t] = {}  BY <1>3, <4>1 DEF Apart
      <4> QED BY <1>3, <3>1, <4>2, TextLoad
    <3>2. CASE Heartbeat(t) \/ Store(t) \/ Gone(t)  BY <3>2, TextRest
    <3>3. Updates(t) \subseteq up[t]  BY DEF Updates
    <3>4. \A x \in Updates(t) : x \in up[t] /\ x.type \notin Asks  BY DEF Updates, Asks
    <3>5. End(t, up[t]) => Updates(t) \subseteq up'[t]
        BY <3>4 DEF End, Typed, Wires
    <3>6. CASE Refresh(t)
      <4>1. CASE UNCHANGED <<live, stale, wire>>  BY <3>6, <4>1, TextRest
      <4>2. CASE End(t, up[t])
        <5>1. UNCHANGED <<rich, text, doc, synced, dirty, blank, open>>  BY <3>6 DEF Refresh, copy
        <5> QED BY <1>3, <3>5, <4>2, <5>1, TextEnd
      <4> QED BY <3>6, <4>1, <4>2 DEF Refresh
    <3>7. CASE Leave(t)
      <4>1. UNCHANGED <<rich, text, doc, synced, dirty, blank>> /\ open' \subseteq open /\ End(t, up[t])
          BY <3>7 DEF Leave, copy
      <4> QED BY <1>3, <3>5, <4>1, TextEnd
    <3>8. CASE Cut(t)
      <4>1. /\ UNCHANGED <<rich, text, doc, synced, dirty, blank, open>> /\ t \in live \ stale
          BY <3>8 DEF Cut, copy
      <4>2. PICK kept \in SUBSET up[t] : End(t, kept)  BY <3>8 DEF Cut
      <4>3. stale' # stale  BY <4>1, <4>2 DEF End
      <4>4. Updates(t) \subseteq up'[t]  BY <1>3, <4>3 DEF Apart
      <4> QED BY <1>3, <4>1, <4>2, <4>4, TextEnd
    <3>9. CASE Connect(t)  BY <1>3, <3>9, TextConnect
    <3>10. CASE Edit(t) \/ AnswerSync(t) \/ HandleOp(t) \/ HearSnapshot(t)  BY <3>10, TextEdits
    <3>11. CASE Type(t)
      <4>1. CASE synced[t]  BY <1>3, <3>11, <4>1, TextType
      <4>2. CASE ~synced[t]  BY <3>11, <4>2, TextRest
      <4> QED BY <4>1, <4>2
    <3>12. CASE AnswerTextSync(t)  BY <1>3, <3>12, TextAnswer
    <3>13. CASE HandleUpdate(t)  BY <1>3, <3>13, TextUpdate
    <3>14. CASE HearTextSync(t)  BY <1>3, <3>14, TextHear
    <3>15. CASE Broadcast(t)
      <4>1. ASSUME NEW m \in {b[2] : b \in out}, HearOp(t, m) \/ HearReset(t, m) PROVE TextInv'
          BY <4>1, TextRest
      <4>2. ASSUME NEW m, HearUpdate(t, m) PROVE TextInv'  BY <1>3, <4>2, TextHearUpdate
      <4>3. ASSUME NEW m, HearSaved(t, m) PROVE TextInv'  BY <4>3, TextHearSaved
      <4> QED BY <3>15, <4>1, <4>2, <4>3 DEF Broadcast
    <3> QED BY <2>1, <3>1, <3>2, <3>6, <3>7, <3>8, <3>9, <3>10, <3>11, <3>12, <3>13, <3>14, <3>15
          DEF Settle, People, Answer, Receive
  <2>2. CASE \E u \in Users : Drop(u) \/ Forget(u)  BY <2>2, TextRest
  <2>3. CASE Saved
    <3>1. saving /\ ~saving'  BY <2>3 DEF Saved
    <3>2. Still /\ open \subseteq live /\ \A t \in live : synced[t]  BY <1>3, <3>1 DEF Apart
    <3> QED BY <2>3, <3>2, TextSaved
  <2> QED BY <1>3, <2>1, <2>2, <2>3 DEF SyncNext
<1> QED BY <1>0, <1>1, <1>2, <1>3

(* Whatever arrives late, overtakes or is sent again, once all has arrived  *)
(* every connected editor's text is the object's, and the text the page     *)
(* began with is in it once, though each tab offers its own (page-sync.ts,  *)
(* loadTextDoc; editor-sync.js, text-sync and saved).                       *)
THEOREM ReplicasMerge == SpecApart => []TextsMerge
<1> DEFINE Inv == Typed /\ FieldInv /\ TextInv
<1>1. SyncInit => Inv  BY TypedInit, FieldInit, TextInit
<1>2. Inv /\ [SyncNext /\ Apart]_syncVars => Inv'
  <2> SUFFICES ASSUME Inv, [SyncNext /\ Apart]_syncVars PROVE Inv'  OBVIOUS
  <2>1. Typed' /\ FieldInv'  BY FieldNext
  <2>2. TextInv'  BY <2>1, TextNext DEF FieldInv
  <2> QED BY <2>1, <2>2
<1>3. Inv => TextsMerge
  <2> SUFFICES ASSUME Typed, FieldInv, TextInv, Quiet, rich, NEW t \in live
               PROVE  synced[t] /\ doc[t] = text /\ Cardinality(Bases(text)) = 1
      BY DEF TextsMerge
  <2>1. t \in Tabs /\ t \in open  BY DEF Typed, Sets, FieldInv, Connected
  <2>2. up[t] = {} /\ down[t] = <<>> /\ out = {}  BY <2>1 DEF Quiet, Still
  <2>3. In(t) = {} /\ Updates(t) = {}  BY <2>1, <2>2, InIs DEF Typed, Updates
  <2>4. ~ToldSaved(t) /\ ~Requested(t) /\ ~Awaiting(t) /\ Sent(t) = {}
      BY <2>2, <2>3 DEF ToldSaved, Requested, Awaiting, Sent
  <2>5. synced[t] /\ ~dirty[t] /\ text # NoText /\ Parts(doc[t]) \subseteq Parts(text)
      BY <2>1, <2>4 DEF TextInv, Kept
  <2>6. \A x \in Parts(text) : x \in Parts(doc[t])
    <3>1. \A x : ~Promised(t, x) /\ ~Spreading(t, x)  BY <2>2, <2>3 DEF Promised, Spreading
    <3> QED BY <2>4, <2>5, <3>1 DEF TextInv, Spread
  <2>7. doc[t] \in Docs /\ text \in Docs  BY <2>1 DEF Typed, Texts
  <2>8. Parts(doc[t]) = Parts(text)  BY <2>5, <2>6
  <2>9. doc[t] = text  BY <2>7, <2>8, PartsEqual
  <2>10. PICK b : Bases(text) = {b}  BY <2>5 DEF TextInv, Began
  <2>11. Cardinality({b}) = 1  BY FS_Singleton
  <2> QED BY <2>5, <2>9, <2>10, <2>11
<1> QED BY <1>1, <1>2, <1>3, PTL DEF SpecApart
=============================================================================
