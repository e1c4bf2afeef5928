-------------------------- MODULE PublishingProofs --------------------------
(***************************************************************************)
(* A page's floor is exactly the highest class it was ever seen under, for *)
(* any pages, tags, types and taxonomies; and therefore health data is     *)
(* never published, for any number of publishes under way.  And what the  *)
(* targets owe a publish that nothing runs beside, for any tags and pages. *)
(***************************************************************************)
EXTENDS MCPublishing, TLAPS

(* The containers that give a page its class, as a draft or in trash.       *)
Under(p) == Sources(draft[p], group) \cup Sources(trash[p], group)

RecordsOK ==
    /\ level \in [Types \cup Taxonomies -> Levels]
    /\ taxonomies \subseteq Taxonomies
    /\ group \in [Tags -> Taxonomies \cup {None}]
    /\ draft \in [Pages -> Row \cup {None}]
    /\ trash \in [Pages -> Row \cup {None}]
    /\ floor \in [Pages -> Levels]

(* Tags on pages exist, in trash as well: page_tags and trash_page_tags go  *)
(* with their tag.                                                          *)
TagsExist ==
    \A p \in Pages : /\ draft[p] # None => draft[p].tags \subseteq Existing
                     /\ trash[p] # None => trash[p].tags \subseteq Existing

(* No page lies below the class of what it is under.                        *)
Covered == \A p \in Pages : \A c \in Under(p) : level[c] <= floor[p]

IInv == RecordsOK /\ TagsExist /\ Covered /\ floor = seen

(* What a step owes each page: its floor rises to what the page is under    *)
(* then, and to i, which it inherits, and no further.                       *)
Exact(p, i) ==
    /\ floor[p] <= floor'[p] /\ i <= floor'[p]
    /\ \A c \in Under(p)' : level'[c] <= floor'[p]
    /\ floor'[p] \in {floor[p], i} \cup {level'[c] : c \in Under(p)'}

(* What a step owes the invariant, if page q inherits i and no other does.  *)
Settled(q, i) ==
    RecordsOK' /\ TagsExist' /\ \A p \in Pages : Exact(p, IF p = q THEN i ELSE 0)

-----------------------------------------------------------------------------
(* Highest is the maximum of a set of levels, and 0 of the empty set.       *)
LEMMA HighestIsMaximum ==
    ASSUME NEW S \in SUBSET Levels
    PROVE  /\ Highest(S) \in Levels
           /\ \A m \in S : m <= Highest(S)
           /\ Highest(S) \in S \cup {0}
           /\ S # {} => Highest(S) \in S
<1>1. \A m \in S : m = 0 \/ m = 1 \/ m = 2
  BY DEF Levels
<1>2. CASE 2 \in S
  <2>1. Highest(S) = 2  BY <1>2 DEF Highest
  <2> QED  BY <1>1, <1>2, <2>1 DEF Levels
<1>3. CASE 2 \notin S /\ 1 \in S
  <2>1. Highest(S) = 1  BY <1>3 DEF Highest
  <2> QED  BY <1>1, <1>3, <2>1 DEF Levels
<1>4. CASE 2 \notin S /\ 1 \notin S
  <2>1. Highest(S) = 0  BY <1>4 DEF Highest
  <2>2. \A m \in S : m = 0  BY <1>1, <1>4
  <2>3. S # {} => 0 \in S  BY <2>2
  <2> QED  BY <2>1, <2>2, <2>3 DEF Levels
<1> QED
  BY <1>2, <1>3, <1>4

LEMMA HighestOfTwo ==
    ASSUME NEW a \in Levels, NEW b \in Levels
    PROVE  LET h == Highest({a, b}) IN h \in Levels /\ a <= h /\ b <= h /\ h \in {a, b}
<1>1. {a, b} \in SUBSET Levels /\ {a, b} # {}
  OBVIOUS
<1> QED
  BY <1>1, HighestIsMaximum

LEMMA HighestOfThree ==
    ASSUME NEW a \in Levels, NEW b \in Levels, NEW c \in Levels
    PROVE  LET h == Highest({a, b, c}) IN
             h \in Levels /\ a <= h /\ b <= h /\ c <= h /\ h \in {a, b, c}
<1>1. {a, b, c} \in SUBSET Levels /\ {a, b, c} # {}
  OBVIOUS
<1> QED
  BY <1>1, HighestIsMaximum

LEMMA SourcesOfRow ==
    ASSUME NEW row \in Row, NEW g
    PROVE  /\ row # None /\ row.type \in Types /\ row.tags \subseteq Tags
           /\ Sources(row, g) = {row.type} \cup {g[t] : t \in row.tags}
<1>1. row # None /\ row.type \in Types /\ row.tags \subseteq Tags
  BY SensitivityAssumption DEF Row
<1> QED
  BY <1>1 DEF Sources

(* The class of a row, if there is one, is that of one of its containers,   *)
(* and none of them is of a higher.                                         *)
LEMMA ClassIsOfASource ==
    ASSUME NEW row \in Row \cup {None}, NEW g \in [Tags -> Taxonomies \cup {None}],
           NEW policy \in [Types \cup Taxonomies -> Levels],
           row # None => \A t \in row.tags : g[t] # None
    PROVE  /\ Sources(row, g) \subseteq Types \cup Taxonomies
           /\ Class(row, g, policy) \in Levels
           /\ Class(row, g, policy) \in {0} \cup {policy[c] : c \in Sources(row, g)}
           /\ row # None => Class(row, g, policy) \in {policy[c] : c \in Sources(row, g)}
           /\ \A c \in Sources(row, g) : policy[c] <= Class(row, g, policy)
<1> DEFINE S == Sources(row, g)
           L == {policy[c] : c \in S}
<1>1. S \subseteq Types \cup Taxonomies /\ (row # None => S # {})
  <2>1. CASE row = None
    BY <2>1 DEF Sources
  <2>2. CASE row \in Row
    <3>1. S = {row.type} \cup {g[t] : t \in row.tags} /\ row.type \in Types /\ row.tags \subseteq Tags
      BY <2>2, SourcesOfRow
    <3>2. \A t \in row.tags : g[t] \in Taxonomies
      BY <3>1, <2>2, SourcesOfRow
    <3> HIDE DEF S
    <3> QED  BY <3>1, <3>2
  <2> QED  BY <2>1, <2>2
<1>2. Class(row, g, policy) = Highest(L)
  BY DEF Class
<1> HIDE DEF S
<1>3. L \in SUBSET Levels /\ (row # None => L # {})
  BY <1>1
<1> HIDE DEF L
<1>4. /\ Highest(L) \in Levels /\ Highest(L) \in L \cup {0}
      /\ row # None => Highest(L) \in L
      /\ \A m \in L : m <= Highest(L)
  BY <1>3, HighestIsMaximum
<1> QED
  BY <1>1, <1>2, <1>4 DEF S, L

-----------------------------------------------------------------------------
(* What a step needs to settle.                                             *)

(* The sources of either copy of a page are containers, and its class, as a *)
(* draft and in trash, is below its floor.                                  *)
LEMMA CopiesAreCovered ==
    ASSUME IInv, NEW p \in Pages
    PROVE  /\ Under(p) \subseteq Types \cup Taxonomies
           /\ \A c \in Under(p) : level[c] <= floor[p]
           /\ Class(draft[p], group, level) \in Levels
           /\ Class(draft[p], group, level) <= floor[p]
<1>1. /\ draft[p] \in Row \cup {None} /\ trash[p] \in Row \cup {None}
      /\ group \in [Tags -> Taxonomies \cup {None}]
      /\ level \in [Types \cup Taxonomies -> Levels]
      /\ floor[p] \in Levels
  BY DEF IInv, RecordsOK
<1>2. /\ draft[p] # None => \A t \in draft[p].tags : group[t] # None
      /\ trash[p] # None => \A t \in trash[p].tags : group[t] # None
  BY DEF IInv, TagsExist, Existing
<1>3. /\ Sources(draft[p], group) \subseteq Types \cup Taxonomies
      /\ Sources(trash[p], group) \subseteq Types \cup Taxonomies
      /\ Class(draft[p], group, level) \in Levels
      /\ Class(draft[p], group, level) \in {0} \cup {level[c] : c \in Sources(draft[p], group)}
  BY <1>1, <1>2, ClassIsOfASource
<1>4. \A c \in Under(p) : level[c] <= floor[p]
  BY DEF IInv, Covered
<1>5. Class(draft[p], group, level) <= floor[p]
  BY <1>1, <1>3, <1>4 DEF Under, Levels
<1> QED
  BY <1>3, <1>4, <1>5 DEF Under

(* A page that keeps its floor and comes under nothing new is settled.      *)
LEMMA NothingNew ==
    ASSUME IInv, NEW p \in Pages, floor'[p] = floor[p],
           \A c \in Under(p)' : c \in Under(p) /\ level'[c] = level[c]
    PROVE  Exact(p, 0)
<1>1. floor[p] \in Nat
  BY DEF IInv, RecordsOK, Levels
<1>2. \A c \in Under(p)' : level'[c] <= floor'[p]
  BY CopiesAreCovered
<1> QED
  BY <1>1, <1>2 DEF Exact

(* A container whose level rises raises the floors of the pages under it.   *)
Raises(F, c) ==
    \A p \in Pages : /\ F[p] \in Levels /\ floor[p] <= F[p]
                     /\ c \in Under(p) => level'[c] <= F[p]
                     /\ F[p] = floor[p] \/ (c \in Under(p) /\ F[p] = level'[c])

LEMMA FloorsUnderRaises ==
    ASSUME IInv, NEW c \in Types \cup Taxonomies, level'[c] \in Levels
    PROVE  FloorsUnder(c, level') \in [Pages -> Levels] /\ Raises(FloorsUnder(c, level'), c)
<1> SUFFICES ASSUME NEW p \in Pages
             PROVE  LET f == FloorsUnder(c, level')[p] IN
                      /\ f \in Levels /\ floor[p] <= f
                      /\ c \in Under(p) => level'[c] <= f
                      /\ f = floor[p] \/ (c \in Under(p) /\ f = level'[c])
  BY DEF FloorsUnder, Raises
<1>1. floor[p] \in Levels /\ floor[p] <= floor[p]
  BY DEF IInv, RecordsOK, Levels
<1>2. LET h == Raised(p, level'[c]) IN
        h \in Levels /\ floor[p] <= h /\ level'[c] <= h /\ h \in {floor[p], level'[c]}
  BY <1>1, HighestOfTwo DEF Raised
<1>3. FloorsUnder(c, level')[p] = IF c \in Under(p) THEN Raised(p, level'[c]) ELSE floor[p]
  BY DEF FloorsUnder, Under
<1>4. CASE c \in Under(p)
  BY <1>2, <1>3, <1>4
<1>5. CASE c \notin Under(p)
  BY <1>1, <1>3, <1>5
<1> QED
  BY <1>4, <1>5

LEMMA LevelsStand ==
    ASSUME IInv, NEW c \in Types \cup Taxonomies, level' = level
    PROVE  Raises(floor, c)
<1> SUFFICES ASSUME NEW p \in Pages
             PROVE  /\ floor[p] \in Levels /\ floor[p] <= floor[p]
                    /\ c \in Under(p) => level[c] <= floor[p]
  BY DEF Raises
<1>1. floor[p] \in Levels
  BY DEF IInv, RecordsOK
<1> QED
  BY <1>1, CopiesAreCovered DEF Levels

(* A page that is saved, trashed or restored, its floor raised to the class *)
(* of the row it leaves, is settled and disturbs no other.                  *)
LEMMA OneRow ==
    ASSUME IInv, NEW p \in Pages, NEW row \in Row, row.tags \subseteq Existing,
           level' = level, group' = group, taxonomies' = taxonomies,
           floor' = FloorOf(p, row),
           draft' \in [Pages -> Row \cup {None}], trash' \in [Pages -> Row \cup {None}],
           \/ draft'[p] = row /\ trash'[p] \in {trash[p], None}
           \/ trash'[p] = row /\ draft'[p] \in {draft[p], None},
           \A q \in Pages \ {p} : draft'[q] = draft[q] /\ trash'[q] = trash[q]
    PROVE  Settled(None, 0)
<1> DEFINE h == Class(row, group, level)
<1>1. /\ h \in Levels /\ h \in {level[c] : c \in Sources(row, group)}
      /\ \A c \in Sources(row, group) : level[c] <= h
  <2>1. row \in Row \cup {None} /\ row # None /\ \A t \in row.tags : group[t] # None
    BY SourcesOfRow DEF Existing
  <2> QED  BY <2>1, ClassIsOfASource DEF IInv, RecordsOK
<1> HIDE DEF h
<1>2. floor \in [Pages -> Levels] /\ floor[p] \in Levels
  BY DEF IInv, RecordsOK
<1>3. LET f == Raised(p, h) IN
        f \in Levels /\ floor[p] <= f /\ h <= f /\ f \in {floor[p], h}
  BY <1>1, <1>2, HighestOfTwo DEF Raised
<1>4. floor' = [floor EXCEPT ![p] = Raised(p, h)]
  BY DEF FloorOf, h
<1>5. RecordsOK'
  BY <1>2, <1>3, <1>4 DEF IInv, RecordsOK
<1>6. TagsExist'
  BY DEF IInv, TagsExist, Existing
<1>7. \A q \in Pages \ {p} : Exact(q, 0)
  <2> SUFFICES ASSUME NEW q \in Pages \ {p}  PROVE Exact(q, 0)
    OBVIOUS
  <2>1. floor'[q] = floor[q] /\ Under(q)' = Under(q)
    BY <1>2, <1>4 DEF Under
  <2> QED  BY <2>1, NothingNew
<1>8. Exact(p, 0)
  <2>1. /\ Under(p)' \subseteq Under(p) \cup Sources(row, group)
        /\ Sources(row, group) \subseteq Under(p)'
    BY DEF Under, Sources
  <2>2. floor'[p] = Raised(p, h)
    BY <1>2, <1>4
  <2>3. \A c \in Under(p)' : level'[c] <= floor'[p]
    <3> SUFFICES ASSUME NEW c \in Under(p)'  PROVE level[c] <= Raised(p, h)
      BY <2>2
    <3>1. CASE c \in Under(p)
      <4>1. level[c] <= floor[p] /\ level[c] \in Levels
        BY <3>1, CopiesAreCovered DEF IInv, RecordsOK
      <4> QED  BY <4>1, <1>2, <1>3 DEF Levels
    <3>2. CASE c \in Sources(row, group)
      <4>1. level[c] <= h /\ c \in Types \cup Taxonomies
        <5>1. \A t \in row.tags : group[t] # None
          BY DEF Existing
        <5> QED  BY <3>2, <5>1, <1>1, ClassIsOfASource DEF IInv, RecordsOK
      <4>2. level[c] \in Levels
        BY <4>1 DEF IInv, RecordsOK
      <4> QED  BY <4>1, <4>2, <1>1, <1>3 DEF Levels
    <3> QED  BY <2>1, <3>1, <3>2
  <2>4. floor'[p] \in {floor[p]} \cup {level'[c] : c \in Under(p)'}
    BY <1>1, <1>3, <2>1, <2>2
  <2> QED  BY <1>2, <1>3, <2>2, <2>3, <2>4 DEF Exact, Levels
<1>9. \A q \in Pages : Exact(q, IF q = None THEN 0 ELSE 0)
  BY <1>7, <1>8
<1> QED
  BY <1>5, <1>6, <1>9 DEF Settled

(* Regrouped tags: each page with a tag that moved is brought up to the     *)
(* class its new taxonomy gives it, whatever its level rose to.             *)
LEMMA Regrouped ==
    ASSUME IInv, NEW x \in Taxonomies, NEW moved \in SUBSET Existing,
           NEW F \in [Pages -> Levels], Raises(F, x),
           floor' = FloorsAfterMove(F, moved, group', level'),
           \A t \in Tags : group'[t] = IF t \in moved THEN x ELSE group[t],
           \A c \in (Types \cup Taxonomies) \ {x} : level'[c] = level[c],
           group' \in [Tags -> Taxonomies \cup {None}], taxonomies' \subseteq Taxonomies,
           level' \in [Types \cup Taxonomies -> Levels],
           draft' = draft, trash' = trash
    PROVE  Settled(None, 0)
<1>1. TagsExist'
  <2>1. Existing \subseteq Existing'
    BY SensitivityAssumption DEF Existing
  <2> QED  BY <2>1 DEF IInv, TagsExist
<1>2. \A p \in Pages : Exact(p, 0) /\ floor'[p] \in Levels
  <2> SUFFICES ASSUME NEW p \in Pages  PROVE Exact(p, 0) /\ floor'[p] \in Levels
    OBVIOUS
  <2> DEFINE d == Class(draft[p], group', level')
             r == Class(trash[p], group', level')
             md == IF Linked(draft[p], moved) THEN d ELSE 0
             mr == IF Linked(trash[p], moved) THEN r ELSE 0
  <2>1. /\ draft[p] \in Row \cup {None} /\ trash[p] \in Row \cup {None}
        /\ draft[p] # None => \A t \in draft[p].tags : t \in Tags /\ group'[t] # None
        /\ trash[p] # None => \A t \in trash[p].tags : t \in Tags /\ group'[t] # None
    BY <1>1 DEF IInv, RecordsOK, TagsExist, Existing
  <2>2. /\ d \in Levels /\ d \in {0} \cup {level'[c] : c \in Sources(draft[p], group')}
        /\ \A c \in Sources(draft[p], group') : level'[c] <= d
        /\ Sources(draft[p], group') \subseteq Types \cup Taxonomies
    BY <2>1, ClassIsOfASource
  <2>3. /\ r \in Levels /\ r \in {0} \cup {level'[c] : c \in Sources(trash[p], group')}
        /\ \A c \in Sources(trash[p], group') : level'[c] <= r
        /\ Sources(trash[p], group') \subseteq Types \cup Taxonomies
    BY <2>1, ClassIsOfASource
  <2>4. Under(p)' = Sources(draft[p], group') \cup Sources(trash[p], group')
    BY DEF Under
  <2>5. floor'[p] = Highest({F[p], md, mr})
    BY DEF FloorsAfterMove
  <2>6. md \in Levels /\ mr \in Levels /\ F[p] \in Levels
    BY <2>2, <2>3 DEF Levels
  <2>7. /\ floor'[p] \in Levels /\ F[p] <= floor'[p] /\ md <= floor'[p] /\ mr <= floor'[p]
        /\ floor'[p] \in {F[p], md, mr}
    <3> DEFINE f == F[p]
    <3>1. f \in Levels /\ floor'[p] = Highest({f, md, mr})
      BY <2>5, <2>6
    <3> HIDE DEF f, md, mr
    <3>2. LET h == Highest({f, md, mr}) IN
            h \in Levels /\ f <= h /\ md <= h /\ mr <= h /\ h \in {f, md, mr}
      BY <2>6, <3>1, HighestOfThree
    <3> QED  BY <3>1, <3>2 DEF f
  <2>8. floor[p] \in Levels /\ floor[p] <= F[p]
    BY DEF IInv, RecordsOK, Raises
  (* A copy that has none of the moved tags is under what it was under.     *)
  <2>9. ASSUME NEW row \in Row \cup {None}, ~Linked(row, moved),
               row # None => row.tags \subseteq Tags
        PROVE  Sources(row, group') = Sources(row, group)
    <3>1. row # None => \A t \in row.tags : group'[t] = group[t]
      BY <2>9 DEF Linked
    <3> QED  BY <3>1 DEF Sources
  <2>10. \A c \in Under(p) : c \in Types \cup Taxonomies /\ level'[c] <= F[p]
    <3> SUFFICES ASSUME NEW c \in Under(p)
                 PROVE  c \in Types \cup Taxonomies /\ level'[c] <= F[p]
      OBVIOUS
    <3>1. c \in Types \cup Taxonomies /\ level[c] <= floor[p] /\ level[c] \in Levels
      BY CopiesAreCovered DEF IInv, RecordsOK
    <3>2. CASE c = x
      BY <3>1, <3>2 DEF Raises
    <3>3. CASE c # x
      BY <3>1, <3>3, <2>6, <2>8 DEF Levels
    <3> QED  BY <3>2, <3>3
  <2>11. \A c \in Under(p)' : level'[c] <= floor'[p]
    <3> SUFFICES ASSUME NEW c \in Under(p)'  PROVE level'[c] <= floor'[p]
      OBVIOUS
    <3>1. level'[c] \in Levels
      BY <2>2, <2>3, <2>4
    <3>2. CASE c \in Under(p)
      BY <3>1, <3>2, <2>6, <2>7, <2>10 DEF Levels
    <3>3. CASE c \in Sources(draft[p], group') /\ Linked(draft[p], moved)
      BY <3>1, <3>3, <2>2, <2>7 DEF Levels
    <3>4. CASE c \in Sources(trash[p], group') /\ Linked(trash[p], moved)
      BY <3>1, <3>4, <2>3, <2>7 DEF Levels
    <3>5. c \in Sources(draft[p], group') \/ c \in Sources(trash[p], group')
      BY <2>4
    <3>6. Sources(draft[p], group) \cup Sources(trash[p], group) \subseteq Under(p)
      BY DEF Under
    <3>7. /\ draft[p] # None => draft[p].tags \subseteq Tags
          /\ trash[p] # None => trash[p].tags \subseteq Tags
      BY <2>1
    <3>8. CASE c \in Sources(draft[p], group') /\ ~Linked(draft[p], moved)
      BY <3>2, <3>6, <3>7, <3>8, <2>1, <2>9
    <3>9. CASE c \in Sources(trash[p], group') /\ ~Linked(trash[p], moved)
      BY <3>2, <3>6, <3>7, <3>9, <2>1, <2>9
    <3> QED  BY <3>3, <3>4, <3>5, <3>8, <3>9
  (* The container that rose, if it is what raised the page, still has it.  *)
  <2>12. x \in Under(p) => x \in Under(p)'
    <3>1. x \in Under(p) => \/ draft[p] # None /\ \E t \in draft[p].tags : group[t] = x
                            \/ trash[p] # None /\ \E t \in trash[p].tags : group[t] = x
      BY <2>1, SourcesOfRow, SensitivityAssumption DEF Under, Sources
    <3>2. \A t \in Tags : group[t] = x => group'[t] = x
      OBVIOUS
    <3> QED  BY <3>1, <3>2, <2>1, <2>4 DEF Sources
  <2>13. floor'[p] \in {floor[p], 0} \cup {level'[c] : c \in Under(p)'}
    <3>1. F[p] = floor[p] \/ (x \in Under(p)' /\ F[p] = level'[x])
      BY <2>12 DEF Raises
    <3>2. /\ md \in {0} \cup {level'[c] : c \in Under(p)'}
          /\ mr \in {0} \cup {level'[c] : c \in Under(p)'}
      BY <2>2, <2>3, <2>4
    <3> HIDE DEF md, mr
    <3> QED  BY <2>7, <3>1, <3>2
  <2> HIDE DEF d, r, md, mr
  <2> QED  BY <2>6, <2>7, <2>8, <2>11, <2>13 DEF Exact, Levels
<1>3. RecordsOK'
  BY <1>2 DEF IInv, RecordsOK, FloorsAfterMove
<1> QED
  BY <1>1, <1>2, <1>3 DEF Settled

-----------------------------------------------------------------------------
(* Every action settles.                                                    *)

LEMMA PolicySettles ==
    ASSUME IInv, Policy
    PROVE  Settled(None, 0)
<1> USE DEF IInv, RecordsOK
<1>1. ASSUME NEW c \in Types \cup Taxonomies, NEW class \in Classes, Classify(c, class)
      PROVE  Settled(None, 0)
  <2> USE <1>1
  <2>1. /\ level' = [level EXCEPT ![c] = Highest({level[c], class})]
        /\ floor' = FloorsUnder(c, level')
        /\ taxonomies' = taxonomies /\ group' = group /\ draft' = draft /\ trash' = trash
    BY DEF Classify
  <2>2. class \in Levels /\ level[c] \in Levels
    BY SensitivityAssumption DEF Levels
  <2>3. level'[c] \in Levels /\ level[c] <= level'[c]
    BY <2>1, <2>2, HighestOfTwo
  <2>4. level' \in [Types \cup Taxonomies -> Levels]
    BY <2>1, <2>3
  <2>5. floor' \in [Pages -> Levels] /\ Raises(floor', c)
    BY <2>1, <2>3, FloorsUnderRaises
  <2>6. \A p \in Pages : Exact(p, 0)
    <3> SUFFICES ASSUME NEW p \in Pages  PROVE Exact(p, 0)
      OBVIOUS
    <3>1. Under(p)' = Under(p)
      BY <2>1 DEF Under
    <3>2. /\ floor'[p] \in Levels /\ floor[p] <= floor'[p] /\ floor[p] \in Levels
          /\ c \in Under(p) => level'[c] <= floor'[p]
          /\ floor'[p] = floor[p] \/ (c \in Under(p) /\ floor'[p] = level'[c])
      BY <2>5 DEF Raises
    <3>3. ASSUME NEW b \in Under(p)  PROVE level'[b] <= floor'[p]
      <4>1. CASE b = c
        BY <3>2, <3>3, <4>1
      <4>2. CASE b # c
        <5>1. b \in Types \cup Taxonomies /\ level[b] <= floor[p]
          BY <3>3, CopiesAreCovered
        <5>2. level'[b] = level[b] /\ level[b] \in Levels
          BY <2>1, <4>2, <5>1
        <5> QED  BY <3>2, <5>1, <5>2 DEF Levels
      <4> QED  BY <4>1, <4>2
    <3> QED  BY <3>1, <3>2, <3>3 DEF Exact, Levels
  <2> QED  BY <2>1, <2>4, <2>5, <2>6 DEF Settled, TagsExist, Existing
<1>2. ASSUME NEW x \in Taxonomies, CreateTaxonomy(x)  PROVE Settled(None, 0)
  <2>1. \A p \in Pages : Exact(p, 0)
    BY <1>2, NothingNew DEF CreateTaxonomy, Under
  <2> QED  BY <1>2, <2>1 DEF CreateTaxonomy, Settled, TagsExist, Existing
<1>3. ASSUME NEW x \in Taxonomies, DeleteTaxonomy(x)  PROVE Settled(None, 0)
  <2> DEFINE moved == {t \in Tags : group[t] = x}
  <2>1. /\ \A t \in Tags : group'[t] = IF t \in moved THEN Default ELSE group[t]
        /\ group' \in [Tags -> Taxonomies \cup {None}]
        /\ taxonomies' \subseteq Taxonomies
        /\ level' = level /\ draft' = draft /\ trash' = trash
        /\ floor' = FloorsAfterMove(floor, moved, group', level')
    BY <1>3, SensitivityAssumption DEF DeleteTaxonomy
  <2>2. moved \in SUBSET Existing
    BY SensitivityAssumption DEF Existing
  <2>3. Raises(floor, Default) /\ Default \in Taxonomies
    BY <2>1, LevelsStand, SensitivityAssumption
  <2> HIDE DEF moved
  <2> QED  BY <2>1, <2>2, <2>3, Regrouped
<1>4. ASSUME NEW x \in Taxonomies, NEW y \in Taxonomies, RenameTaxonomy(x, y)
      PROVE  Settled(None, 0)
  <2> DEFINE moved == {t \in Tags : group[t] = x}
  <2>1. /\ level' = [level EXCEPT ![y] = Highest({level[y], level[x]})]
        /\ \A t \in Tags : group'[t] = IF t \in moved THEN y ELSE group[t]
        /\ group' \in [Tags -> Taxonomies \cup {None}]
        /\ taxonomies' \subseteq Taxonomies
        /\ draft' = draft /\ trash' = trash
        /\ floor' = FloorsAfterMove(FloorsUnder(y, level'), moved, group', level')
    BY <1>4 DEF RenameTaxonomy, RenamedLevel
  <2>2. moved \in SUBSET Existing
    BY SensitivityAssumption DEF Existing
  <2>3. level'[y] \in Levels /\ level' \in [Types \cup Taxonomies -> Levels]
    <3>1. Highest({level[y], level[x]}) \in Levels
      BY HighestOfTwo
    <3> QED  BY <2>1, <3>1
  <2>4. FloorsUnder(y, level') \in [Pages -> Levels] /\ Raises(FloorsUnder(y, level'), y)
    BY <2>3, FloorsUnderRaises
  <2>5. \A c \in (Types \cup Taxonomies) \ {y} : level'[c] = level[c]
    BY <2>1
  <2> DEFINE F == FloorsUnder(y, level')
  <2>6. F \in [Pages -> Levels] /\ Raises(F, y) /\ floor' = FloorsAfterMove(F, moved, group', level')
    BY <2>1, <2>4
  <2> HIDE DEF moved, F
  <2> QED  BY <2>1, <2>2, <2>3, <2>5, <2>6, Regrouped
<1>5. ASSUME NEW t \in Tags, NEW x \in Taxonomies, CreateTag(t, x)
      PROVE  Settled(None, 0)
  <2>1. /\ group' = [group EXCEPT ![t] = x] /\ group[t] = None
        /\ level' = level /\ taxonomies' = taxonomies /\ floor' = floor
        /\ draft' = draft /\ trash' = trash
    BY <1>5 DEF CreateTag
  <2>2. Existing \subseteq Existing'
    BY <2>1, SensitivityAssumption DEF Existing
  <2>3. \A s \in Existing : group'[s] = group[s]
    BY <2>1 DEF Existing
  <2>4. TagsExist'
    BY <2>1, <2>2 DEF TagsExist
  <2>5. \A p \in Pages : Under(p)' = Under(p)
    BY <2>1, <2>3 DEF Under, Sources, TagsExist
  <2>6. \A p \in Pages : Exact(p, 0)
    BY <2>1, <2>5, NothingNew
  <2> QED  BY <2>1, <2>4, <2>6 DEF Settled
<1>6. ASSUME NEW t \in Tags, NEW x \in Taxonomies, MoveTag(t, x)
      PROVE  Settled(None, 0)
  <2>1. /\ \A s \in Tags : group'[s] = IF s \in {t} THEN x ELSE group[s]
        /\ group' \in [Tags -> Taxonomies \cup {None}]
        /\ level' = level /\ taxonomies' = taxonomies /\ draft' = draft /\ trash' = trash
        /\ floor' = FloorsAfterMove(floor, {t}, group', level')
    BY <1>6 DEF MoveTag
  <2>2. {t} \in SUBSET Existing
    BY <1>6 DEF MoveTag, Existing
  <2>3. Raises(floor, x)
    BY <2>1, LevelsStand
  <2> QED  BY <2>1, <2>2, <2>3, Regrouped
<1>7. ASSUME NEW t \in Tags, DeleteTag(t)  PROVE Settled(None, 0)
  <2>1. /\ group' = [group EXCEPT ![t] = None]
        /\ draft' = Untagged(draft, t) /\ trash' = Untagged(trash, t)
        /\ level' = level /\ taxonomies' = taxonomies /\ floor' = floor
    BY <1>7 DEF DeleteTag
  <2>2. ASSUME NEW p \in Pages, NEW rows \in [Pages -> Row \cup {None}]
        PROVE  /\ Untagged(rows, t)[p] \in Row \cup {None}
               /\ Untagged(rows, t)[p] = None <=> rows[p] = None
               /\ rows[p] # None => /\ Untagged(rows, t)[p].type = rows[p].type
                                    /\ Untagged(rows, t)[p].tags = rows[p].tags \ {t}
    <3>1. CASE rows[p] = None
      BY <3>1 DEF Untagged
    <3>2. CASE rows[p] # None
      <4>1. rows[p] \in Row
        BY <3>2
      <4>2. /\ Untagged(rows, t)[p] = [rows[p] EXCEPT !.tags = rows[p].tags \ {t}]
            /\ Untagged(rows, t)[p] \in Row
            /\ Untagged(rows, t)[p].type = rows[p].type
            /\ Untagged(rows, t)[p].tags = rows[p].tags \ {t}
        BY <3>2, <4>1 DEF Untagged, Row
      <4> QED  BY <3>2, <4>2, SourcesOfRow
    <3> QED  BY <3>1, <3>2
  <2>3. draft' \in [Pages -> Row \cup {None}] /\ trash' \in [Pages -> Row \cup {None}]
    BY <2>1, <2>2 DEF Untagged
  <2>4. RecordsOK'
    BY <2>1, <2>3
  <2>5. TagsExist'
    BY <2>1, <2>2 DEF TagsExist, Existing
  <2>6. ASSUME NEW p \in Pages  PROVE Under(p)' \subseteq Under(p)
    <3>1. Sources(draft'[p], group') \subseteq Sources(draft[p], group)
      BY <2>1, <2>2, <2>6 DEF Sources, TagsExist, Existing
    <3>2. Sources(trash'[p], group') \subseteq Sources(trash[p], group)
      BY <2>1, <2>2, <2>6 DEF Sources, TagsExist, Existing
    <3> QED  BY <3>1, <3>2 DEF Under
  <2>7. \A p \in Pages : Exact(p, 0)
    BY <2>1, <2>6, NothingNew
  <2> QED  BY <2>4, <2>5, <2>7 DEF Settled
<1> QED
  BY <1>1, <1>2, <1>3, <1>4, <1>5, <1>6, <1>7 DEF Policy

(* Both rows a merge is made of have tags that exist, so has the merge.     *)
LEMMA MergeIsARow ==
    ASSUME NEW from \in Row, NEW to \in Row \cup {None},
           from.tags \subseteq Existing, to # None => to.tags \subseteq Existing
    PROVE  Merge(from, to) \in Row /\ Merge(from, to).tags \subseteq Existing
<1>1. to # None => to.tags \subseteq Tags
  BY SourcesOfRow
<1>2. from.type \in Types /\ from.tags \subseteq Tags
  BY SourcesOfRow
<1> DEFINE tags == from.tags \cup IF to = None THEN {} ELSE to.tags
<1>3. tags \subseteq Tags /\ tags \subseteq Existing
  BY <1>1, <1>2
<1>4. Merge(from, to) = [type |-> from.type, tags |-> tags]
  BY DEF Merge
<1> HIDE DEF tags
<1> QED
  BY <1>2, <1>3, <1>4 DEF Row

LEMMA ContentSettles ==
    ASSUME IInv, Content
    PROVE  Settled(None, 0)
<1>1. /\ draft \in [Pages -> Row \cup {None}] /\ trash \in [Pages -> Row \cup {None}]
      /\ \A p \in Pages : /\ draft[p] # None => draft[p] \in Row /\ draft[p].tags \subseteq Existing
                          /\ trash[p] # None => trash[p] \in Row /\ trash[p].tags \subseteq Existing
  BY DEF IInv, RecordsOK, TagsExist
<1>2. ASSUME NEW p \in Pages, NEW row \in Row, Create(p, row) \/ Save(p, row)
      PROVE  Settled(None, 0)
  <2>1. /\ row.tags \subseteq Existing /\ draft' = [draft EXCEPT ![p] = row]
        /\ floor' = FloorOf(p, row)
        /\ level' = level /\ taxonomies' = taxonomies /\ group' = group /\ trash' = trash
    BY <1>2 DEF Create, Save
  <2>2. /\ draft' \in [Pages -> Row \cup {None}] /\ trash' \in [Pages -> Row \cup {None}]
        /\ draft'[p] = row /\ trash'[p] = trash[p]
        /\ \A q \in Pages \ {p} : draft'[q] = draft[q] /\ trash'[q] = trash[q]
    BY <1>1, <2>1
  <2> QED  BY <2>1, <2>2, OneRow
<1>3. ASSUME NEW p \in Pages, Trash(p)  PROVE Settled(None, 0)
  <2> DEFINE row == Merge(draft[p], trash[p])
  <2>1. /\ draft[p] # None
        /\ trash' = [trash EXCEPT ![p] = row] /\ draft' = [draft EXCEPT ![p] = None]
        /\ floor' = FloorOf(p, row)
        /\ level' = level /\ taxonomies' = taxonomies /\ group' = group
    BY <1>3 DEF Trash
  <2>2. row \in Row /\ row.tags \subseteq Existing
    BY <1>1, <2>1, MergeIsARow
  <2> HIDE DEF row
  <2>3. /\ draft' \in [Pages -> Row \cup {None}] /\ trash' \in [Pages -> Row \cup {None}]
        /\ trash'[p] = row /\ draft'[p] = None
        /\ \A q \in Pages \ {p} : draft'[q] = draft[q] /\ trash'[q] = trash[q]
    BY <1>1, <2>1, <2>2
  <2> QED  BY <2>1, <2>2, <2>3, OneRow
<1>4. ASSUME NEW p \in Pages, Restore(p)  PROVE Settled(None, 0)
  <2> DEFINE row == Merge(trash[p], draft[p])
  <2>1. /\ trash[p] # None
        /\ draft' = [draft EXCEPT ![p] = row] /\ trash' = [trash EXCEPT ![p] = None]
        /\ floor' = FloorOf(p, row)
        /\ level' = level /\ taxonomies' = taxonomies /\ group' = group
    BY <1>4 DEF Restore
  <2>2. row \in Row /\ row.tags \subseteq Existing
    BY <1>1, <2>1, MergeIsARow
  <2> HIDE DEF row
  <2>3. /\ draft' \in [Pages -> Row \cup {None}] /\ trash' \in [Pages -> Row \cup {None}]
        /\ draft'[p] = row /\ trash'[p] = None
        /\ \A q \in Pages \ {p} : draft'[q] = draft[q] /\ trash'[q] = trash[q]
    BY <1>1, <2>1, <2>2
  <2> QED  BY <2>1, <2>2, <2>3, OneRow
<1>5. ASSUME NEW p \in Pages, Purge(p)  PROVE Settled(None, 0)
  <2>1. /\ trash' = [trash EXCEPT ![p] = None] /\ draft' = draft /\ floor' = floor
        /\ level' = level /\ taxonomies' = taxonomies /\ group' = group
    BY <1>5 DEF Purge
  <2>2. \A q \in Pages : trash'[q] \in {trash[q], None}
    BY <1>1, <2>1
  <2>3. RecordsOK' /\ TagsExist'
    BY <2>1, <2>2 DEF IInv, RecordsOK, TagsExist, Existing
  <2>4. \A q \in Pages : Under(q)' \subseteq Under(q)
    BY <2>1, <2>2 DEF Under, Sources
  <2>5. \A q \in Pages : Exact(q, 0)
    BY <2>1, <2>4, NothingNew
  <2> QED  BY <2>3, <2>5 DEF Settled
<1> QED
  BY <1>2, <1>3, <1>4, <1>5 DEF Content

(* A copy inherits the floor of its source, which covers all the source is  *)
(* under, its tags included.                                                *)
LEMMA CloneSettles ==
    ASSUME IInv, NEW p \in Pages, NEW q \in Pages, Clone(p, q)
    PROVE  Settled(q, seen[p])
<1> DEFINE row == [draft[p] EXCEPT !.tags = {}]
<1>1. /\ draft[p] \in Row /\ draft[q] = None /\ trash[q] = None /\ floor[q] = 0 /\ p # q
      /\ draft' = [draft EXCEPT ![q] = row]
      /\ floor' = [floor EXCEPT ![q] = BodyClass(p)]
      /\ level' = level /\ taxonomies' = taxonomies /\ group' = group /\ trash' = trash
  BY DEF Clone, Unused, IInv, RecordsOK
<1>2. row \in Row /\ row.type = draft[p].type /\ row.tags = {}
  BY <1>1 DEF Row
<1>3. floor[p] \in Levels /\ seen[p] = floor[p]
  BY DEF IInv, RecordsOK
<1>4. BodyClass(p) = floor[p]
  <2>1. Class(draft[p], group, level) \in Levels /\ Class(draft[p], group, level) <= floor[p]
    BY CopiesAreCovered
  <2> DEFINE h == BodyClass(p)
  <2>2. /\ floor[p] <= h /\ h \in {Class(draft[p], group, level), floor[p]}
    BY <2>1, <1>3, HighestOfTwo DEF BodyClass
  <2> HIDE DEF h
  <2>3. h = floor[p]
    BY <2>1, <2>2, <1>3 DEF Levels
  <2> QED  BY <2>3 DEF h
<1> HIDE DEF row
<1>5. RecordsOK' /\ TagsExist'
  BY <1>1, <1>2, <1>3, <1>4 DEF IInv, RecordsOK, TagsExist, Existing
<1>6. draft'[q] = row /\ floor'[q] = floor[p]
  BY <1>1, <1>4 DEF IInv, RecordsOK
<1>7. Exact(q, seen[p])
  <2>1. Under(q)' = {draft[p].type}
    <3>1. Under(q)' = Sources(row, group) \cup Sources(None, group)
      BY <1>1, <1>6 DEF Under
    <3>2. Sources(row, group) = {draft[p].type}
      BY <1>2, SourcesOfRow
    <3> QED  BY <3>1, <3>2 DEF Sources
  <2>2. draft[p].type \in Under(p)
    BY <1>1, SourcesOfRow DEF Under
  <2>3. level[draft[p].type] <= floor[p]
    BY <2>2, CopiesAreCovered
  <2> QED  BY <1>1, <1>3, <1>6, <2>1, <2>3 DEF Exact, Levels
<1>8. \A o \in Pages \ {q} : Exact(o, 0)
  <2> SUFFICES ASSUME NEW o \in Pages \ {q}  PROVE Exact(o, 0)
    OBVIOUS
  <2>1. floor'[o] = floor[o] /\ Under(o)' = Under(o)
    BY <1>1 DEF Under, IInv, RecordsOK
  <2> QED  BY <1>1, <2>1, NothingNew
<1> QED
  BY <1>5, <1>7, <1>8 DEF Settled

LEMMA ArriveSettles ==
    ASSUME IInv, NEW p \in Pages, NEW type \in Types, NEW class \in Levels,
           Arrive(p, type, class)
    PROVE  Settled(p, class)
<1> DEFINE row == [type |-> type, tags |-> {}]
<1>1. /\ draft[p] = None /\ draft' = [draft EXCEPT ![p] = row]
      /\ floor' = [floor EXCEPT ![p] = Highest({floor[p], class, level[type]})]
      /\ level' = level /\ taxonomies' = taxonomies /\ group' = group /\ trash' = trash
  BY DEF Arrive
<1>2. row \in Row /\ row.type = type /\ row.tags = {}
  BY DEF Row
<1>3. floor[p] \in Levels /\ level[type] \in Levels
  BY DEF IInv, RecordsOK
<1> HIDE DEF row
<1>4. floor'[p] = Highest({floor[p], class, level[type]}) /\ draft'[p] = row
  BY <1>1 DEF IInv, RecordsOK
<1>5. /\ floor'[p] \in Levels /\ floor[p] <= floor'[p] /\ class <= floor'[p]
      /\ level[type] <= floor'[p] /\ floor'[p] \in {floor[p], class, level[type]}
  BY <1>3, <1>4, HighestOfThree
<1>6. RecordsOK' /\ TagsExist'
  BY <1>1, <1>2, <1>4, <1>5 DEF IInv, RecordsOK, TagsExist, Existing
<1>7. Exact(p, class)
  <2>1. Under(p)' = {type} \cup Sources(trash[p], group)
    <3>1. Sources(row, group) = {type}
      BY <1>2, SourcesOfRow
    <3> QED  BY <3>1, <1>1, <1>4 DEF Under
  <2>2. \A c \in Sources(trash[p], group) : level[c] <= floor[p] /\ level[c] \in Levels
    BY CopiesAreCovered DEF Under, IInv, RecordsOK
  <2>3. \A c \in Under(p)' : level'[c] <= floor'[p]
    BY <1>1, <1>3, <1>5, <2>1, <2>2 DEF Levels
  <2> QED  BY <1>1, <1>5, <2>1, <2>3 DEF Exact
<1>8. \A o \in Pages \ {p} : Exact(o, 0)
  <2> SUFFICES ASSUME NEW o \in Pages \ {p}  PROVE Exact(o, 0)
    OBVIOUS
  <2>1. floor'[o] = floor[o] /\ Under(o)' = Under(o)
    BY <1>1 DEF Under, IInv, RecordsOK
  <2> QED  BY <1>1, <2>1, NothingNew
<1> QED
  BY <1>6, <1>7, <1>8 DEF Settled

-----------------------------------------------------------------------------
(* A step that settles, observed: the history rises with the floors.        *)
LEMMA ObservedSettles ==
    ASSUME IInv, NEW q, NEW i \in Levels, Settled(q, i), Observe(q, i)
    PROVE  IInv'
<1>1. RecordsOK' /\ TagsExist'
  BY DEF Settled
<1>2. ASSUME NEW p \in Pages
      PROVE  floor'[p] = seen'[p] /\ \A c \in Under(p)' : level'[c] <= floor'[p]
  <2> DEFINE own == IF p = q THEN i ELSE 0
             dc == Class(draft'[p], group', level')
             tc == Class(trash'[p], group', level')
             obs == Highest({dc, tc})
  <2>1. own \in Levels
    BY DEF Levels
  <2>2. Exact(p, own)
    BY DEF Settled
  <2>3. /\ draft'[p] \in Row \cup {None} /\ trash'[p] \in Row \cup {None}
        /\ group' \in [Tags -> Taxonomies \cup {None}]
        /\ level' \in [Types \cup Taxonomies -> Levels]
        /\ draft'[p] # None => \A t \in draft'[p].tags : group'[t] # None
        /\ trash'[p] # None => \A t \in trash'[p].tags : group'[t] # None
    BY <1>1 DEF RecordsOK, TagsExist, Existing
  <2>4. /\ dc \in Levels /\ dc \in {0} \cup {level'[c] : c \in Sources(draft'[p], group')}
        /\ \A c \in Sources(draft'[p], group') : level'[c] <= dc
        /\ Sources(draft'[p], group') \subseteq Types \cup Taxonomies
    BY <2>3, ClassIsOfASource
  <2>5. /\ tc \in Levels /\ tc \in {0} \cup {level'[c] : c \in Sources(trash'[p], group')}
        /\ \A c \in Sources(trash'[p], group') : level'[c] <= tc
        /\ Sources(trash'[p], group') \subseteq Types \cup Taxonomies
    BY <2>3, ClassIsOfASource
  <2>6. Under(p)' = Sources(draft'[p], group') \cup Sources(trash'[p], group')
    BY DEF Under
  <2>7. obs = Observed(p)'
    BY DEF Observed
  <2> HIDE DEF dc, tc
  <2>8. obs \in Levels /\ dc <= obs /\ tc <= obs /\ obs \in {dc, tc}
    BY <2>4, <2>5, HighestOfTwo
  <2> HIDE DEF obs, own
  <2>9. seen[p] = floor[p] /\ floor[p] \in Levels /\ floor'[p] \in Levels
    BY <1>1 DEF IInv, RecordsOK
  <2>10. seen'[p] = Highest({floor[p], obs, own})
    BY <2>7, <2>9 DEF Observe, own
  <2>11. /\ seen'[p] \in Levels /\ floor[p] <= seen'[p] /\ obs <= seen'[p] /\ own <= seen'[p]
         /\ seen'[p] \in {floor[p], obs, own}
    BY <2>1, <2>8, <2>9, <2>10, HighestOfThree
  <2>12. /\ floor[p] <= floor'[p] /\ own <= floor'[p]
         /\ \A c \in Under(p)' : level'[c] <= floor'[p]
         /\ floor'[p] \in {floor[p], own} \cup {level'[c] : c \in Under(p)'}
    BY <2>2 DEF Exact
  <2>13. obs <= floor'[p]
    BY <2>4, <2>5, <2>6, <2>8, <2>9, <2>12 DEF Levels
  <2>14. \A c \in Under(p)' : level'[c] <= obs
    <3> SUFFICES ASSUME NEW c \in Under(p)'  PROVE level'[c] <= obs
      OBVIOUS
    <3>1. level'[c] \in Levels
      BY <1>1, <2>4, <2>5, <2>6 DEF RecordsOK
    <3>2. level'[c] <= dc \/ level'[c] <= tc
      BY <2>4, <2>5, <2>6
    <3> QED  BY <3>1, <3>2, <2>4, <2>5, <2>8 DEF Levels
  <2>15. seen'[p] <= floor'[p]
    BY <2>11, <2>12, <2>13
  <2>16. floor'[p] <= seen'[p]
    <3>1. CASE floor'[p] \in {floor[p], own}
      BY <3>1, <2>11
    <3>2. ASSUME NEW c \in Under(p)', floor'[p] = level'[c]
          PROVE  floor'[p] <= seen'[p]
      BY <3>2, <2>8, <2>9, <2>11, <2>14 DEF Levels
    <3> QED  BY <2>12, <3>1, <3>2
  <2>17. floor'[p] = seen'[p]
    BY <2>9, <2>11, <2>15, <2>16 DEF Levels
  <2> QED  BY <2>12, <2>17
<1>3. floor' = seen'
  <2>1. floor' = [p \in Pages |-> floor'[p]]
    BY <1>1 DEF RecordsOK
  <2>2. seen' = [p \in Pages |-> seen'[p]]
    BY DEF Observe
  <2>3. \A p \in Pages : floor'[p] = seen'[p]
    BY <1>2
  <2> QED  BY <2>1, <2>2, <2>3
<1> QED
  BY <1>1, <1>2, <1>3 DEF IInv, Covered

LEMMA StepKeepsFloorsExact ==
    ASSUME IInv, [Next]_vars
    PROVE  IInv'
<1>1. CASE (Policy \/ Content) /\ Observe(None, 0)
  <2>1. Settled(None, 0)
    BY <1>1, PolicySettles, ContentSettles
  <2>2. 0 \in Levels
    BY DEF Levels
  <2> QED  BY <1>1, <2>1, <2>2, ObservedSettles
<1>2. ASSUME NEW p \in Pages, NEW q \in Pages, Clone(p, q), Observe(q, seen[p])
      PROVE  IInv'
  <2>1. seen[p] \in Levels
    BY DEF IInv, RecordsOK
  <2>2. Settled(q, seen[p])
    BY <1>2, CloneSettles
  <2> QED  BY <1>2, <2>1, <2>2, ObservedSettles
<1>3. ASSUME NEW p \in Pages, NEW type \in Types, NEW class \in Classes \cup {0},
             Arrive(p, type, class), Observe(p, class)
      PROVE  IInv'
  <2>1. class \in {0, 1, 2}
    BY SensitivityAssumption
  <2>2. class \in Levels
    BY <2>1 DEF Levels
  <2> QED  BY <1>3, <2>2, ArriveSettles, ObservedSettles
<1>4. CASE UNCHANGED vars
  BY <1>4 DEF vars, records, IInv, RecordsOK, TagsExist, Covered, Existing, Under
<1> QED
  BY <1>1, <1>2, <1>3, <1>4 DEF Next

LEMMA FloorsStartExact ==
    ASSUME Init
    PROVE  IInv
<1>1. RecordsOK /\ TagsExist /\ floor = seen
  BY DEF Init, RecordsOK, TagsExist, Levels
<1>2. Covered
  BY DEF Init, Covered, Under, Sources
<1> QED
  BY <1>1, <1>2 DEF IInv

(* Whatever is classed, saved, tagged, copied, moved to trash and back, the *)
(* floor the triggers keep for a page is exactly the highest class the page *)
(* was ever seen under.                                                     *)
THEOREM FloorsExact == Spec => [](TypeOK /\ FloorIsHighestSeen)
<1>1. IInv => TypeOK /\ FloorIsHighestSeen
  BY DEF IInv, RecordsOK, TypeOK, FloorIsHighestSeen
<1> QED
  BY <1>1, FloorsStartExact, StepKeepsFloorsExact, PTL DEF Spec

-----------------------------------------------------------------------------
(* Levels only rise.                                                        *)
LEMMA LevelsRise ==
    ASSUME IInv, Policy \/ level' = level
    PROVE  \A c \in Types \cup Taxonomies : level[c] <= level'[c]
<1>1. \A c \in Types \cup Taxonomies : level[c] \in Levels /\ level[c] <= level[c]
  BY DEF IInv, RecordsOK, Levels
<1>2. ASSUME NEW c \in Types \cup Taxonomies, NEW m \in Levels,
             level' = [level EXCEPT ![c] = Highest({level[c], m})]
      PROVE  \A b \in Types \cup Taxonomies : level[b] <= level'[b]
  <2>1. level[c] <= Highest({level[c], m})
    BY <1>1, HighestOfTwo
  <2>2. level'[c] = Highest({level[c], m}) /\ \A b \in (Types \cup Taxonomies) \ {c} : level'[b] = level[b]
    BY <1>2 DEF IInv, RecordsOK
  <2> QED  BY <1>1, <2>1, <2>2
<1>3. ASSUME NEW c \in Types \cup Taxonomies, NEW class \in Classes, Classify(c, class)
      PROVE  \A b \in Types \cup Taxonomies : level[b] <= level'[b]
  <2>1. class \in {1, 2}
    BY SensitivityAssumption
  <2>2. class \in Levels
    BY <2>1 DEF Levels
  <2>3. level' = [level EXCEPT ![c] = Highest({level[c], class})]
    BY <1>3 DEF Classify
  <2> QED  BY <1>2, <2>2, <2>3
<1>4. ASSUME NEW x \in Taxonomies, NEW y \in Taxonomies, RenameTaxonomy(x, y)
      PROVE  \A b \in Types \cup Taxonomies : level[b] <= level'[b]
  <2>1. level' = [level EXCEPT ![y] = Highest({level[y], level[x]})]
    BY <1>4 DEF RenameTaxonomy, RenamedLevel
  <2> QED  BY <1>1, <1>2, <2>1
<1>5. \/ level' = level
      \/ \E c \in Types \cup Taxonomies, class \in Classes : Classify(c, class)
      \/ \E x, y \in Taxonomies : RenameTaxonomy(x, y)
  BY DEF Policy, CreateTaxonomy, DeleteTaxonomy, CreateTag, MoveTag, DeleteTag
<1> QED
  BY <1>1, <1>3, <1>4, <1>5

(* A draft that stays a draft keeps its type, or is given one that may      *)
(* replace it.                                                              *)
LEMMA TypeStaysOrIsAllowed ==
    ASSUME IInv, Next, NEW p \in Pages, draft[p] # None, draft'[p] # None
    PROVE  \/ draft'[p].type = draft[p].type
           \/ level' = level /\ MayRetype(p, draft'[p].type)
<1>1. draft \in [Pages -> Row \cup {None}] /\ draft[p] \in Row
  BY DEF IInv, RecordsOK
<1>2. CASE Policy
  <2>1. ASSUME NEW t \in Tags, DeleteTag(t)  PROVE draft'[p].type = draft[p].type
    BY <1>1, <2>1 DEF DeleteTag, Untagged, Row
  <2>2. draft' = draft \/ \E t \in Tags : DeleteTag(t)
    BY <1>2 DEF Policy, Classify, CreateTaxonomy, DeleteTaxonomy, RenameTaxonomy, CreateTag, MoveTag
  <2> QED  BY <2>1, <2>2
<1>3. ASSUME NEW q \in Pages, NEW row \in Row, Create(q, row) \/ Save(q, row)
      PROVE  draft'[p] = draft[p] \/ (level' = level /\ MayRetype(p, draft'[p].type))
  BY <1>1, <1>3 DEF Create, Save, Unused
<1>4. ASSUME NEW q \in Pages, Trash(q) \/ Purge(q)  PROVE draft'[p] = draft[p]
  BY <1>1, <1>4 DEF Trash, Purge
<1>5. ASSUME NEW q \in Pages, Restore(q)
      PROVE  draft'[p] = draft[p] \/ (level' = level /\ MayRetype(p, draft'[p].type))
  <2>1. CASE q = p
    <3>1. draft'[p].type = trash[p].type
      BY <1>1, <1>5, <2>1 DEF Restore, Merge
    <3> QED  BY <1>5, <2>1, <3>1 DEF Restore
  <2>2. CASE q # p
    BY <1>1, <1>5, <2>2 DEF Restore
  <2> QED  BY <2>1, <2>2
<1>6. ASSUME NEW o \in Pages, NEW q \in Pages, Clone(o, q)  PROVE draft'[p] = draft[p]
  BY <1>1, <1>6 DEF Clone, Unused
<1>7. ASSUME NEW q \in Pages, NEW type \in Types, NEW class \in Classes \cup {0},
             Arrive(q, type, class)
      PROVE  draft'[p] = draft[p]
  BY <1>1, <1>7 DEF Arrive
<1> QED
  BY <1>2, <1>3, <1>4, <1>5, <1>6, <1>7 DEF Next, Content

(* No save, restore, classification or regrouping leaves a draft with a     *)
(* type less protected than the one it had: the retype guard compares with  *)
(* the floor, and the floor covers the type.                                *)
THEOREM TypesKeepTheirClass == Spec => TypesNeverWeaken
<1>1. ASSUME IInv, [Next]_vars
      PROVE  [\A p \in Pages : draft[p] # None /\ draft'[p] # None
                 => level[draft[p].type] <= level'[draft'[p].type]]_vars
  <2> SUFFICES ASSUME Next, NEW p \in Pages, draft[p] # None, draft'[p] # None
               PROVE  level[draft[p].type] <= level'[draft'[p].type]
    BY <1>1
  <2>1. draft[p] \in Row /\ draft[p].type \in Types /\ draft[p].type \in Under(p)
    BY <1>1, SourcesOfRow DEF IInv, RecordsOK, Under
  <2>2. level[draft[p].type] <= floor[p] /\ floor[p] \in Levels /\ level[draft[p].type] \in Levels
    BY <1>1, <2>1, CopiesAreCovered DEF IInv, RecordsOK
  <2>3. Policy \/ level' = level
    BY DEF Next, Content, Create, Save, Trash, Restore, Purge, Clone, Arrive
  <2>4. CASE draft'[p].type = draft[p].type
    BY <1>1, <2>1, <2>3, <2>4, LevelsRise
  <2>5. CASE level' = level /\ draft'[p].type # draft[p].type /\ MayRetype(p, draft'[p].type)
    <3>1. floor[p] <= level[draft'[p].type]
      BY <2>5 DEF MayRetype
    <3>2. IInv'
      BY <1>1, StepKeepsFloorsExact
    <3>3. draft'[p] \in Row /\ draft'[p].type \in Types
      BY <3>2, SourcesOfRow DEF IInv, RecordsOK
    <3>4. level[draft'[p].type] \in Levels
      BY <1>1, <3>3 DEF IInv, RecordsOK
    <3> QED  BY <2>2, <2>5, <3>1, <3>4 DEF Levels
  <2> QED  BY <1>1, <2>4, <2>5, TypeStaysOrIsAllowed
<1> QED
  BY <1>1, FloorsStartExact, StepKeepsFloorsExact, PTL DEF Spec, TypesNeverWeaken

-----------------------------------------------------------------------------
(* A publish under way: what it keeps of the page it has begun with.  Until *)
(* the gate has looked, the class of then is covered by the floor; from the *)
(* gate on it is below health data, and once the transfer is audited so is  *)
(* the class of that moment, unless the page was no draft.                  *)
Before == [phase: {"begun"}, page: Pages, type: Types, was: Levels]
Gated  == [phase: {"known", "cleared"}, page: Pages, type: Types, was: 0..1]
Taken  == [phase: {"taken"}, page: Pages, type: Types, was: 0..1,
           groups: SUBSET (Taxonomies \cup {None})]
Audited == [phase: {"audited"}, page: Pages, type: Types, was: 0..1,
            checked: Levels, trashed: BOOLEAN]

Carries(r) ==
    \/ r = Idle
    \/ r \in Before /\ r.was <= seen[r.page]
    \/ r \in Gated \cup Taken
    \/ r \in Audited /\ (r.checked < 2 \/ r.trashed)

PInv == IInv /\ DOMAIN job = Jobs /\ \A j \in Jobs : Carries(job[j])

(* The history of a page only rises.                                        *)
LEMMA SeenRises ==
    ASSUME IInv, [Next]_vars, NEW p \in Pages
    PROVE  seen[p] \in Levels /\ seen'[p] \in Levels /\ seen[p] <= seen'[p]
<1>1. IInv'
  BY StepKeepsFloorsExact
<1>2. seen[p] \in Levels /\ seen'[p] \in Levels
  BY <1>1 DEF IInv, RecordsOK
<1>3. CASE UNCHANGED vars
  BY <1>2, <1>3 DEF vars, Levels
<1>4. CASE Next
  <2>1. \E q, i : Observe(q, i)
    BY <1>4 DEF Next
  <2>2. PICK b, c : seen'[p] = Highest({seen[p], b, c})
    BY <2>1 DEF Observe
  <2>3. seen[p] = 2 => seen'[p] = 2
    BY <2>2 DEF Highest
  <2>4. seen[p] = 1 => seen'[p] \in {1, 2}
    BY <2>2 DEF Highest
  <2> QED  BY <1>2, <2>3, <2>4 DEF Levels
<1> QED  BY <1>3, <1>4

(* What a publish carries stays true while editors go on.                   *)
LEMMA CarriedOn ==
    ASSUME IInv, [Next]_vars, NEW r, Carries(r)
    PROVE  Carries(r)'
<1>1. CASE r \in Before /\ r.was <= seen[r.page]
  <2>1. r.page \in Pages /\ r.was \in Levels
    BY <1>1 DEF Before
  <2>2. seen[r.page] \in Levels /\ seen'[r.page] \in Levels /\ seen[r.page] <= seen'[r.page]
    BY <2>1, SeenRises
  <2>3. r.was <= seen'[r.page]
    BY <1>1, <2>1, <2>2 DEF Levels
  <2> QED  BY <1>1, <2>3 DEF Carries
<1>2. CASE r = Idle \/ r \in Gated \cup Taken \/ (r \in Audited /\ (r.checked < 2 \/ r.trashed))
  BY <1>2 DEF Carries
<1> QED  BY <1>1, <1>2 DEF Carries

(* The record of a publish in each of its phases.                           *)
LEMMA PhaseOf ==
    ASSUME NEW r, Carries(r)
    PROVE  /\ r.phase = "begun" => r \in Before /\ r.was <= seen[r.page]
           /\ r.phase = "known" \/ r.phase = "cleared" => r \in Gated
           /\ r.phase = "taken" => r \in Taken
           /\ r.phase = "audited" => r \in Audited /\ (r.checked < 2 \/ r.trashed)
BY DEF Carries, Idle, Before, Gated, Taken, Audited

(* A step of a publish touches no page.  CheckPage refuses a page that was  *)
(* health data when it began, by the floor; Audit refuses a draft that is.  *)
LEMMA PublishKeeps ==
    ASSUME PInv, [PublishNext]_allVars
    PROVE  PInv'
<1>1. CASE [Next]_vars /\ UNCHANGED publishing
  <2>1. IInv'
    BY <1>1, StepKeepsFloorsExact DEF PInv
  <2>2. job' = job
    BY <1>1 DEF publishing
  <2>3. \A j \in Jobs : Carries(job[j])'
    <3> SUFFICES ASSUME NEW j \in Jobs  PROVE Carries(job[j])'
      OBVIOUS
    <3>1. PICK r : r = job[j]
      OBVIOUS
    <3>2. Carries(r)'
      BY <1>1, <3>1, CarriedOn DEF PInv
    <3> QED  BY <2>2, <3>1, <3>2 DEF Carries
  <2> QED  BY <2>1, <2>2, <2>3 DEF PInv
<1>2. ASSUME NEW j \in Jobs, NEW x, UNCHANGED vars, job' = [job EXCEPT ![j] = x], Carries(x)
      PROVE  PInv'
  <2>1. IInv'
    BY <1>2, StepKeepsFloorsExact DEF PInv
  <2>2. seen' = seen
    BY <1>2 DEF vars
  <2>3. DOMAIN job' = Jobs /\ job'[j] = x /\ \A i \in Jobs \ {j} : job'[i] = job[i]
    BY <1>2 DEF PInv
  <2>4. \A i \in Jobs : Carries(job'[i])
    BY <1>2, <2>3 DEF PInv
  <2> QED  BY <2>1, <2>2, <2>3, <2>4 DEF PInv, Carries
<1>3. Carries(Idle)
  BY DEF Carries
<1>4. ASSUME NEW j \in Jobs, StartRequest(j)  PROVE PInv'
  <2>1. IInv' /\ UNCHANGED <<seen, job>>
    BY <1>4, StepKeepsFloorsExact DEF StartRequest, PInv, vars
  <2> QED  BY <2>1 DEF PInv, Carries
<1>5. ASSUME NEW j \in Jobs, NEW p \in Pages, Begin(j, p)  PROVE PInv'
  <2>1. seen[p] \in Levels /\ seen[p] <= seen[p]
    BY DEF PInv, IInv, RecordsOK, Levels
  <2>2. draft[p].type \in Types
    BY <1>5 DEF Begin, PInv, IInv, RecordsOK, Row
  <2>3. PICK x : x = [phase |-> "begun", page |-> p, type |-> draft[p].type, was |-> seen[p]]
    OBVIOUS
  <2>4. x \in Before /\ x.was <= seen[x.page]
    BY <2>1, <2>2, <2>3 DEF Before
  <2>5. Carries(x)
    BY <2>4 DEF Carries
  <2>6. UNCHANGED vars /\ job' = [job EXCEPT ![j] = x]
    BY <1>5, <2>3 DEF Begin
  <2> QED  BY <1>2, <2>5, <2>6
<1>6. ASSUME NEW j \in Jobs, CheckPage(j)  PROVE PInv'
  <2>1. UNCHANGED vars /\ job[j] \in Before /\ job[j].was <= seen[job[j].page]
    BY <1>6, PhaseOf DEF CheckPage, PInv
  <2>2. CASE Regulated(j)
    BY <1>2, <1>3, <1>6, <2>1, <2>2 DEF CheckPage, Refuse
  <2>3. CASE ~Regulated(j)
    <3>1. PICK x : x = [job[j] EXCEPT !.phase = "known"]
      OBVIOUS
    <3>2. job[j].page \in Pages /\ job[j].was \in Levels
      BY <2>1 DEF Before
    <3>3. seen[job[j].page] \in Levels /\ seen[job[j].page] # 2
      BY <2>3, <3>2 DEF Regulated, PInv, IInv, RecordsOK
    <3>4. job[j].was \in 0..1
      BY <2>1, <3>2, <3>3 DEF Levels
    <3>5. x \in Gated
      BY <2>1, <3>1, <3>4 DEF Before, Gated
    <3>6. Carries(x)
      BY <3>5 DEF Carries
    <3>7. job' = [job EXCEPT ![j] = x]
      BY <1>6, <2>3, <3>1 DEF CheckPage, Goes, PInv
    <3> QED  BY <1>2, <2>1, <3>6, <3>7
  <2> QED  BY <2>2, <2>3
<1>7. ASSUME NEW j \in Jobs, CheckTags(j)  PROVE PInv'
  <2>1. UNCHANGED vars /\ job[j] \in Gated
    BY <1>7, PhaseOf DEF CheckTags, PInv
  <2>2. PICK x : x = [job[j] EXCEPT !.phase = "cleared"]
    OBVIOUS
  <2>3. x \in Gated
    BY <2>1, <2>2 DEF Gated
  <2>4. Carries(x)
    BY <2>3 DEF Carries
  <2>5. job' = [job EXCEPT ![j] = x] \/ job' = [job EXCEPT ![j] = Idle]
    BY <1>7, <2>2 DEF CheckTags, Goes, Refuse, PInv
  <2> QED  BY <1>2, <1>3, <2>1, <2>4, <2>5
<1>8. ASSUME NEW j \in Jobs, TakeSnapshot(j)  PROVE PInv'
  <2>1. UNCHANGED vars /\ job[j] \in Gated
    BY <1>8, PhaseOf DEF TakeSnapshot, PInv
  <2>2. PICK x : x = [phase |-> "taken", page |-> job[j].page, type |-> job[j].type, was |-> job[j].was,
                      groups |-> {group[t] : t \in Tagged(job[j].page)}]
    OBVIOUS
  <2>3. {group[t] : t \in Tagged(job[j].page)} \subseteq Taxonomies \cup {None}
    BY DEF Tagged, Existing, PInv, IInv, RecordsOK
  <2>4. job[j].page \in Pages /\ job[j].type \in Types /\ job[j].was \in 0..1
    BY <2>1 DEF Gated
  <2>5. x \in Taken
    BY <2>2, <2>3, <2>4 DEF Taken
  <2>6. Carries(x)
    BY <2>5 DEF Carries
  <2>7. job' = [job EXCEPT ![j] = x]
    BY <1>8, <2>2 DEF TakeSnapshot
  <2> QED  BY <1>2, <2>1, <2>6, <2>7
<1>9. ASSUME NEW j \in Jobs, Audit(j)  PROVE PInv'
  <2>1. UNCHANGED vars /\ job[j] \in Taken
    BY <1>9, PhaseOf DEF Audit, PInv
  <2>2. CASE AuditRefuses(j)
    BY <1>2, <1>3, <1>9, <2>1, <2>2 DEF Audit
  <2>3. CASE ~AuditRefuses(j)
    <3>1. PICK x : x = [phase |-> "audited", page |-> job[j].page, type |-> job[j].type,
                        was |-> job[j].was, checked |-> seen[job[j].page],
                        trashed |-> draft[job[j].page] = None]
      OBVIOUS
    <3>2. job[j].page \in Pages /\ job[j].type \in Types /\ job[j].was \in 0..1
      BY <2>1 DEF Taken
    <3>3. seen[job[j].page] = floor[job[j].page] /\ seen[job[j].page] \in Levels
      BY <3>2 DEF PInv, IInv, RecordsOK
    <3>4. draft[job[j].page] # None => seen[job[j].page] # 2
      BY <2>3, <3>3 DEF AuditRefuses, FloorOfRow
    <3>5. x \in Audited
      BY <3>1, <3>2, <3>3 DEF Audited
    <3>6. x.checked < 2 \/ x.trashed
      <4>1. CASE draft[job[j].page] = None
        BY <3>1, <4>1
      <4>2. CASE draft[job[j].page] # None
        BY <3>1, <3>3, <3>4, <4>2 DEF Levels
      <4> QED  BY <4>1, <4>2
    <3>7. Carries(x)
      BY <3>5, <3>6 DEF Carries
    <3>8. job' = [job EXCEPT ![j] = x]
      BY <1>9, <2>3, <3>1 DEF Audit
    <3> QED  BY <1>2, <2>1, <3>7, <3>8
  <2> QED  BY <2>2, <2>3
<1>10. ASSUME NEW j \in Jobs, Land(j)  PROVE PInv'
  BY <1>2, <1>3, <1>10 DEF Land
<1>11. CASE UNCHANGED allVars
  BY <1>1, <1>11 DEF allVars
<1> QED
  BY <1>1, <1>4, <1>5, <1>6, <1>7, <1>8, <1>9, <1>10, <1>11 DEF PublishNext

LEMMA PublishStarts ==
    ASSUME PublishInit
    PROVE  PInv
<1>1. IInv
  BY FloorsStartExact DEF PublishInit
<1>2. DOMAIN job = Jobs /\ \A j \in Jobs : job[j] = Idle
  BY DEF PublishInit
<1> QED  BY <1>1, <1>2 DEF PInv, Carries

(* Publishes beside the editors change nothing about floors.                *)
THEOREM FloorsStayExact == PublishSpec => [](TypeOK /\ FloorIsHighestSeen)
<1>1. PInv => TypeOK /\ FloorIsHighestSeen
  BY DEF PInv, IInv, RecordsOK, TypeOK, FloorIsHighestSeen
<1> QED
  BY <1>1, PublishStarts, PublishKeeps, PTL DEF PublishSpec

(* Whatever editors and administrators do between the reads of any number   *)
(* of publishes, a page that was health data when its publish began, or     *)
(* when the transfer was audited and it was still a draft, is not handed to *)
(* a target.                                                                *)
THEOREM HealthDataIsKept == PublishSpec => HealthDataStays
<1>1. ASSUME PInv, [PublishNext]_allVars
      PROVE  [\A j \in Jobs : Land(j) =>
                  job[j].was < 2 /\ (job[j].checked < 2 \/ job[j].trashed)]_allVars
  <2> SUFFICES ASSUME NEW j \in Jobs, Land(j)
               PROVE  job[j].was < 2 /\ (job[j].checked < 2 \/ job[j].trashed)
    OBVIOUS
  <2>1. job[j] \in Audited /\ (job[j].checked < 2 \/ job[j].trashed)
    BY <1>1, PhaseOf DEF Land, PInv
  <2> QED  BY <2>1 DEF Audited
<1> QED
  BY <1>1, PublishStarts, PublishKeeps, PTL DEF PublishSpec, HealthDataStays
-----------------------------------------------------------------------------
(* The R2 target.                                                           *)

(* What a call that nothing runs beside has done so far: of the pages that  *)
(* are left it has yet to put the objects; afterwards they are stored, and  *)
(* the index it has read is the index.                                      *)
R2Alone ==
    \A c \in r2Alone :
        /\ storing[c].phase = "put" => \A p \in storing[c].pages \ storing[c].left : object[p] = storing[c].as
        /\ storing[c].phase \in {"read", "write"} => \A p \in storing[c].pages : object[p] = storing[c].as
        /\ storing[c].phase = "write" => storing[c].index = index
R2Calls == storing = [c \in Calls |-> storing[c]]
R2Inv == R!TypeOK /\ R2Calls /\ R2Alone

Putting == [phase: {"put", "read"}, pages: SUBSET Pages, left: SUBSET Pages, as: 0..MaxStamp]
Listing == [phase: {"write"}, pages: SUBSET Pages, as: 0..MaxStamp, index: R!Listings]

LEMMA R2Phases ==
    ASSUME R2Inv, NEW c \in Calls
    PROVE  /\ storing[c].phase \in {"idle", "put", "read", "write"}
           /\ storing[c].phase \in {"put", "read"} => storing[c] \in Putting
           /\ storing[c].phase = "write" => storing[c] \in Listing
           /\ storing[c].phase = "idle" => storing[c] = R!Idle
<1>1. storing[c] = R!Idle \/ storing[c] \in Putting \/ storing[c] \in Listing
  BY DEF R2Inv, R!TypeOK, R!Call, Putting, Listing
<1>2. CASE storing[c] = R!Idle  BY <1>2 DEF R!Idle
<1>3. CASE storing[c] \in Putting  BY <1>3 DEF Putting
<1>4. CASE storing[c] \in Listing  BY <1>4 DEF Listing
<1> QED  BY <1>1, <1>2, <1>3, <1>4

LEMMA R2Types ==
    ASSUME R2Inv, NEW c \in Calls, NEW q, q = R!Idle \/ q \in Putting \/ q \in Listing,
           storing' = [storing EXCEPT ![c] = q], r2Alone' = R!StillAlone(c),
           object' \in R!Listings, index' \in R!Listings, stamp' \in 0..MaxStamp, r2Lost' \in 0..MaxLost
    PROVE  /\ R!TypeOK' /\ R2Calls'
           /\ storing'[c] = q
           /\ \A d \in r2Alone' : d = c
<1>1. storing'[c] = q /\ \A d \in Calls \ {c} : storing'[d] = storing[d]
  BY DEF R2Inv, R2Calls
<1>2. R2Calls'
  BY DEF R2Inv, R2Calls
<1>3. r2Alone' \subseteq {c}
  BY DEF R!StillAlone
<1>4. \A d \in Calls : storing'[d] = R!Idle \/ storing'[d] \in R!Call
  BY <1>1 DEF R2Inv, R!TypeOK, R!Call, Putting, Listing
<1>5. R!TypeOK'
  BY <1>3, <1>4 DEF R!TypeOK, R!Call, R!Idle, R!Listings
<1> QED  BY <1>1, <1>2, <1>3, <1>5

LEMMA R2Start ==
    ASSUME R2Inv, NEW c \in Calls, NEW P \in SUBSET Pages, R!Publish(c, P) \/ R!Unpublish(c, P),
           r2Alone' = R!StillAlone(c)
    PROVE  R2Inv'
<1>1. PICK n \in 0..MaxStamp : /\ storing' = [storing EXCEPT ![c] = [phase |-> "put", pages |-> P, left |-> P, as |-> n]]
                              /\ stamp' \in 0..MaxStamp
  BY TargetsAssumption DEF R!Publish, R!Unpublish, R!Begin, R2Inv, R!TypeOK, R!R2Assumption
<1>2. UNCHANGED <<object, index, r2Lost>>
  BY DEF R!Publish, R!Unpublish, R!Begin
<1> DEFINE q == [phase |-> "put", pages |-> P, left |-> P, as |-> n]
<1>3. q \in Putting
  BY DEF Putting
<1>4. /\ object' \in R!Listings /\ index' \in R!Listings /\ r2Lost' \in 0..MaxLost
  BY <1>2 DEF R2Inv, R!TypeOK
<1>5. storing' = [storing EXCEPT ![c] = q] /\ stamp' \in 0..MaxStamp
  BY <1>1
<1>6. q.pages = P /\ q.left = P /\ q.phase = "put"
  OBVIOUS
<1> HIDE DEF q
<1>7. /\ R!TypeOK' /\ R2Calls' /\ storing'[c] = q /\ \A d \in r2Alone' : d = c
  BY <1>3, <1>4, <1>5, R2Types
<1>8. R2Alone'
  BY <1>6, <1>7 DEF R2Alone
<1> QED  BY <1>7, <1>8 DEF R2Inv

LEMMA R2Put ==
    ASSUME R2Inv, NEW c \in Calls, NEW p \in Pages, R!Put(c, p), r2Alone' = R!StillAlone(c)
    PROVE  R2Inv'
<1>1. storing[c] \in Putting /\ storing[c].phase = "put"
  BY R2Phases DEF R!Put
<1> DEFINE q == [storing[c] EXCEPT !.left = @ \ {p}, !.phase = IF storing[c].left = {p} THEN "read" ELSE "put"]
<1>2. q \in Putting
  BY <1>1 DEF Putting
<1>3. storing' = [storing EXCEPT ![c] = q]
  BY DEF R!Put, R2Inv, R2Calls
<1>4. object \in [Pages -> 0..MaxStamp] /\ storing[c].as \in 0..MaxStamp
  BY <1>1 DEF R2Inv, R!TypeOK, R!Listings, Putting
<1>5. object' = [object EXCEPT ![p] = storing[c].as]
  BY DEF R!Put
<1>6. object' \in R!Listings /\ index' \in R!Listings /\ stamp' \in 0..MaxStamp /\ r2Lost' \in 0..MaxLost
  BY <1>4, <1>5 DEF R!Put, R2Inv, R!TypeOK, R!Listings
<1>7. q.pages = storing[c].pages /\ q.as = storing[c].as /\ q.left = storing[c].left \ {p}
      /\ q.phase \in {"put", "read"} /\ (q.phase = "read" => storing[c].left = {p})
  BY <1>1 DEF Putting
<1> HIDE DEF q
<1>8. /\ R!TypeOK' /\ R2Calls' /\ storing'[c] = q /\ \A d \in r2Alone' : d = c
  BY <1>2, <1>3, <1>6, R2Types
<1>9. ASSUME c \in r2Alone'  PROVE \A x \in storing[c].pages \ (storing[c].left \ {p}) : object'[x] = storing[c].as
  <2>1. c \in r2Alone
    BY <1>9, <1>1 DEF R!StillAlone
  <2>2. storing[c].pages \subseteq Pages
    BY <1>1 DEF Putting
  <2> QED  BY <2>1, <2>2, <1>1, <1>4, <1>5 DEF R2Inv, R2Alone
<1>10. R2Alone'
  BY <1>8, <1>7, <1>9 DEF R2Alone
<1> QED  BY <1>8, <1>10 DEF R2Inv

LEMMA R2Delete ==
    ASSUME R2Inv, NEW c \in Calls, R!Delete(c), r2Alone' = R!StillAlone(c)
    PROVE  R2Inv'
<1>1. storing[c] \in Putting /\ storing[c].phase = "put" /\ storing[c].as = 0
  BY R2Phases DEF R!Delete
<1> DEFINE q == [storing[c] EXCEPT !.left = {}, !.phase = "read"]
<1>2. q \in Putting
  BY <1>1 DEF Putting
<1>3. storing' = [storing EXCEPT ![c] = q]
  BY DEF R!Delete, R2Inv, R2Calls
<1>4. object \in [Pages -> 0..MaxStamp] /\ 0 \in 0..MaxStamp
  BY <1>1 DEF R2Inv, R!TypeOK, R!Listings, Putting
<1>5. object' = [p \in Pages |-> IF p \in storing[c].pages THEN 0 ELSE object[p]]
  BY DEF R!Delete
<1>6. object' \in R!Listings /\ index' \in R!Listings /\ stamp' \in 0..MaxStamp /\ r2Lost' \in 0..MaxLost
  BY <1>4, <1>5 DEF R!Delete, R2Inv, R!TypeOK, R!Listings
<1>7. q.pages = storing[c].pages /\ q.as = 0 /\ q.phase = "read" /\ storing[c].pages \subseteq Pages
  BY <1>1 DEF Putting
<1> HIDE DEF q
<1>8. /\ R!TypeOK' /\ R2Calls' /\ storing'[c] = q /\ \A d \in r2Alone' : d = c
  BY <1>2, <1>3, <1>6, R2Types
<1>9. R2Alone'
  BY <1>5, <1>7, <1>8 DEF R2Alone
<1> QED  BY <1>8, <1>9 DEF R2Inv

LEMMA R2Read ==
    ASSUME R2Inv, NEW c \in Calls, R!ReadIndex(c), r2Alone' = R!StillAlone(c)
    PROVE  R2Inv'
<1>1. storing[c] \in Putting /\ storing[c].phase = "read"
  BY R2Phases DEF R!ReadIndex
<1> DEFINE q == [phase |-> "write", pages |-> storing[c].pages, as |-> storing[c].as, index |-> index]
<1>2. q \in Listing
  BY <1>1 DEF Putting, Listing, R2Inv, R!TypeOK
<1>3. storing' = [storing EXCEPT ![c] = q]
  BY DEF R!ReadIndex
<1>4. object' \in R!Listings /\ index' \in R!Listings /\ stamp' \in 0..MaxStamp /\ r2Lost' \in 0..MaxLost
  BY DEF R!ReadIndex, R2Inv, R!TypeOK
<1>5. /\ R!TypeOK' /\ R2Calls' /\ storing'[c] = q /\ \A d \in r2Alone' : d = c
  BY <1>2, <1>3, <1>4, R2Types
<1>6. UNCHANGED <<object, index>>
  BY DEF R!ReadIndex
<1>7. ASSUME c \in r2Alone'  PROVE \A x \in storing[c].pages : object[x] = storing[c].as
  <2>1. c \in r2Alone
    BY <1>7, <1>1 DEF R!StillAlone
  <2> QED  BY <2>1, <1>1 DEF R2Inv, R2Alone
<1>8. R2Alone'
  BY <1>5, <1>6, <1>7 DEF R2Alone
<1> QED  BY <1>5, <1>8 DEF R2Inv

LEMMA R2Ends ==
    ASSUME R2Inv, NEW c \in Calls, R!WriteIndex(c) \/ R!Dies(c), r2Alone' = R!StillAlone(c)
    PROVE  R2Inv'
<1>1. storing' = [storing EXCEPT ![c] = R!Idle] /\ UNCHANGED <<object, stamp>>
  BY DEF R!WriteIndex, R!Dies
<1>2. object' \in R!Listings /\ stamp' \in 0..MaxStamp
  BY <1>1 DEF R2Inv, R!TypeOK
<1>3. r2Lost' \in 0..MaxLost
  BY TargetsAssumption DEF R!WriteIndex, R!Dies, R2Inv, R!TypeOK, R!R2Assumption
<1>4. index' \in R!Listings
  <2>1. CASE R!WriteIndex(c)
    <3>1. storing[c] \in Listing
      BY <2>1, R2Phases DEF R!WriteIndex
    <3>2. storing[c].as \in 0..MaxStamp /\ storing[c].index \in [Pages -> 0..MaxStamp]
      BY <3>1 DEF Listing, R!Listings
    <3> QED  BY <2>1, <3>2 DEF R!WriteIndex, R!Listed, R!Listings
  <2>2. CASE R!Dies(c)
    BY <2>2 DEF R!Dies, R2Inv, R!TypeOK
  <2> QED  BY <2>1, <2>2
<1>5. /\ R!TypeOK' /\ R2Calls' /\ storing'[c] = R!Idle /\ \A d \in r2Alone' : d = c
  BY <1>1, <1>2, <1>3, <1>4, R2Types
<1>6. R2Alone'
  BY <1>5 DEF R2Alone, R!Idle
<1> QED  BY <1>5, <1>6 DEF R2Inv

LEMMA R2InvHolds == R!Spec => []R2Inv
<1>1. R!Init => R2Inv
  BY TargetsAssumption DEF R!Init, R2Inv, R!TypeOK, R2Calls, R2Alone, R!Listings, R!Idle, R!R2Assumption
<1>2. R2Inv /\ [R!Next]_(R!vars) => R2Inv'
  <2> SUFFICES ASSUME R2Inv, [R!Next]_(R!vars)  PROVE R2Inv'  OBVIOUS
  <2>1. CASE UNCHANGED R!vars
    BY <2>1 DEF R!vars, R2Inv, R!TypeOK, R2Calls, R2Alone, R!Listings, R!Idle, R!Call
  <2>2. CASE R!Next
    <3>1. PICK c \in Calls : R!Step(c) /\ r2Alone' = R!StillAlone(c)
      BY <2>2 DEF R!Next
    <3> QED  BY <3>1, R2Start, R2Put, R2Delete, R2Read, R2Ends DEF R!Step
  <2> QED  BY <2>1, <2>2
<1> QED  BY <1>1, <1>2, PTL DEF R!Spec

LEMMA R2Lists == R!Spec => R!AloneIsListed
<1> DEFINE A == \A c \in r2Alone : R!WriteIndex(c) =>
          \A p \in Pages : index'[p] = IF p \in storing[c].pages THEN object[p] ELSE index[p]
<1>1. R2Inv /\ [R!Next]_(R!vars) => [A]_(R!vars)
  <2> SUFFICES ASSUME R2Inv, NEW c \in r2Alone, R!WriteIndex(c)
               PROVE  \A p \in Pages : index'[p] = IF p \in storing[c].pages THEN object[p] ELSE index[p]
    OBVIOUS
  <2>1. c \in Calls
    BY DEF R2Inv, R!TypeOK
  <2>2. (\A p \in storing[c].pages : object[p] = storing[c].as) /\ storing[c].index = index
    BY DEF R2Inv, R2Alone, R!WriteIndex
  <2> QED  BY <2>2 DEF R!WriteIndex, R!Listed
<1> QED  BY <1>1, R2InvHolds, PTL DEF R!Spec, R!AloneIsListed

-----------------------------------------------------------------------------
(* The tag catalogue of the published database.                             *)

Reading  == [phase: {"read"}, tags: SUBSET TagIds]
Pushing  == [phase: {"push"}, tags: SUBSET TagIds, rows: T!Sent]
Removing == [phase: {"remove"}, tag: TagIds]
Dropping == [phase: {"unlink", "drop"}, page: PageRows]
Sending  == [phase: {"catalogue", "page"}, page: PageRows, links: SUBSET TagIds, rows: T!Sent]
Calling(q) == q = T!Idle \/ q \in Reading \/ q \in Pushing \/ q \in Removing \/ q \in Dropping \/ q \in Sending

(* Slugs are unique among the tags, and so among the rows a call has read.  *)
OneSlug(rows) == \A t, u \in DOMAIN rows : t # u => rows[t] # rows[u]
TagsOK == /\ \A t, u \in TagIds : t # u /\ slug[t] # None => slug[t] # slug[u]
          /\ \A p \in PageRows : links[p] \subseteq T!Existing
RowsOK == \A c \in Calls : sending[c].phase \in {"push", "catalogue", "page"} => OneSlug(sending[c].rows)

(* What a call that nothing runs beside has read is so, and what it has     *)
(* sent is there.                                                           *)
Sound(sent) == \A t \in DOMAIN sent : t \in TagIds /\ sent[t] = slug[t]
There(ids)  == \A t \in ids : cat[t] = slug[t]
TagsAlone ==
    \A c \in tagsAlone :
        /\ sending[c].phase = "push" =>
               Sound(sending[c].rows) /\ There((sending[c].tags \cap T!Existing) \ DOMAIN sending[c].rows)
        /\ sending[c].phase \in {"catalogue", "page"} => sending[c].links = links[sending[c].page]
        /\ sending[c].phase = "catalogue" => Sound(sending[c].rows) /\ DOMAIN sending[c].rows = sending[c].links
        /\ sending[c].phase = "page" => There(sending[c].links)
TagCalls == sending = [c \in Calls |-> sending[c]]
TInv == T!TypeOK /\ TagCalls /\ TagsOK /\ RowsOK /\ T!SlugsUnique /\ TagsAlone

LEMMA TagPhases ==
    ASSUME TInv, NEW c \in Calls
    PROVE  /\ Calling(sending[c])
           /\ sending[c].phase = "idle" => sending[c] = T!Idle
           /\ sending[c].phase = "read" => sending[c] \in Reading
           /\ sending[c].phase = "push" => sending[c] \in Pushing
           /\ sending[c].phase = "remove" => sending[c] \in Removing
           /\ sending[c].phase \in {"unlink", "drop"} => sending[c] \in Dropping
           /\ sending[c].phase \in {"catalogue", "page"} => sending[c] \in Sending
<1>1. Calling(sending[c])
  BY DEF TInv, T!TypeOK, T!Call, Calling, Reading, Pushing, Removing, Dropping, Sending
<1>2. CASE sending[c] = T!Idle  BY <1>1, <1>2 DEF T!Idle
<1>3. CASE sending[c] \in Reading  BY <1>1, <1>3 DEF Reading
<1>4. CASE sending[c] \in Pushing  BY <1>1, <1>4 DEF Pushing
<1>5. CASE sending[c] \in Removing  BY <1>1, <1>5 DEF Removing
<1>6. CASE sending[c] \in Dropping  BY <1>1, <1>6 DEF Dropping
<1>7. CASE sending[c] \in Sending  BY <1>1, <1>7 DEF Sending
<1> QED  BY <1>1, <1>2, <1>3, <1>4, <1>5, <1>6, <1>7 DEF Calling

Catalogues == [TagIds -> Slugs \cup {None}]

(* A step of one call: what it owes the invariant is about that call only.  *)
LEMMA TagStep ==
    ASSUME TInv, NEW c \in Calls, NEW q, Calling(q), q.phase \in {"push", "catalogue", "page"} => OneSlug(q.rows),
           sending' = [sending EXCEPT ![c] = q], tagsAlone' = T!StillAlone(c),
           cat' \in Catalogues, live' \in [PageRows -> (SUBSET TagIds) \cup {None}],
           slug' \in Catalogues, links' \in [PageRows -> SUBSET TagIds], tagsLost' \in 0..MaxLost
    PROVE  /\ T!TypeOK' /\ TagCalls' /\ RowsOK'
           /\ sending'[c] = q
           /\ \A d \in tagsAlone' : d = c
<1>1. sending'[c] = q /\ \A d \in Calls \ {c} : sending'[d] = sending[d]
  BY DEF TInv, TagCalls
<1>2. TagCalls'
  BY DEF TInv, TagCalls
<1>3. tagsAlone' \subseteq {c}
  BY DEF T!StillAlone
<1>4. \A d \in Calls : sending'[d] = T!Idle \/ sending'[d] \in T!Call
  <2>1. q = T!Idle \/ q \in T!Call
    BY DEF Calling, T!Call, Reading, Pushing, Removing, Dropping, Sending
  <2> QED  BY <2>1, <1>1 DEF TInv, T!TypeOK
<1>5. T!TypeOK'
  BY <1>3, <1>4 DEF T!TypeOK, Catalogues, T!Call, T!Idle, T!Sent
<1>6. RowsOK'
  BY <1>1 DEF TInv, RowsOK
<1> QED  BY <1>1, <1>2, <1>3, <1>5, <1>6

LEMMA CataloguedOK ==
    ASSUME TInv, NEW sent \in T!Sent, OneSlug(sent), cat' = T!Catalogued(sent)
    PROVE  /\ cat' \in Catalogues /\ T!SlugsUnique'
           /\ \A t \in DOMAIN sent : cat'[t] = sent[t]
           /\ Sound(sent) /\ TagsOK => \A t \in TagIds : cat[t] = slug[t] => cat'[t] = slug[t]
<1>1. DOMAIN sent \subseteq TagIds /\ sent \in [DOMAIN sent -> Slugs]
  BY DEF T!Sent
<1>2. cat \in [TagIds -> Slugs \cup {None}]
  BY DEF TInv, T!TypeOK
<1>3. \A t \in TagIds : cat'[t] = IF t \in DOMAIN sent THEN sent[t]
                    ELSE IF \E u \in DOMAIN sent : sent[u] = cat[t] THEN None ELSE cat[t]
  BY DEF T!Catalogued
<1>4. cat' \in Catalogues
  <2>1. \A t \in TagIds : cat'[t] \in Slugs \cup {None}
    BY <1>1, <1>2, <1>3
  <2> QED  BY <2>1 DEF T!Catalogued, Catalogues
<1>5. T!SlugsUnique'
  <2> SUFFICES ASSUME NEW t \in TagIds, NEW u \in TagIds, t # u, cat'[t] # None  PROVE cat'[t] # cat'[u]
    BY DEF T!SlugsUnique
  <2>1. None \notin Slugs
    BY TargetsAssumption DEF T!PublishedTagsAssumption
  <2>2. CASE t \in DOMAIN sent /\ u \in DOMAIN sent
    BY <2>2, <1>3 DEF OneSlug
  <2>3. CASE t \in DOMAIN sent /\ u \notin DOMAIN sent
    BY <2>3, <2>1, <1>1, <1>3
  <2>4. CASE t \notin DOMAIN sent /\ u \in DOMAIN sent
    BY <2>4, <2>1, <1>1, <1>3
  <2>5. CASE t \notin DOMAIN sent /\ u \notin DOMAIN sent
    BY <2>5, <2>1, <1>1, <1>3 DEF TInv, T!SlugsUnique
  <2> QED  BY <2>2, <2>3, <2>4, <2>5
<1>6. \A t \in DOMAIN sent : cat'[t] = sent[t]
  BY <1>1, <1>3
<1>7. ASSUME Sound(sent), TagsOK, NEW t \in TagIds, cat[t] = slug[t]  PROVE cat'[t] = slug[t]
  <2>1. CASE t \in DOMAIN sent
    BY <2>1, <1>6, <1>7 DEF Sound
  <2>2. CASE t \notin DOMAIN sent /\ \E u \in DOMAIN sent : sent[u] = cat[t]
    <3>1. PICK u \in DOMAIN sent : sent[u] = cat[t]
      BY <2>2
    <3>2. u \in TagIds /\ u # t /\ slug[u] = slug[t] /\ slug[u] # None
      BY <3>1, <2>2, <1>1, <1>7, TargetsAssumption DEF Sound, T!PublishedTagsAssumption
    <3> QED  BY <3>2, <1>7 DEF TagsOK
  <2>3. CASE t \notin DOMAIN sent /\ ~ \E u \in DOMAIN sent : sent[u] = cat[t]
    BY <2>3, <1>3, <1>7
  <2> QED  BY <2>1, <2>2, <2>3
<1> QED  BY <1>4, <1>5, <1>6, <1>7

LEMMA RowsRead ==
    ASSUME TInv, NEW S \in SUBSET TagIds
    PROVE  /\ T!Rows(S) \in T!Sent /\ OneSlug(T!Rows(S)) /\ Sound(T!Rows(S))
           /\ DOMAIN T!Rows(S) = S \cap T!Existing
<1>1. \A t \in S \cap T!Existing : slug[t] \in Slugs /\ t \in TagIds /\ slug[t] # None
  BY DEF TInv, T!TypeOK, T!Existing
<1>2. T!Rows(S) \in [S \cap T!Existing -> Slugs]
  BY <1>1 DEF T!Rows
<1>3. T!Rows(S) \in T!Sent
  BY <1>2 DEF T!Sent
<1>4. DOMAIN T!Rows(S) = S \cap T!Existing /\ \A t \in S \cap T!Existing : T!Rows(S)[t] = slug[t]
  BY DEF T!Rows
<1> QED  BY <1>1, <1>3, <1>4 DEF OneSlug, Sound, TInv, TagsOK

LEMMA OnlyOK ==
    ASSUME NEW sent \in T!Sent, NEW ids \in SUBSET DOMAIN sent
    PROVE  /\ T!Only(sent, ids) \in T!Sent /\ DOMAIN T!Only(sent, ids) = ids
           /\ \A t \in ids : T!Only(sent, ids)[t] = sent[t]
           /\ OneSlug(sent) => OneSlug(T!Only(sent, ids))
           /\ Sound(sent) => Sound(T!Only(sent, ids))
<1>1. DOMAIN sent \subseteq TagIds /\ \A t \in DOMAIN sent : sent[t] \in Slugs
  BY DEF T!Sent
<1>2. T!Only(sent, ids) \in [ids -> Slugs]
  BY <1>1 DEF T!Only
<1>3. T!Only(sent, ids) \in T!Sent
  BY <1>1, <1>2 DEF T!Sent
<1>4. DOMAIN T!Only(sent, ids) = ids /\ \A t \in ids : T!Only(sent, ids)[t] = sent[t]
  BY DEF T!Only
<1> QED  BY <1>3, <1>4 DEF OneSlug, Sound

LEMMA TagSave ==
    ASSUME TInv, NEW c \in Calls, NEW t \in TagIds, NEW s \in Slugs, T!SaveTag(c, t, s), tagsAlone' = T!StillAlone(c)
    PROVE  TInv'
<1> DEFINE q == [phase |-> "read", tags |-> {t}]
<1>1. q \in Reading
  BY DEF Reading
<1>2. sending' = [sending EXCEPT ![c] = q] /\ slug' = [slug EXCEPT ![t] = s] /\ UNCHANGED <<links, cat, live, tagsLost>>
  BY DEF T!SaveTag, T!Starts
<1>3. slug \in Catalogues /\ slug' \in Catalogues
  BY <1>2 DEF TInv, T!TypeOK, Catalogues
<1>4. /\ T!TypeOK' /\ TagCalls' /\ RowsOK' /\ sending'[c] = q /\ \A d \in tagsAlone' : d = c
  <2>1. cat' \in Catalogues /\ live' \in [PageRows -> (SUBSET TagIds) \cup {None}] /\ links' \in [PageRows -> SUBSET TagIds]
        /\ tagsLost' \in 0..MaxLost
    BY <1>2 DEF TInv, T!TypeOK, Catalogues
  <2> QED  BY <1>1, <1>2, <1>3, <2>1, TagStep DEF Calling
<1>5. \A x \in TagIds : slug'[x] = IF x = t THEN s ELSE slug[x]
  BY <1>2, <1>3 DEF Catalogues
<1>6. s # None /\ \A u \in TagIds \ {t} : slug[u] # s
  BY TargetsAssumption DEF T!SaveTag, T!PublishedTagsAssumption
<1>7. TagsOK'
  <2>1. \A x, u \in TagIds : x # u /\ slug'[x] # None => slug'[x] # slug'[u]
    BY <1>5, <1>6 DEF TInv, TagsOK
  <2>2. T!Existing \subseteq T!Existing'
    BY <1>5, <1>6 DEF T!Existing
  <2> QED  BY <1>2, <2>1, <2>2 DEF TInv, TagsOK
<1>8. T!SlugsUnique'
  BY <1>2 DEF TInv, T!SlugsUnique
<1>9. TagsAlone'
  BY <1>4 DEF TagsAlone
<1> QED  BY <1>4, <1>7, <1>8, <1>9 DEF TInv

LEMMA TagDelete ==
    ASSUME TInv, NEW c \in Calls, NEW t \in TagIds, T!DeleteTag(c, t), tagsAlone' = T!StillAlone(c)
    PROVE  TInv'
<1> DEFINE q == [phase |-> "remove", tag |-> t]
<1>1. q \in Removing
  BY DEF Removing
<1>2. /\ sending' = [sending EXCEPT ![c] = q] /\ slug' = [slug EXCEPT ![t] = None]
      /\ links' = [p \in PageRows |-> links[p] \ {t}] /\ UNCHANGED <<cat, live, tagsLost>>
  BY DEF T!DeleteTag, T!Starts
<1>3. slug \in Catalogues /\ slug' \in Catalogues
  BY <1>2 DEF TInv, T!TypeOK, Catalogues
<1>4. /\ T!TypeOK' /\ TagCalls' /\ RowsOK' /\ sending'[c] = q /\ \A d \in tagsAlone' : d = c
  <2>1. cat' \in Catalogues /\ live' \in [PageRows -> (SUBSET TagIds) \cup {None}] /\ links' \in [PageRows -> SUBSET TagIds]
        /\ tagsLost' \in 0..MaxLost
    BY <1>2 DEF TInv, T!TypeOK, Catalogues
  <2> QED  BY <1>1, <1>2, <1>3, <2>1, TagStep DEF Calling
<1>5. \A x \in TagIds : slug'[x] = IF x = t THEN None ELSE slug[x]
  BY <1>2, <1>3 DEF Catalogues
<1>6. TagsOK'
  <2>1. \A x, u \in TagIds : x # u /\ slug'[x] # None => slug'[x] # slug'[u]
    BY <1>5 DEF TInv, TagsOK
  <2>2. T!Existing \ {t} \subseteq T!Existing'
    BY <1>5 DEF T!Existing
  <2> QED  BY <1>2, <2>1, <2>2 DEF TInv, TagsOK
<1>7. T!SlugsUnique'
  BY <1>2 DEF TInv, T!SlugsUnique
<1>8. TagsAlone'
  BY <1>4 DEF TagsAlone
<1> QED  BY <1>4, <1>6, <1>7, <1>8 DEF TInv

(* A step that leaves what is in the tables, and begins or ends a call.     *)
Untouched == UNCHANGED <<slug, links, cat>>
LEMMA TagKeeps ==
    ASSUME TInv, Untouched  PROVE TagsOK' /\ T!SlugsUnique' /\ T!Existing' = T!Existing
  BY DEF TInv, Untouched, TagsOK, T!SlugsUnique, T!Existing

LEMMA TagSync ==
    ASSUME TInv, NEW c \in Calls, T!SyncTags(c), tagsAlone' = T!StillAlone(c)
    PROVE  TInv'
<1> DEFINE q == [phase |-> "read", tags |-> TagIds]
<1>1. UNCHANGED <<slug, links, cat, live, tagsLost>> /\ Untouched
  BY DEF T!SyncTags, Untouched
<1>2. /\ cat' \in Catalogues /\ live' \in [PageRows -> (SUBSET TagIds) \cup {None}] /\ links' \in [PageRows -> SUBSET TagIds]
      /\ slug' \in Catalogues /\ tagsLost' \in 0..MaxLost
  BY <1>1 DEF TInv, T!TypeOK, Catalogues
<1>3. q \in Reading /\ sending' = [sending EXCEPT ![c] = q]
  BY DEF Reading, T!SyncTags, T!Starts
<1>4. Calling(q) /\ q.phase = "read"
  BY <1>3 DEF Calling
<1>5. /\ T!TypeOK' /\ TagCalls' /\ RowsOK' /\ sending'[c] = q /\ \A d \in tagsAlone' : d = c
  <2> HIDE DEF q
  <2> QED  BY <1>2, <1>3, <1>4, TagStep
<1>6. TagsAlone'
  BY <1>5 DEF TagsAlone
<1> QED  BY <1>1, <1>5, <1>6, TagKeeps DEF TInv

LEMMA TagBegins ==
    ASSUME TInv, NEW c \in Calls, NEW p \in PageRows, T!StartPublish(c, p) \/ T!StartUnpublish(c, p),
           tagsAlone' = T!StillAlone(c)
    PROVE  TInv'
<1>1. UNCHANGED <<slug, links, cat, live, tagsLost>> /\ Untouched
  BY DEF T!StartPublish, T!StartUnpublish, Untouched
<1>2. /\ cat' \in Catalogues /\ live' \in [PageRows -> (SUBSET TagIds) \cup {None}] /\ links' \in [PageRows -> SUBSET TagIds]
      /\ slug' \in Catalogues /\ tagsLost' \in 0..MaxLost /\ links[p] \in SUBSET TagIds
  BY <1>1 DEF TInv, T!TypeOK, Catalogues
<1>4. CASE T!StartUnpublish(c, p)
  <2> DEFINE q == [phase |-> "unlink", page |-> p]
  <2>1. q \in Dropping /\ sending' = [sending EXCEPT ![c] = q]
    BY <1>4 DEF Dropping, T!StartUnpublish, T!Starts
  <2>2. /\ T!TypeOK' /\ TagCalls' /\ RowsOK' /\ sending'[c] = q /\ \A d \in tagsAlone' : d = c
    BY <1>2, <2>1, TagStep DEF Calling
  <2>3. TagsAlone'
    BY <2>2 DEF TagsAlone
  <2> QED  BY <1>1, <2>2, <2>3, TagKeeps DEF TInv
<1>5. CASE T!StartPublish(c, p)
  <2> DEFINE to == IF links[p] = {} THEN "page" ELSE "catalogue"
             q == [phase |-> to, page |-> p, links |-> links[p], rows |-> T!Rows(links[p])]
  <2>1. T!Rows(links[p]) \in T!Sent /\ OneSlug(T!Rows(links[p])) /\ Sound(T!Rows(links[p]))
        /\ DOMAIN T!Rows(links[p]) = links[p]
    <3>1. links[p] \cap T!Existing = links[p]
      BY DEF TInv, TagsOK
    <3> QED  BY <1>2, <3>1, RowsRead
  <2>2. q \in Sending
    BY <1>2, <2>1 DEF Sending
  <2>3. sending' = [sending EXCEPT ![c] = q]
    BY <1>5 DEF T!StartPublish, T!Starts
  <2>4. /\ T!TypeOK' /\ TagCalls' /\ RowsOK' /\ sending'[c] = q /\ \A d \in tagsAlone' : d = c
    BY <1>2, <2>1, <2>2, <2>3, TagStep DEF Calling
  <2>5. sending'[c].phase = to /\ sending'[c].page = p /\ sending'[c].links = links[p] /\ sending'[c].rows = T!Rows(links[p])
    BY <2>4
  <2>6. links' = links /\ (to = "page" => links[p] = {})
    BY <1>1
  <2>7. TagsAlone'
    <3> SUFFICES ASSUME c \in tagsAlone'
                 PROVE  /\ links[p] = links'[p]
                        /\ to = "catalogue" => Sound(sending[c].rows)' /\ DOMAIN sending'[c].rows = links[p]
                        /\ to = "page" => There(sending[c].links)'
      BY <2>4, <2>5 DEF TagsAlone
    <3>1. Sound(sending[c].rows)'
      BY <1>1, <2>1, <2>5 DEF Sound
    <3>2. to = "page" => sending'[c].links = {}
      BY <2>5
    <3> QED  BY <2>1, <2>5, <2>6, <3>1, <3>2 DEF There
  <2> QED  BY <1>1, <2>4, <2>7, TagKeeps DEF TInv
<1> QED  BY <1>4, <1>5

LEMMA TagRead ==
    ASSUME TInv, NEW c \in Calls, T!ReadTags(c), tagsAlone' = T!StillAlone(c)
    PROVE  TInv'
<1>1. UNCHANGED <<slug, links, cat, live, tagsLost>> /\ Untouched
  BY DEF T!ReadTags, Untouched
<1>2. /\ cat' \in Catalogues /\ live' \in [PageRows -> (SUBSET TagIds) \cup {None}] /\ links' \in [PageRows -> SUBSET TagIds]
      /\ slug' \in Catalogues /\ tagsLost' \in 0..MaxLost
  BY <1>1 DEF TInv, T!TypeOK, Catalogues
<1>3. sending[c] \in Reading
  BY TagPhases DEF T!ReadTags
<1> DEFINE S == sending[c].tags
<1>4. S \in SUBSET TagIds
  BY <1>3 DEF Reading
<1>5. CASE S \cap T!Existing = {}
  <2>1. sending' = [sending EXCEPT ![c] = T!Idle]
    BY <1>5 DEF T!ReadTags
  <2>2. /\ T!TypeOK' /\ TagCalls' /\ RowsOK' /\ sending'[c] = T!Idle /\ \A d \in tagsAlone' : d = c
    <3>1. Calling(T!Idle) /\ T!Idle.phase = "idle"
      BY DEF Calling, T!Idle
    <3> QED  BY <1>2, <2>1, <3>1, TagStep
  <2>3. TagsAlone'
    BY <2>2 DEF TagsAlone, T!Idle
  <2> QED  BY <1>1, <2>2, <2>3, TagKeeps DEF TInv
<1>6. CASE S \cap T!Existing # {}
  <2> DEFINE q == [phase |-> "push", tags |-> S, rows |-> T!Rows(S)]
  <2>1. T!Rows(S) \in T!Sent /\ OneSlug(T!Rows(S)) /\ Sound(T!Rows(S)) /\ DOMAIN T!Rows(S) = S \cap T!Existing
    BY <1>4, RowsRead
  <2>2. q \in Pushing
    BY <1>4, <2>1 DEF Pushing
  <2>3. sending' = [sending EXCEPT ![c] = q]
    BY <1>6 DEF T!ReadTags
  <2>4. /\ T!TypeOK' /\ TagCalls' /\ RowsOK' /\ sending'[c] = q /\ \A d \in tagsAlone' : d = c
    BY <1>2, <2>1, <2>2, <2>3, TagStep DEF Calling
  <2>5. sending'[c].phase = "push" /\ sending'[c].tags = S /\ sending'[c].rows = T!Rows(S)
    BY <2>4
  <2>6. \A t \in DOMAIN T!Rows(S) : t \in TagIds /\ T!Rows(S)[t] = slug'[t]
    BY <1>1, <2>1 DEF Sound
  <2>7. T!Existing' = T!Existing
    BY <1>1, TagKeeps
  <2>8. TagsAlone'
    <3> SUFFICES ASSUME c \in tagsAlone'
                 PROVE  Sound(sending[c].rows)' /\ There((sending[c].tags \cap T!Existing) \ DOMAIN sending[c].rows)'
      BY <2>4, <2>5 DEF TagsAlone
    <3> QED  BY <2>1, <2>5, <2>6, <2>7 DEF Sound, There
  <2> QED  BY <1>1, <2>4, <2>8, TagKeeps DEF TInv
<1> QED  BY <1>5, <1>6

LEMMA LowestIn == \A S : T!Lowest(S) \subseteq S
  BY DEF T!Lowest

LEMMA TagPush ==
    ASSUME TInv, NEW c \in Calls, T!PushTags(c)
    PROVE  /\ tagsAlone' = T!StillAlone(c) => TInv'
           /\ c \in tagsAlone /\ sending'[c] = T!Idle => \A t \in sending[c].tags \cap T!Existing : cat'[t] = slug[t]
<1>1. UNCHANGED <<slug, links, live, tagsLost>>
  BY DEF T!PushTags
<1>2. sending[c] \in Pushing /\ sending[c].phase = "push"
  BY TagPhases DEF T!PushTags
<1> DEFINE rows == sending[c].rows
           batch == T!Lowest(DOMAIN rows)
           rest == DOMAIN rows \ batch
           sent == T!Only(rows, batch)
           more == T!Only(rows, rest)
           S == sending[c].tags
<1>3. rows \in T!Sent /\ S \in SUBSET TagIds /\ OneSlug(rows)
  BY <1>2 DEF Pushing, TInv, RowsOK
<1>4. batch \subseteq DOMAIN rows /\ rest \subseteq DOMAIN rows
  BY LowestIn
<1> HIDE DEF batch
<1>5. /\ sent \in T!Sent /\ DOMAIN sent = batch /\ OneSlug(sent) /\ \A t \in batch : sent[t] = rows[t]
      /\ Sound(rows) => Sound(sent)
  BY <1>3, <1>4, OnlyOK
<1>6. /\ more \in T!Sent /\ DOMAIN more = rest /\ OneSlug(more) /\ \A t \in rest : more[t] = rows[t]
      /\ Sound(rows) => Sound(more)
  BY <1>3, <1>4, OnlyOK
<1>7. cat' = T!Catalogued(sent)
  BY DEF T!PushTags, batch
<1>8. /\ cat' \in Catalogues /\ T!SlugsUnique'
      /\ \A t \in DOMAIN sent : cat'[t] = sent[t]
      /\ Sound(sent) => \A t \in TagIds : cat[t] = slug[t] => cat'[t] = slug[t]
  BY <1>5, <1>7, CataloguedOK DEF TInv
<1>9. TagsOK' /\ T!Existing' = T!Existing
  BY <1>1 DEF TInv, TagsOK, T!Existing
<1>10. ASSUME c \in tagsAlone
       PROVE  /\ Sound(rows) /\ Sound(sent) /\ Sound(more)
              /\ \A t \in (S \cap T!Existing) \ rest : cat'[t] = slug[t]
  <2>1. Sound(rows) /\ \A t \in (S \cap T!Existing) \ DOMAIN rows : cat[t] = slug[t]
    BY <1>2, <1>10 DEF TInv, TagsAlone, There
  <2>2. Sound(sent) /\ Sound(more)
    BY <1>5, <1>6, <2>1
  <2>3. \A t \in batch : cat'[t] = slug[t]
    BY <1>5, <1>8, <2>2 DEF Sound
  <2>4. \A t \in (S \cap T!Existing) \ DOMAIN rows : cat'[t] = slug[t]
    BY <1>8, <2>1, <2>2 DEF T!Existing
  <2>5. \A t \in (S \cap T!Existing) \ rest : t \in batch \/ t \in (S \cap T!Existing) \ DOMAIN rows
    OBVIOUS
  <2> QED  BY <2>1, <2>2, <2>3, <2>4, <2>5
<1>11. /\ live' \in [PageRows -> (SUBSET TagIds) \cup {None}] /\ links' \in [PageRows -> SUBSET TagIds]
       /\ slug' \in Catalogues /\ tagsLost' \in 0..MaxLost
  BY <1>1 DEF TInv, T!TypeOK, Catalogues
<1>12. CASE batch = DOMAIN rows
  <2>1. c \in tagsAlone => \A t \in S \cap T!Existing : cat'[t] = slug[t]
    BY <1>10, <1>12
  <2>2. ASSUME tagsAlone' = T!StillAlone(c)  PROVE TInv'
    <3>1. sending' = [sending EXCEPT ![c] = T!Idle]
      BY <1>12 DEF T!PushTags, batch
    <3>2. Calling(T!Idle) /\ T!Idle.phase = "idle"
      BY DEF Calling, T!Idle
    <3>3. /\ T!TypeOK' /\ TagCalls' /\ RowsOK' /\ sending'[c] = T!Idle /\ \A d \in tagsAlone' : d = c
      BY <1>8, <1>11, <2>2, <3>1, <3>2, TagStep
    <3>4. TagsAlone'
      BY <3>2, <3>3 DEF TagsAlone
    <3> QED  BY <1>8, <1>9, <3>3, <3>4 DEF TInv
  <2> QED  BY <2>1, <2>2
<1>13. CASE batch # DOMAIN rows
  <2> DEFINE q == [phase |-> "push", tags |-> S, rows |-> more]
  <2>1. q \in Pushing
    BY <1>3, <1>6 DEF Pushing
  <2>2. sending' = [sending EXCEPT ![c] = q]
    BY <1>13 DEF T!PushTags, batch
  <2>3. sending'[c] = q
    BY <2>2 DEF TInv, TagCalls
  <2>4. /\ sending'[c].phase = "push" /\ sending'[c].tags = S /\ sending'[c].rows = more
        /\ sending'[c] # T!Idle
    BY <2>3 DEF T!Idle
  <2>5. ASSUME tagsAlone' = T!StillAlone(c)  PROVE TInv'
    <3>1. /\ T!TypeOK' /\ TagCalls' /\ RowsOK' /\ sending'[c] = q /\ \A d \in tagsAlone' : d = c
      BY <1>6, <1>8, <1>11, <2>1, <2>2, <2>5, TagStep DEF Calling
    <3>2. TagsAlone'
      <4> SUFFICES ASSUME c \in tagsAlone'
                   PROVE  Sound(sending[c].rows)' /\ There((sending[c].tags \cap T!Existing) \ DOMAIN sending[c].rows)'
        BY <2>4, <3>1 DEF TagsAlone
      <4>1. c \in tagsAlone
        BY <1>2, <2>5 DEF T!StillAlone
      <4> QED  BY <1>1, <1>6, <1>9, <1>10, <2>4, <4>1 DEF Sound, There
    <3> QED  BY <1>8, <1>9, <3>1, <3>2 DEF TInv
  <2> QED  BY <2>4, <2>5
<1> QED  BY <1>12, <1>13

LEMMA TagEnds ==
    ASSUME TInv, NEW c \in Calls, T!RemoveTag(c) \/ T!SendPage(c) \/ T!Drop(c) \/ T!Dies(c), tagsAlone' = T!StillAlone(c)
    PROVE  TInv'
<1>1. sending' = [sending EXCEPT ![c] = T!Idle] /\ UNCHANGED <<slug, links>>
  BY DEF T!RemoveTag, T!SendPage, T!Drop, T!Dies, T!Ends
<1>2. slug' \in Catalogues /\ links' \in [PageRows -> SUBSET TagIds] /\ tagsLost' \in 0..MaxLost
  BY <1>1, TargetsAssumption
     DEF T!RemoveTag, T!SendPage, T!Drop, T!Dies, TInv, T!TypeOK, Catalogues, T!PublishedTagsAssumption
<1>3. cat \in Catalogues /\ live \in [PageRows -> (SUBSET TagIds) \cup {None}]
  BY DEF TInv, T!TypeOK, Catalogues
<1>4. cat' \in Catalogues /\ T!SlugsUnique'
  <2>1. CASE T!RemoveTag(c)
    <3>1. PICK t : cat' = [cat EXCEPT ![t] = None]
      BY <2>1 DEF T!RemoveTag
    <3>2. cat' \in Catalogues
      BY <1>3, <3>1 DEF Catalogues
    <3>3. \A u \in TagIds : cat'[u] = cat[u] \/ cat'[u] = None
      BY <1>3, <3>1 DEF Catalogues
    <3> QED  BY <3>2, <3>3 DEF TInv, T!SlugsUnique
  <2>2. CASE cat' = cat
    BY <1>3, <2>2 DEF TInv, T!SlugsUnique
  <2> QED  BY <2>1, <2>2 DEF T!SendPage, T!Drop, T!Dies
<1>5. live' \in [PageRows -> (SUBSET TagIds) \cup {None}]
  <2>1. CASE T!RemoveTag(c)
    <3>1. PICK t : live' = [p \in PageRows |-> IF live[p] = None THEN None ELSE live[p] \ {t}]
      BY <2>1 DEF T!RemoveTag, T!WithoutTag
    <3> QED  BY <1>3, <3>1
  <2>2. CASE T!SendPage(c)
    <3>1. sending[c] \in Sending
      BY <2>2, TagPhases DEF T!SendPage
    <3>2. sending[c].links \in SUBSET TagIds
      BY <3>1 DEF Sending
    <3> QED  BY <1>3, <2>2, <3>2 DEF T!SendPage
  <2>3. CASE T!Drop(c)
    <3>1. sending[c] \in Dropping
      BY <2>3, TagPhases DEF T!Drop
    <3>2. sending[c].page \in PageRows /\ live' = [live EXCEPT ![sending[c].page] = None]
      BY <2>3, <3>1 DEF Dropping, T!Drop
    <3> QED  BY <1>3, <3>2
  <2>4. CASE T!Dies(c)
    BY <1>3, <2>4 DEF T!Dies
  <2> QED  BY <2>1, <2>2, <2>3, <2>4
<1>6. Calling(T!Idle) /\ T!Idle.phase = "idle"
  BY DEF Calling, T!Idle
<1>7. /\ T!TypeOK' /\ TagCalls' /\ RowsOK' /\ sending'[c] = T!Idle /\ \A d \in tagsAlone' : d = c
  BY <1>1, <1>2, <1>4, <1>5, <1>6, TagStep
<1>8. TagsAlone'
  BY <1>6, <1>7 DEF TagsAlone
<1>9. TagsOK'
  BY <1>1 DEF TInv, TagsOK, T!Existing
<1> QED  BY <1>4, <1>7, <1>8, <1>9 DEF TInv

LEMMA TagSend ==
    ASSUME TInv, NEW c \in Calls, T!SendCatalogue(c), tagsAlone' = T!StillAlone(c)
    PROVE  TInv'
<1>1. sending[c] \in Sending /\ sending[c].phase = "catalogue"
  BY TagPhases DEF T!SendCatalogue
<1>2. UNCHANGED <<slug, links, live, tagsLost>>
  BY DEF T!SendCatalogue
<1> DEFINE q == [sending[c] EXCEPT !.phase = "page"]
<1>3. q \in Sending /\ q.phase = "page" /\ q.page = sending[c].page /\ q.links = sending[c].links /\ q.rows = sending[c].rows
  BY <1>1 DEF Sending
<1>4. sending' = [sending EXCEPT ![c] = q]
  BY DEF T!SendCatalogue, TInv, TagCalls
<1>5. sending[c].rows \in T!Sent /\ OneSlug(sending[c].rows)
  BY <1>1 DEF Sending, TInv, RowsOK
<1>6. /\ cat' \in Catalogues /\ T!SlugsUnique'
      /\ \A t \in DOMAIN sending[c].rows : cat'[t] = sending[c].rows[t]
  BY <1>5, CataloguedOK DEF T!SendCatalogue
<1>7. /\ live' \in [PageRows -> (SUBSET TagIds) \cup {None}] /\ links' \in [PageRows -> SUBSET TagIds]
      /\ slug' \in Catalogues /\ tagsLost' \in 0..MaxLost
  BY <1>2 DEF TInv, T!TypeOK, Catalogues
<1>8. /\ T!TypeOK' /\ TagCalls' /\ RowsOK' /\ sending'[c] = q /\ \A d \in tagsAlone' : d = c
  <2>1. Calling(q) /\ OneSlug(q.rows)
    BY <1>3, <1>5 DEF Calling
  <2> HIDE DEF q
  <2> QED  BY <1>4, <1>6, <1>7, <2>1, TagStep
<1>9. TagsOK' /\ links' = links
  BY <1>2 DEF TInv, TagsOK, T!Existing
<1>10. ASSUME c \in tagsAlone'
       PROVE  sending[c].links = links[sending[c].page] /\ \A t \in sending[c].links : cat'[t] = slug[t]
  <2>1. c \in tagsAlone
    BY <1>1, <1>10 DEF T!StillAlone
  <2>2. Sound(sending[c].rows) /\ DOMAIN sending[c].rows = sending[c].links /\ sending[c].links = links[sending[c].page]
    BY <1>1, <2>1 DEF TInv, TagsAlone
  <2> QED  BY <1>6, <2>2 DEF Sound
<1>11. TagsAlone'
  <2>1. /\ sending'[c].phase = "page" /\ sending'[c].page = sending[c].page /\ sending'[c].links = sending[c].links
    BY <1>3, <1>8
  <2> QED  BY <1>2, <1>8, <1>9, <1>10, <2>1 DEF TagsAlone, There
<1> QED  BY <1>6, <1>8, <1>9, <1>11 DEF TInv

LEMMA TagUnlink ==
    ASSUME TInv, NEW c \in Calls, T!Unlink(c), tagsAlone' = T!StillAlone(c)
    PROVE  TInv'
<1>1. sending[c] \in Dropping
  BY TagPhases DEF T!Unlink
<1>2. UNCHANGED <<slug, links, cat, tagsLost>> /\ Untouched
  BY DEF T!Unlink, Untouched
<1> DEFINE q == [sending[c] EXCEPT !.phase = "drop"]
<1>3. q \in Dropping /\ q.phase = "drop"
  BY <1>1 DEF Dropping
<1>4. sending' = [sending EXCEPT ![c] = q]
  BY DEF T!Unlink, TInv, TagCalls
<1>5. /\ cat' \in Catalogues /\ links' \in [PageRows -> SUBSET TagIds] /\ slug' \in Catalogues /\ tagsLost' \in 0..MaxLost
  BY <1>2 DEF TInv, T!TypeOK, Catalogues
<1>6. live' \in [PageRows -> (SUBSET TagIds) \cup {None}]
  BY DEF T!Unlink, TInv, T!TypeOK
<1>7. /\ T!TypeOK' /\ TagCalls' /\ RowsOK' /\ sending'[c] = q /\ \A d \in tagsAlone' : d = c
  <2>1. Calling(q)
    BY <1>3 DEF Calling
  <2> HIDE DEF q
  <2> QED  BY <1>3, <1>4, <1>5, <1>6, <2>1, TagStep
<1>8. TagsAlone'
  BY <1>3, <1>7 DEF TagsAlone
<1> QED  BY <1>2, <1>7, <1>8, TagKeeps DEF TInv

LEMMA TagLink ==
    ASSUME TInv, NEW p \in PageRows, NEW S \in SUBSET TagIds, T!Link(p, S), tagsAlone' = {}
    PROVE  TInv'
<1>1. UNCHANGED <<slug, cat, live, sending, tagsLost>> /\ links' = [links EXCEPT ![p] = S] /\ S \subseteq T!Existing
  BY DEF T!Link
<1>2. T!TypeOK'
  BY <1>1 DEF TInv, T!TypeOK, T!Call, T!Idle, T!Sent
<1>3. TagsOK'
  BY <1>1 DEF TInv, TagsOK, T!Existing, T!TypeOK
<1> QED  BY <1>1, <1>2, <1>3 DEF TInv, TagCalls, RowsOK, T!SlugsUnique, TagsAlone

LEMMA TInvHolds == T!Spec => []TInv
<1>1. T!Init => TInv
  <2> SUFFICES ASSUME T!Init  PROVE TInv  OBVIOUS
  <2>1. T!TypeOK
    <3>1. slug \in [TagIds -> Slugs \cup {None}] /\ links \in [PageRows -> SUBSET TagIds] /\ cat \in [TagIds -> Slugs \cup {None}]
      BY DEF T!Init
    <3>2. live \in [PageRows -> (SUBSET TagIds) \cup {None}]
      BY DEF T!Init
    <3>3. (\A c \in Calls : sending[c] = T!Idle) /\ tagsAlone \subseteq Calls
      BY DEF T!Init
    <3>4. tagsLost \in 0..MaxLost
      BY TargetsAssumption DEF T!Init, T!PublishedTagsAssumption
    <3> QED  BY <3>1, <3>2, <3>3, <3>4 DEF T!TypeOK
  <2>2. TagCalls /\ TagsOK /\ T!SlugsUnique /\ TagsAlone
    BY DEF T!Init, TagCalls, TagsOK, T!SlugsUnique, TagsAlone, T!Existing
  <2>3. RowsOK
    BY DEF T!Init, RowsOK, T!Idle
  <2> QED  BY <2>1, <2>2, <2>3 DEF TInv
<1>2. TInv /\ [T!Next]_(T!vars) => TInv'
  <2> SUFFICES ASSUME TInv, [T!Next]_(T!vars)  PROVE TInv'  OBVIOUS
  <2>1. CASE UNCHANGED T!vars
    <3>1. UNCHANGED <<slug, links, cat, live, sending, tagsLost, tagsAlone>>
      BY <2>1 DEF T!vars
    <3>2. T!TypeOK'
      BY <3>1 DEF TInv, T!TypeOK, T!Call, T!Idle, T!Sent
    <3>3. TagCalls' /\ TagsOK' /\ T!SlugsUnique'
      BY <3>1 DEF TInv, TagCalls, TagsOK, T!SlugsUnique, T!Existing
    <3>4. RowsOK' /\ TagsAlone'
      BY <3>1 DEF TInv, RowsOK, TagsAlone, T!Existing, Sound, There
    <3> QED  BY <3>2, <3>3, <3>4 DEF TInv
  <2>2. CASE T!Next
    <3>1. CASE \E c \in Calls : T!Step(c) /\ tagsAlone' = T!StillAlone(c)
      <4>1. PICK c \in Calls : T!Step(c) /\ tagsAlone' = T!StillAlone(c)
        BY <3>1
      <4>2. CASE \E t \in TagIds, s \in Slugs : T!SaveTag(c, t, s)
        BY <4>1, <4>2, TagSave
      <4>3. CASE \E t \in TagIds : T!DeleteTag(c, t)
        BY <4>1, <4>3, TagDelete
      <4>4. CASE \E p \in PageRows : T!StartPublish(c, p) \/ T!StartUnpublish(c, p)
        BY <4>1, <4>4, TagBegins
      <4>5. CASE T!SyncTags(c)
        BY <4>1, <4>5, TagSync
      <4> QED  BY <4>1, <4>2, <4>3, <4>4, <4>5, TagRead, TagPush, TagEnds, TagSend, TagUnlink DEF T!Step
    <3>2. CASE (\E p \in PageRows, tags \in SUBSET TagIds : T!Link(p, tags)) /\ tagsAlone' = {}
      BY <3>2, TagLink
    <3> QED  BY <2>2, <3>1, <3>2 DEF T!Next
  <2> QED  BY <2>1, <2>2
<1> QED  BY <1>1, <1>2, PTL DEF T!Spec

LEMMA TagsSettle == T!Spec => T!AloneSettles
<1> DEFINE A == \A c \in tagsAlone :
          /\ T!SendPage(c) => LET p == sending[c].page IN
                 live'[p] = links[p] /\ \A t \in links[p] : cat[t] = slug[t]
          /\ T!PushTags(c) /\ sending'[c] = T!Idle =>
                 \A t \in sending[c].tags \cap T!Existing : cat'[t] = slug[t]
          /\ T!RemoveTag(c) => \A p \in PageRows : live'[p] # None => sending[c].tag \notin live'[p]
<1>1. TInv /\ [T!Next]_(T!vars) => [A]_(T!vars)
  <2> SUFFICES ASSUME TInv, T!Next, NEW c \in tagsAlone
               PROVE  /\ T!SendPage(c) => live'[sending[c].page] = links[sending[c].page]
                                          /\ \A t \in links[sending[c].page] : cat[t] = slug[t]
                      /\ T!PushTags(c) /\ sending'[c] = T!Idle =>
                             \A t \in sending[c].tags \cap T!Existing : cat'[t] = slug[t]
                      /\ T!RemoveTag(c) => \A p \in PageRows : live'[p] # None => sending[c].tag \notin live'[p]
    OBVIOUS
  <2>1. c \in Calls /\ live \in [PageRows -> (SUBSET TagIds) \cup {None}]
    BY DEF TInv, T!TypeOK
  <2>2. ASSUME T!SendPage(c)
        PROVE  /\ live'[sending[c].page] = links[sending[c].page]
               /\ \A t \in links[sending[c].page] : cat[t] = slug[t]
    <3>1. sending[c] \in Sending /\ sending[c].phase = "page"
      BY <2>1, <2>2, TagPhases DEF T!SendPage
    <3>2. sending[c].page \in PageRows
      BY <3>1 DEF Sending
    <3> QED  BY <2>1, <2>2, <3>1, <3>2 DEF T!SendPage, TInv, TagsAlone, There
  <2>3. ASSUME T!PushTags(c), sending'[c] = T!Idle
        PROVE  \A t \in sending[c].tags \cap T!Existing : cat'[t] = slug[t]
    <3> QED  BY <2>1, <2>3, TagPush
  <2>4. T!RemoveTag(c) => \A p \in PageRows : live'[p] # None => sending[c].tag \notin live'[p]
    BY <2>1 DEF T!RemoveTag, T!WithoutTag
  <2> QED  BY <2>2, <2>3, <2>4
<1> QED  BY <1>1, TInvHolds, PTL DEF T!Spec, T!AloneSettles

-----------------------------------------------------------------------------
(* No two tags of the published database have one slug, whatever order the  *)
(* pushes of overlapping requests arrive in, and what both targets hold has *)
(* its type.                                                                *)
THEOREM TargetsHold == T!Spec /\ R!Spec => []TargetsSound
<1>1. TInv /\ R2Inv => TargetsSound
  BY DEF TInv, R2Inv, TargetsSound
<1> QED  BY <1>1, TInvHolds, R2InvHolds, PTL

(* A publish, a synchronisation or a deletion that nothing runs beside      *)
(* leaves the targets as it read them in DB, however stale they were.       *)
THEOREM AloneHolds == T!Spec /\ R!Spec => AloneLands
  BY TagsSettle, R2Lists DEF AloneLands
=============================================================================
