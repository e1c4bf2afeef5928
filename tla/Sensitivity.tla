---------------------------- MODULE Sensitivity ----------------------------
(***************************************************************************)
(* Retained sensitivity (core/schema.sql, features/trash/schema.sql).  An  *)
(* administrator classes page types and taxonomies as personal or health   *)
(* data; a page inherits the highest class among its type and the          *)
(* taxonomies of its tags, and a floor under its uuid keeps the highest    *)
(* class it ever had.  No code computes the floor: SQL triggers raise it,  *)
(* each on the statement that changes one source of it.  An action is one  *)
(* batch with the triggers it fires.                                       *)
(***************************************************************************)
EXTENDS Integers

CONSTANTS
    Pages,       \* page uuids
    Types,       \* page types
    Taxonomies,  \* taxonomy slugs
    Default,     \* the slug of tags without taxonomy
    Tags,        \* tag ids
    Classes,     \* classes the administrator assigns: 1 personal, 2 health
    None

ASSUME SensitivityAssumption ==
    /\ Classes \subseteq {1, 2}
    /\ Default \in Taxonomies
    /\ Types \cap Taxonomies = {}
    /\ None \notin Taxonomies \cup [type: Types, tags: SUBSET Tags]

VARIABLES
    level,       \* data_class_floors of types and taxonomies, 0 without a row
    taxonomies,  \* slugs that have a taxonomy row
    group,       \* taxonomy_slug of a tag, None if there is no such tag
    draft,       \* pages row and page_tags
    trash,       \* trash_pages row and trash_page_tags
    floor,       \* page_sensitivity_floors, 0 without a row
    seen         \* history: the highest class of anything the page was seen under

records == <<level, taxonomies, group, draft, trash, floor>>
vars    == <<records, seen>>

Levels == 0..2
Row    == [type: Types, tags: SUBSET Tags]

Highest(S) == IF 2 \in S THEN 2 ELSE IF 1 \in S THEN 1 ELSE 0

(* The views sensitivity_page_sources and sensitivity_trash_sources: the    *)
(* containers that give a copy of a page its class.                         *)
Sources(row, grouping) ==
    IF row = None THEN {} ELSE {row.type} \cup {grouping[t] : t \in row.tags}
Class(row, grouping, policy) == Highest({policy[c] : c \in Sources(row, grouping)})

(* ON CONFLICT(uuid) DO UPDATE SET level = MAX(level, excluded.level)       *)
Raised(p, to) == Highest({floor[p], to})

Init ==
    /\ level = [c \in Types \cup Taxonomies |-> 0]
    /\ taxonomies = {}
    /\ group = [t \in Tags |-> None]
    /\ draft = [p \in Pages |-> None]
    /\ trash = [p \in Pages |-> None]
    /\ floor = [p \in Pages |-> 0]
    /\ seen = floor

-----------------------------------------------------------------------------
(* What the triggers on policies, tags and pages do.                        *)

(* sensitivity_policy_insert, _update and their trash counterparts: pages   *)
(* under a container whose level rises.                                     *)
FloorsUnder(c, policy) ==
    [p \in Pages |-> IF c \in Sources(draft[p], group) \cup Sources(trash[p], group)
                     THEN Raised(p, policy[c]) ELSE floor[p]]

Linked(row, moved) == row # None /\ row.tags \cap moved # {}

(* sensitivity_tag_update, sensitivity_trash_tag_update: pages with a tag   *)
(* that is moved to another taxonomy.                                       *)
DraftsOnly(floors, moved, grouping, policy) ==                      \* mutant
    [p \in Pages |-> IF Linked(draft[p], moved)
                     THEN Highest({floors[p], Class(draft[p], grouping, policy)}) ELSE floors[p]]
FloorsAfterMove(floors, moved, grouping, policy) ==
    [p \in Pages |-> Highest(
        {floors[p],
         IF Linked(draft[p], moved) THEN Class(draft[p], grouping, policy) ELSE 0,
         IF Linked(trash[p], moved) THEN Class(trash[p], grouping, policy) ELSE 0})]

(* sensitivity_page_*, sensitivity_link_* and their trash counterparts.     *)
FloorOf(p, row) == [floor EXCEPT ![p] = Raised(p, Class(row, group, level))]

(* sensitivity_retype_guard: a page is not moved to a type below its floor. *)
OldNotBelow(p, type) == draft[p].type = type \/ floor[p] <= level[draft[p].type]  \* mutant
MayRetype(p, type) == draft[p].type = type \/ floor[p] <= level[type]

(* sensitivity_tag_move_guard: nor a tag to a taxonomy below its own.       *)
MayMove(from, to, policy) == policy[from] <= policy[to]

-----------------------------------------------------------------------------
(* POST /audit/classes.  Assigning a lower class leaves the level.          *)
Classify(c, class) ==
    /\ LET policy == [level EXCEPT ![c] = Highest({@, class})] IN
       /\ level' = policy
       /\ floor' = FloorsUnder(c, policy)
    /\ UNCHANGED <<taxonomies, group, draft, trash>>

CreateTaxonomy(x) ==
    /\ x \notin taxonomies \cup {Default}
    /\ taxonomies' = taxonomies \cup {x}
    /\ UNCHANGED <<level, group, draft, trash, floor>>

(* saveTaxonomy.  sensitivity_taxonomy_rename: the new slug takes over the  *)
(* level of the old one, and the tags follow.                               *)
RenamedLevel(from, to) == [level EXCEPT ![to] = Highest({@, level[from]})]

RenameTaxonomy(from, to) ==
    /\ from \in taxonomies
    /\ to \notin taxonomies \cup {Default}
    /\ LET policy   == RenamedLevel(from, to)
           moved    == {t \in Tags : group[t] = from}
           grouping == [t \in Tags |-> IF t \in moved THEN to ELSE group[t]]
       IN  /\ moved # {} => MayMove(from, to, policy)
           /\ level' = policy
           /\ group' = grouping
           /\ floor' = FloorsAfterMove(FloorsUnder(to, policy), moved, grouping, policy)
    /\ taxonomies' = (taxonomies \ {from}) \cup {to}
    /\ UNCHANGED <<draft, trash>>

(* deleteTaxonomy leaves its tags without one.                              *)
DeleteTaxonomy(x) ==
    /\ x \in taxonomies
    /\ LET moved    == {t \in Tags : group[t] = x}
           grouping == [t \in Tags |-> IF t \in moved THEN Default ELSE group[t]]
       IN  /\ moved # {} => MayMove(x, Default, level)
           /\ group' = grouping
           /\ floor' = FloorsAfterMove(floor, moved, grouping, level)
    /\ taxonomies' = taxonomies \ {x}
    /\ UNCHANGED <<level, draft, trash>>

(* saveTag: a tag's taxonomy is whatever slug the form has.                 *)
CreateTag(t, x) ==
    /\ group[t] = None
    /\ \A p \in Pages : ~Linked(draft[p], {t}) /\ ~Linked(trash[p], {t})
    /\ group' = [group EXCEPT ![t] = x]
    /\ UNCHANGED <<level, taxonomies, draft, trash, floor>>

MoveTag(t, x) ==
    /\ group[t] \notin {None, x}
    /\ MayMove(group[t], x, level)
    /\ LET grouping == [group EXCEPT ![t] = x] IN
       /\ group' = grouping
       /\ floor' = FloorsAfterMove(floor, {t}, grouping, level)
    /\ UNCHANGED <<level, taxonomies, draft, trash>>

Untagged(rows, t) ==
    [p \in Pages |-> IF rows[p] = None THEN None ELSE [rows[p] EXCEPT !.tags = @ \ {t}]]

DeleteTag(t) ==
    /\ group[t] # None
    /\ group' = [group EXCEPT ![t] = None]
    /\ draft' = Untagged(draft, t)
    /\ trash' = Untagged(trash, t)
    /\ UNCHANGED <<level, taxonomies, floor>>

-----------------------------------------------------------------------------
Existing == {t \in Tags : group[t] # None}

Unused(p) == draft[p] = None /\ trash[p] = None /\ floor[p] = 0

(* saveDraftContent, changeTagAssociation: a new page under a fresh uuid,   *)
(* or another type and other tags for one.                                  *)
Create(p, row) ==
    /\ Unused(p)
    /\ row.tags \subseteq Existing
    /\ draft' = [draft EXCEPT ![p] = row]
    /\ floor' = FloorOf(p, row)
    /\ UNCHANGED <<level, taxonomies, group, trash>>

Save(p, row) ==
    /\ draft[p] # None
    /\ row.tags \subseteq Existing
    /\ MayRetype(p, row.type)
    /\ draft' = [draft EXCEPT ![p] = row]
    /\ floor' = FloorOf(p, row)
    /\ UNCHANGED <<level, taxonomies, group, trash>>

(* duplicate: a copy leaves the tags of its source behind and is pinned to  *)
(* the class of what it copies, tags and floor included.                    *)
BodyClass(p) == Highest({Class(draft[p], group, level), floor[p]})

Clone(p, q) ==
    /\ draft[p] # None
    /\ Unused(q)
    /\ draft' = [draft EXCEPT ![q] = [draft[p] EXCEPT !.tags = {}]]
    /\ floor' = [floor EXCEPT ![q] = BodyClass(p)]
    /\ UNCHANGED <<level, taxonomies, group, trash>>

(* mutatePageLifecycle.  A copy of the same uuid already at the destination *)
(* takes over the type and keeps its tags.                                  *)
Merge(from, to) == [type |-> from.type, tags |-> from.tags \cup IF to = None THEN {} ELSE to.tags]

Trash(p) ==
    /\ draft[p] # None
    /\ trash' = [trash EXCEPT ![p] = Merge(draft[p], @)]
    /\ draft' = [draft EXCEPT ![p] = None]
    /\ floor' = FloorOf(p, Merge(draft[p], trash[p]))
    /\ UNCHANGED <<level, taxonomies, group>>

Restore(p) ==
    /\ trash[p] # None
    /\ trash[p].tags \subseteq Existing
    /\ draft[p] # None => MayRetype(p, trash[p].type)
    /\ draft' = [draft EXCEPT ![p] = Merge(trash[p], @)]
    /\ trash' = [trash EXCEPT ![p] = None]
    /\ floor' = FloorOf(p, Merge(trash[p], draft[p]))
    /\ UNCHANGED <<level, taxonomies, group>>

Purge(p) ==
    /\ trash[p] # None
    /\ trash' = [trash EXCEPT ![p] = None]
    /\ UNCHANGED <<level, taxonomies, group, draft, floor>>

(* pullPublishedPageToDraft, ingestSubmissions: a page arrives from the     *)
(* published database, pinned to the class its source had there.            *)
Arrive(p, type, class) ==
    /\ draft[p] = None
    /\ draft' = [draft EXCEPT ![p] = [type |-> type, tags |-> {}]]
    /\ floor' = [floor EXCEPT ![p] = Highest({@, class, level[type]})]
    /\ UNCHANGED <<level, taxonomies, group, trash>>

-----------------------------------------------------------------------------
Policy ==
    \/ \E c \in Types \cup Taxonomies, class \in Classes : Classify(c, class)
    \/ \E x \in Taxonomies : CreateTaxonomy(x) \/ DeleteTaxonomy(x)
    \/ \E x, y \in Taxonomies : RenameTaxonomy(x, y)
    \/ \E t \in Tags, x \in Taxonomies : CreateTag(t, x) \/ MoveTag(t, x)
    \/ \E t \in Tags : DeleteTag(t)
Content ==
    \/ \E p \in Pages, row \in Row : Create(p, row) \/ Save(p, row)
    \/ \E p \in Pages : Trash(p) \/ Restore(p) \/ Purge(p)

Observed(p) == Highest({Class(draft[p], group, level), Class(trash[p], group, level)})

(* History.  A page that is copied from another, or arrives from outside,   *)
(* was seen wherever its source was.                                        *)
Observe(p, inherited) ==
    seen' = [q \in Pages |-> Highest({seen[q], Observed(q)', IF q = p THEN inherited ELSE 0})]

Next ==
    \/ (Policy \/ Content) /\ Observe(None, 0)
    \/ \E p, q \in Pages : Clone(p, q) /\ Observe(q, seen[p])
    \/ \E p \in Pages, type \in Types, class \in Classes \cup {0} :
           Arrive(p, type, class) /\ Observe(p, class)

Spec == Init /\ [][Next]_vars

-----------------------------------------------------------------------------
TypeOK ==
    /\ level \in [Types \cup Taxonomies -> Levels]
    /\ taxonomies \subseteq Taxonomies
    /\ group \in [Tags -> Taxonomies \cup {None}]
    /\ draft \in [Pages -> Row \cup {None}]
    /\ trash \in [Pages -> Row \cup {None}]
    /\ floor \in [Pages -> Levels]
    /\ seen \in [Pages -> Levels]

(* The floor of a page is the highest class it was ever seen under, as a    *)
(* draft or in trash, itself or as what it was copied from: no way its      *)
(* type, its tags or their policies change gets past the triggers, and none *)
(* of the triggers charges it with another page's class.                    *)
FloorIsHighestSeen == floor = seen

(* Retyping, restoring and regrouping never take a page out of a class it   *)
(* is kept at through its type: what a draft keeps as its type is at least  *)
(* as protected as the type it had.                                         *)
TypesNeverWeaken ==
    [][\A p \in Pages : draft[p] # None /\ draft'[p] # None
           => level[draft[p].type] <= level'[draft'[p].type]]_vars
=============================================================================
