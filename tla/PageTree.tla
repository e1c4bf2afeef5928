------------------------------ MODULE PageTree ------------------------------
(***************************************************************************)
(* What trash promises (features/trash, core/pages/                        *)
(* lifecycle-mutation-evidence.ts): pages move between draft and trash in  *)
(* one piece each, find their parents again, and leave for good only when  *)
(* purged, together with what lies below them in trash, never under hold.  *)
(* Module PageLifecycle implements this with reads and a guarded batch.    *)
(*                                                                         *)
(* A page's id is its uuid here: the code keeps ids through trash and      *)
(* restore and remaps them only when a page of the same uuid was made anew *)
(* in the meantime.                                                        *)
(***************************************************************************)
CONSTANTS
    Pages,
    Root     \* no parent

ASSUME RootAssumption == Root \notin Pages

VARIABLES
    draft,   \* pages with a draft row
    parent,  \* pages.page_id; may name a page that is not there
    trash,   \* pages with a trash row
    link,    \* trash_pages.page_id, a foreign key into trash
    origin,  \* trash_pages.source_page_id
    held,    \* pages under an active hold
    home     \* where each trashed page was when it was last trashed

vars == <<draft, parent, trash, link, origin, held, home>>

Init ==
    /\ draft = {} /\ trash = {} /\ held = {}
    /\ parent = [p \in Pages |-> Root]
    /\ link = [p \in Pages |-> Root]
    /\ origin = [p \in Pages |-> Root]
    /\ home = [p \in Pages |-> Root]

(* What lies in or below S in trash along links l: the least set of trashed *)
(* pages that contains S and the children of its members.                   *)
Itself(S, l) == S \cap trash                                        \* mutant
Below(S, l) ==
    {p \in trash : \A C \in SUBSET trash :
        (S \subseteq C /\ \A c \in trash : l[c] \in C => c \in C) => p \in C}

(* Held pages in trash and everything above them: HELD_SUBTREES.            *)
HeldAbove ==
    {p \in trash : \A C \in SUBSET trash :
        (held \cap trash \subseteq C /\ \A c \in C : link[c] \in trash => link[c] \in C)
            => p \in C}

(* f without the entries of pages that no longer have the row.              *)
Released(f, S) == [p \in Pages |-> IF p \in S THEN Root ELSE f[p]]

-----------------------------------------------------------------------------
(* A page is created, or pulled while a copy of it lies in trash.  Its      *)
(* parent existed when it was looked up.                                    *)
Appear(p, q) ==
    /\ p \notin draft
    /\ draft' = draft \cup {p}
    /\ parent' = [parent EXCEPT ![p] = q]
    /\ UNCHANGED <<trash, link, origin, held, home>>

(* An edit saves another parent.                                            *)
Move(p, q) ==
    /\ p \in draft
    /\ parent' = [parent EXCEPT ![p] = q]
    /\ UNCHANGED <<draft, trash, link, origin, held, home>>

PlaceHold(p) ==
    /\ p \notin held
    /\ held' = held \cup {p}
    /\ UNCHANGED <<draft, parent, trash, link, origin, home>>

ReleaseHold(p) ==
    /\ p \in held
    /\ held' = held \ {p}
    /\ UNCHANGED <<draft, parent, trash, link, origin, home>>

(* A row of a page already in trash is overwritten.                         *)
Remembered(S) == [p \in Pages |-> IF p \in S THEN parent[p] ELSE origin[p]]

TrashPages(S) ==
    /\ S # {} /\ S \subseteq draft
    /\ draft' = draft \ S
    /\ trash' = trash \cup S
    /\ link' = [p \in Pages |-> IF p \in S
                    THEN IF parent[p] \in trash \cup S THEN parent[p] ELSE Root
                    ELSE link[p]]
    /\ origin' = Remembered(S)
    /\ home' = [p \in Pages |-> IF p \in S THEN parent[p] ELSE home[p]]
    /\ parent' = Released(parent, S)
    /\ UNCHANGED held

(* Restored pages go under their home if it is a draft by then; children    *)
(* they leave behind in trash remember them.                                *)
RestorePages(S) ==
    /\ S # {} /\ S \subseteq trash
    /\ draft' = draft \cup S
    /\ trash' = trash \ S
    /\ parent' = [p \in Pages |-> IF p \in S
                    THEN IF home[p] \in draft \cup S THEN home[p] ELSE Root
                    ELSE parent[p]]
    /\ link' = [p \in Pages |-> IF p \in S \/ link[p] \in S THEN Root ELSE link[p]]
    /\ origin' = Released(origin, S)
    /\ home' = Released(home, S)
    /\ UNCHANGED held

(* S and what lies below it, unless some of that is held.                   *)
SpareSelected(S) == S \cap held = {}                                \* mutant
Free(S)          == Below(S, link) \cap held = {}

PurgePages(S) ==
    LET gone == Below(S, link) IN
    /\ S # {} /\ S \subseteq trash
    /\ Free(S)
    /\ trash' = trash \ gone
    /\ link' = Released(link, gone)
    /\ origin' = Released(origin, gone)
    /\ home' = Released(home, gone)
    /\ UNCHANGED <<draft, parent, held>>

Next ==
    \/ \E p \in Pages, q \in Pages \cup {Root} : Appear(p, q) \/ Move(p, q)
    \/ \E p \in Pages : PlaceHold(p) \/ ReleaseHold(p)
    \/ \E S \in SUBSET Pages : TrashPages(S) \/ RestorePages(S) \/ PurgePages(S)

Spec == Init /\ [][Next]_vars

-----------------------------------------------------------------------------
TypeOK ==
    /\ draft \subseteq Pages /\ trash \subseteq Pages /\ held \subseteq Pages
    /\ parent \in [Pages -> Pages \cup {Root}]
    /\ link \in [Pages -> Pages \cup {Root}]
    /\ origin \in [Pages -> Pages \cup {Root}]
    /\ home \in [Pages -> Pages \cup {Root}]
    /\ \A p \in Pages \ draft : parent[p] = Root
    /\ \A p \in Pages \ trash : link[p] = Root /\ origin[p] = Root /\ home[p] = Root

(* A link in trash never dangles, and never contradicts the parent the page *)
(* remembers: restoring and cascading purges both navigate by it.           *)
LinksSound ==
    \A p \in trash : link[p] # Root => link[p] \in trash /\ link[p] = origin[p]

(* source_page_id is the draft parent the page had when it was trashed,     *)
(* through any restoring, trashing again and purging of its relatives.      *)
OriginIsHome == \A p \in trash : origin[p] = home[p]

(* Emptying the trash passes over what is held instead of being refused:    *)
(* nothing held lies below a page outside HELD_SUBTREES.                    *)
BulkSparesHeld ==
    \A S \in SUBSET (trash \ HeldAbove) : Free(S)

(* What holds of the trash in every state: its links are sound, homes are   *)
(* remembered, and a bulk purge can go ahead whatever is held.              *)
TrashSound == TypeOK /\ LinksSound /\ OriginIsHome /\ BulkSparesHeld

(* A held page is never destroyed, by a purge of it or of a page above it.  *)
HeldNotDestroyed ==
    [][\A p \in held : p \in draft \cup trash => p \in draft' \cup trash']_vars
=============================================================================
