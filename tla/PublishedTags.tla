--------------------------- MODULE PublishedTags ---------------------------
(***************************************************************************)
(* The tag catalogue of the published database (core/publish/d1.ts,        *)
(* routes/admin/tags.ts).  Published pages link to tags by id, and         *)
(* PUBLISHED_DB.tags says what the ids mean.  It is kept up by two paths:  *)
(* publishing a page sends the tags it links first, and every change of a  *)
(* tag is pushed after it is committed, best effort.  Nothing spans the    *)
(* two databases or two batches, and requests overlap.                     *)
(*                                                                         *)
(* Of a tag only the slug is told apart, the one field that is unique.     *)
(***************************************************************************)
EXTENDS Integers, FiniteSets

CONSTANTS
    Tags,     \* tag ids
    Slugs,
    Pages,
    Calls,    \* requests and jobs that write to the published database
    Chunk,    \* TAG_SYNC_CHUNK, tags to a batch
    MaxLost,  \* bound on calls that die or whose target fails
    None

PublishedTagsAssumption ==
    /\ Tags \subseteq Nat
    /\ Chunk \in Nat \ {0}
    /\ MaxLost \in Nat
    /\ None \notin Slugs

VARIABLES
    slug,    \* DB.tags: the slug of a tag, None if there is none
    links,   \* DB.page_tags
    cat,     \* PUBLISHED_DB.tags
    live,    \* PUBLISHED_DB.page_tags of a page, None if it is not published
    call,
    lost,
    alone    \* history: calls nothing else has run beside

vars == <<slug, links, cat, live, call, lost, alone>>

Idle     == [phase |-> "idle"]
Existing == {t \in Tags : slug[t] # None}
Sent     == UNION {[tags -> Slugs] : tags \in SUBSET Tags}
Call     == [phase: {"read"}, tags: SUBSET Tags]
            \cup [phase: {"push"}, tags: SUBSET Tags, rows: Sent]
            \cup [phase: {"remove"}, tag: Tags]
            \cup [phase: {"unlink", "drop"}, page: Pages]
            \cup [phase: {"catalogue", "page"}, page: Pages, links: SUBSET Tags, rows: Sent]

Init ==
    /\ slug = [t \in Tags |-> None]
    /\ links = [p \in Pages |-> {}]
    /\ cat = [t \in Tags |-> None]
    /\ live = [p \in Pages |-> None]
    /\ call = [c \in Calls |-> Idle]
    /\ lost = 0
    /\ alone = {}

Starts(c, to) == call[c].phase = "idle" /\ call' = [call EXCEPT ![c] = to]
Ends(c)       == call' = [call EXCEPT ![c] = Idle]

(* The rows of tags, as they are read.                                     *)
Rows(tags)      == [t \in tags \cap Existing |-> slug[t]]
Only(sent, ids) == [t \in ids |-> sent[t]]

(* catalogueStatements: rows of other tags with the slug of one that is     *)
(* sent go, and what is sent is inserted or updated.  The rows of a batch   *)
(* come from one read, so no two have one slug and their order is no matter.*)
Kept(sent) == [t \in Tags |-> IF t \in DOMAIN sent THEN sent[t] ELSE cat[t]]       \* mutant
Catalogued(sent) ==
    [t \in Tags |-> IF t \in DOMAIN sent THEN sent[t]
                    ELSE IF \E u \in DOMAIN sent : sent[u] = cat[t] THEN None ELSE cat[t]]

(* The first batch of some ids: they are sent in their order.               *)
Lowest(ids) == {t \in ids : Cardinality({u \in ids : u <= t}) <= Chunk}

-----------------------------------------------------------------------------
(* Tags and links in DB.  The call goes on to the targets afterwards.       *)
SaveTag(c, t, s) ==
    /\ Starts(c, [phase |-> "read", tags |-> {t}])
    /\ \A u \in Tags \ {t} : slug[u] # s
    /\ slug' = [slug EXCEPT ![t] = s]
    /\ UNCHANGED <<links, cat, live, lost>>

DeleteTag(c, t) ==
    /\ Starts(c, [phase |-> "remove", tag |-> t])
    /\ t \in Existing
    /\ slug' = [slug EXCEPT ![t] = None]
    /\ links' = [p \in Pages |-> links[p] \ {t}]
    /\ UNCHANGED <<cat, live, lost>>

Link(p, tags) ==
    /\ tags \subseteq Existing
    /\ tags # links[p]
    /\ links' = [links EXCEPT ![p] = tags]
    /\ UNCHANGED <<slug, cat, live, call, lost>>

-----------------------------------------------------------------------------
(* publishTagsToTargets: some tags, or with Sync published all of them.     *)
SyncTags(c) ==
    /\ Starts(c, [phase |-> "read", tags |-> Tags])
    /\ UNCHANGED <<slug, links, cat, live, lost>>

ReadTags(c) ==
    /\ call[c].phase = "read"
    /\ call' = [call EXCEPT ![c] =
          IF call[c].tags \cap Existing = {} THEN Idle
          ELSE [phase |-> "push", tags |-> call[c].tags, rows |-> Rows(call[c].tags)]]
    /\ UNCHANGED <<slug, links, cat, live, lost>>

PushTags(c) ==
    /\ call[c].phase = "push"
    /\ LET rows == call[c].rows
           batch == Lowest(DOMAIN rows)
       IN  /\ cat' = Catalogued(Only(rows, batch))
           /\ call' = [call EXCEPT ![c] =
                 IF batch = DOMAIN rows THEN Idle
                 ELSE [phase |-> "push", tags |-> call[c].tags, rows |-> Only(rows, DOMAIN rows \ batch)]]
    /\ UNCHANGED <<slug, links, live, lost>>

(* removeTag                                                                *)
WithoutTag(t) == [p \in Pages |-> IF live[p] = None THEN None ELSE live[p] \ {t}]

RemoveTag(c) ==
    /\ call[c].phase = "remove"
    /\ Ends(c)
    /\ cat' = [cat EXCEPT ![call[c].tag] = None]
    /\ live' = WithoutTag(call[c].tag)
    /\ UNCHANGED <<slug, links, lost>>

-----------------------------------------------------------------------------
(* Publishing a page: one read of its links and their tags, then the        *)
(* catalogue, then the page and its links.                                  *)
StartPublish(c, p) ==
    /\ Starts(c, [phase |-> IF links[p] = {} THEN "page" ELSE "catalogue",
                  page |-> p, links |-> links[p], rows |-> Rows(links[p])])
    /\ UNCHANGED <<slug, links, cat, live, lost>>

SendCatalogue(c) ==
    /\ call[c].phase = "catalogue"
    /\ cat' = Catalogued(call[c].rows)
    /\ call' = [call EXCEPT ![c].phase = "page"]
    /\ UNCHANGED <<slug, links, live, lost>>

SendPage(c) ==
    /\ call[c].phase = "page"
    /\ Ends(c)
    /\ live' = [live EXCEPT ![call[c].page] = call[c].links]
    /\ UNCHANGED <<slug, links, cat, lost>>

(* unpublish: the links, then the page and what links it has got since.     *)
StartUnpublish(c, p) ==
    /\ Starts(c, [phase |-> "unlink", page |-> p])
    /\ UNCHANGED <<slug, links, cat, live, lost>>

Unlink(c) ==
    /\ call[c].phase = "unlink"
    /\ live' = [live EXCEPT ![call[c].page] = IF @ = None THEN None ELSE {}]
    /\ call' = [call EXCEPT ![c].phase = "drop"]
    /\ UNCHANGED <<slug, links, cat, lost>>

Drop(c) ==
    /\ call[c].phase = "drop"
    /\ Ends(c)
    /\ live' = [live EXCEPT ![call[c].page] = None]
    /\ UNCHANGED <<slug, links, cat, lost>>

Dies(c) ==
    /\ call[c].phase # "idle"
    /\ lost < MaxLost
    /\ lost' = lost + 1
    /\ Ends(c)
    /\ UNCHANGED <<slug, links, cat, live>>

-----------------------------------------------------------------------------
Step(c) ==
    \/ \E t \in Tags, s \in Slugs : SaveTag(c, t, s)
    \/ \E t \in Tags : DeleteTag(c, t)
    \/ \E p \in Pages : StartPublish(c, p) \/ StartUnpublish(c, p)
    \/ SyncTags(c) \/ ReadTags(c) \/ PushTags(c) \/ RemoveTag(c)
    \/ SendCatalogue(c) \/ SendPage(c) \/ Unlink(c) \/ Drop(c) \/ Dies(c)

(* A call is alone from its start until another one takes a step.           *)
StillAlone(c) ==
    IF call[c].phase # "idle" THEN alone \cap {c}
    ELSE IF \A d \in Calls : call[d].phase = "idle" THEN {c} ELSE {}

Next ==
    \/ \E c \in Calls : Step(c) /\ alone' = StillAlone(c)
    \/ (\E p \in Pages, tags \in SUBSET Tags : Link(p, tags)) /\ alone' = {}

Spec == Init /\ [][Next]_vars

-----------------------------------------------------------------------------
TypeOK ==
    /\ slug \in [Tags -> Slugs \cup {None}]
    /\ links \in [Pages -> SUBSET Tags]
    /\ cat \in [Tags -> Slugs \cup {None}]
    /\ live \in [Pages -> (SUBSET Tags) \cup {None}]
    /\ \A c \in Calls : call[c] = Idle \/ call[c] \in Call
    /\ lost \in 0..MaxLost
    /\ alone \subseteq Calls

(* The published database upholds what its schema says: no two tags have    *)
(* the same slug, whatever order pushes arrive in.                          *)
SlugsUnique ==
    \A t, u \in Tags : t # u /\ cat[t] # None => cat[t] # cat[u]

(* However stale the catalogue is and whatever was lost before: a publish,  *)
(* a synchronisation or a deletion beside which nothing else runs leaves    *)
(* what it is about as it is in DB.                                         *)
AloneSettles ==
    [][\A c \in alone :
          /\ SendPage(c) => LET p == call[c].page IN
                 live'[p] = links[p] /\ \A t \in links[p] : cat[t] = slug[t]
          /\ PushTags(c) /\ call'[c] = Idle =>
                 \A t \in call[c].tags \cap Existing : cat'[t] = slug[t]
          /\ RemoveTag(c) => \A p \in Pages : live'[p] # None => call[c].tag \notin live'[p]]_vars
=============================================================================
