---------------------------- MODULE MCPublishing ----------------------------
(***************************************************************************)
(* Publishing for TLC, a component to a behaviour: the gate and the        *)
(* floors it reads (Publication), the tag catalogue of the published       *)
(* database (PublishedTags), or the R2 target (R2Index).  The components   *)
(* share no state; a property of one is checked where it moves.            *)
(***************************************************************************)
EXTENDS Publication, FiniteSets, Sequences, TLC

CONSTANTS Slugs, TagIds, PageRows, Calls, Chunk, MaxLost, MaxStamp

VARIABLES part,
          slug, links, cat, live, sending, tagsLost, tagsAlone,
          object, index, storing, stamp, r2Lost, r2Alone

tagVars == <<slug, links, cat, live, sending, tagsLost, tagsAlone>>
r2Vars  == <<object, index, storing, stamp, r2Lost, r2Alone>>

T == INSTANCE PublishedTags WITH Tags <- TagIds, Pages <- PageRows,
        call <- sending, lost <- tagsLost, alone <- tagsAlone
R == INSTANCE R2Index WITH call <- storing, lost <- r2Lost, alone <- r2Alone

ASSUME TargetsAssumption == T!PublishedTagsAssumption /\ R!R2Assumption

PartsInit == PublishInit /\ T!Init /\ R!Init /\ part \in {"gate", "tags", "r2"}
PartsNext ==
    /\ UNCHANGED part
    /\ \/ part = "gate" /\ PublishNext /\ UNCHANGED <<tagVars, r2Vars>>
       \/ part = "tags" /\ T!Next /\ UNCHANGED <<allVars, r2Vars>>
       \/ part = "r2" /\ R!Next /\ UNCHANGED <<allVars, tagVars>>
Parts == PartsInit /\ [][PartsNext]_<<part, allVars, tagVars, r2Vars>>

TargetsSound == T!TypeOK /\ T!SlugsUnique /\ R!TypeOK
AloneLands == T!AloneSettles /\ R!AloneIsListed

(* Page types are interchangeable, and so are pages, and taxonomies but for *)
(* the default one.  Slugs and calls, which occur where types and           *)
(* taxonomies do not, are named like them and are permuted with them.       *)
Symmetry == Permutations(Types) \cup Permutations(Taxonomies \ {Default}) \cup Permutations(Pages)

(* Copies are made, and taxonomies renamed, where nothing is published, and *)
(* publishes begin where there is one page and a taxonomy not used: a       *)
(* publish reads one page, and a renamed taxonomy is to it a classed one    *)
(* with the tag moved there.                                                *)
Spare(x) == level[x] = 0 /\ x \notin taxonomies /\ \A t \in Tags : group[t] # x

EditedOrPublished ==
    \/ \A j \in Jobs : job[j] = Idle /\ \A c \in Types \cup Taxonomies : policyRead[j][c] = 0
    \/ /\ Cardinality({p \in Pages : ~Unused(p)}) <= 1
       /\ \E x \in Taxonomies \ {Default} : Spare(x)
=============================================================================
