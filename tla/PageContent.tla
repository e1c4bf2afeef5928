---------------------------- MODULE PageContent ----------------------------
(***************************************************************************)
(* The draft pages of one type, their tags, versions and order             *)
(* (core/pages/mutation-evidence.ts, batch-mutation-evidence.ts,           *)
(* routes/admin/pages/crud.ts, features/plugins/page-update-evidence.ts).  *)
(*                                                                         *)
(* A request reads the rows it is about, prepares a manifest (authority,   *)
(* tags, version ids) and commits one batch that begins with guards: all   *)
(* it read is still there.  Any request may act between two of its steps.  *)
(***************************************************************************)
EXTENDS Integers, FiniteSets, SequencesExt

CONSTANTS Requests,    \* slots for requests under way together
          Pages,       \* page ids (numbers)
          Names,       \* names, as numbers: they break ties of weight
          Weights,     \* weights a form sends
          Window,      \* rows of a page of the list
          MaxRequests, \* bound: requests served
          Plans        \* the pages to start from and the kinds of request made together (a bound)

\* ids are numbers; Pages holds those a behaviour may come to
PagesAssumption == /\ Pages \subseteq Nat \ {0} /\ \E last \in Pages : \A p \in Pages : p <= last
                   /\ Window \in Nat /\ Weights \subseteq Int /\ Names \subseteq Nat /\ Names # {}
                   /\ \A g \in Plans : g.pages \subseteq Pages /\ g.weight \in Weights /\ g.names \subseteq Names

Step == 10             \* REORDER_WEIGHT_STEP

VARIABLES pages,    \* page id -> [text, tags, weight, name, slug]; texts and tag sets are numbered by the edit that wrote them
          versions, \* set of [id, page, text, mark]; mark is the uuid
          born,     \* ids ever used
          edits,    \* edits committed
          allowed,  \* the writer's capability, and the classification it was checked under
          req, served, plan

rows == <<pages, versions, born, edits>>
vars == <<rows, allowed, req, served, plan>>

\* what is new, and the rest as it was
With(f, g) == [x \in DOMAIN f \cup DOMAIN g |-> IF x \in DOMAIN g THEN g[x] ELSE f[x]]

Idle == [kind |-> "none", pc |-> "idle"]
At(r, kind, pc) == req[r].kind = kind /\ req[r].pc = pc
Begin(r, q) == /\ req[r] = Idle /\ served < MaxRequests /\ q.kind \in plan.kinds
               /\ req' = [req EXCEPT ![r] = q] /\ served' = served + 1
Goto(r, more) == req' = [req EXCEPT ![r] = With(@, more)]
Done(r) == req' = [req EXCEPT ![r] = Idle]
Rest == UNCHANGED <<allowed, plan>>

Row(p) == [f \in {"text", "weight", "name", "slug"} |-> pages[p][f]]
Meta(p) == [f \in {"weight", "name"} |-> pages[p][f]]
History(p) == {v \in versions : v.page = p}
\* nextIdSql: above the highest id stored, so the id of a deleted newest row may come again
NextId == IF versions = {} THEN 1 ELSE 1 + CHOOSE n \in {v.id : v \in versions} : \A v \in versions : v.id <= n

\* ensureUniqueDraftSlug: slug, slug-2, slug-3 ...
Taken(p) == {pages[x].slug : x \in DOMAIN pages \ {p}}
FreeSlug(p) == CHOOSE s \in 1..(Cardinality(Pages) + 1) : s \notin Taken(p) /\ \A t \in 1..(s - 1) : t \in Taken(p)

-----------------------------------------------------------------------------
\* Two pages go together in a slice of a bulk job only.
Slice == {"replace", "tag"}
Forms == {"save", "revert", "remove"}
Start(r, kind) ==
    /\ \E P \in SUBSET DOMAIN pages :
        /\ IF kind \in Slice THEN P # {} ELSE Cardinality(P) = 1
        /\ Begin(r, [kind |-> kind, pc |-> "row", targets |-> P,
                     saw |-> IF kind = "patch" THEN [p \in P |-> pages[p].text] ELSE << >>])
    /\ UNCHANGED rows /\ Rest

\* The handler's own read of the rows, and of the version to restore.
ReadRows(r) ==
    LET P == req[r].targets
        read == [pc |-> "prepare", rows |-> [p \in P |-> Row(p)], tags |-> [p \in P |-> pages[p].tags],
                 saw |-> [p \in P |-> pages[p].text]]
    IN  /\ req[r].kind \in Forms \cup Slice /\ req[r].pc = "row"
        /\ IF ~ P \subseteq DOMAIN pages THEN Done(r)
           ELSE CASE req[r].kind = "revert" -> \E v \in UNION {History(p) : p \in P} : Goto(r, With(read, [version |-> v]))
                  [] req[r].kind = "remove" -> \E which \in {0} \cup {v.id : v \in UNION {History(p) : p \in P}} :  \* 0: all
                                                   Goto(r, With(read, [which |-> which]))
                  [] OTHER -> Goto(r, read)
        /\ UNCHANGED <<rows, served>> /\ Rest
\* PATCH with if_lect: refused when the row is no longer what the client saw
ReadPatch(r) ==
    LET P == req[r].targets
    IN  /\ At(r, "patch", "row")
        /\ IF P \subseteq DOMAIN pages /\ \A p \in P : pages[p].text = req[r].saw[p]
           THEN Goto(r, [pc |-> "prepare", rows |-> [p \in P |-> Row(p)]]) ELSE Done(r)
        /\ UNCHANGED <<rows, served>> /\ Rest

\* prepare: authority, tags and version ids. The slug is looked up in the same
\* stretch of reads; unlike them it is not guarded by an admin form.
Prepare(r) ==
    LET q == req[r]
        P == q.targets
        ids == {v.id : v \in UNION {History(p) : p \in P}}
        tags == [p \in P |-> IF p \in DOMAIN pages THEN pages[p].tags ELSE 0]
        listed == IF q.kind # "remove" \/ q.which = 0 THEN ids ELSE ids \cap {q.which}
    IN  /\ q.kind \in Forms \cup Slice \cup {"patch"} /\ q.pc = "prepare"
        /\ IF allowed /\ (q.kind = "tag" => tags = q.tags) /\ (q.kind = "remove" => listed # {})
           THEN \E slug \in IF q.kind \in {"save", "patch"} THEN {FreeSlug(p) : p \in P} ELSE {0} :
                    Goto(r, [pc |-> "commit", ids |-> ids, tags |-> tags, slug |-> slug,
                             listed |-> {v \in versions : v.page \in P /\ v.id \in listed}])
           ELSE Done(r)
        /\ UNCHANGED <<rows, served>> /\ Rest

\* mutant: only the rows about to be written are compared, not their history and tags
SameRows(q) == allowed /\ q.targets \subseteq DOMAIN pages /\ \A p \in q.targets : q.rows[p] = Row(p)
\* the guards at the head of a batch: authority, the rows as read, their tags, their version ids
Unchanged(q) == /\ allowed /\ q.targets \subseteq DOMAIN pages
                /\ \A p \in q.targets : q.rows[p] = Row(p) /\ q.tags[p] = pages[p].tags
                /\ {v.id : v \in UNION {History(p) : p \in q.targets}} = q.ids
Version(p, text) == [id |-> NextId, page |-> p, text |-> text, mark |-> edits + 1]

\* One batch, all of it or nothing; the request is over either way.
Commit(r, kinds, may, effect) ==
    /\ req[r].kind \in kinds /\ req[r].pc = "commit"
    /\ IF may THEN effect /\ edits' = edits + 1 ELSE UNCHANGED rows
    /\ Done(r) /\ UNCHANGED served /\ Rest

\* saveDraftContent for a form, commitPluginPageUpdates for a PATCH: the row, its tags if they were sent, a version
FreeForPatch(q) == \A p \in q.targets : q.slug = pages[p].slug \/ q.slug \notin Taken(p)
Saved(q, n) ==
    \E p \in q.targets, name \in plan.names, w \in Weights : \E tags \in {n, pages[p].tags} :
        /\ pages' = [pages EXCEPT ![p] = [text |-> n, tags |-> tags, weight |-> w, name |-> name, slug |-> q.slug]]
        /\ versions' = versions \cup {Version(p, n)} /\ UNCHANGED born
SaveDraftContent(r) == Commit(r, {"save"}, Unchanged(req[r]), Saved(req[r], edits + 1))
CommitPluginPageUpdates(r) == Commit(r, {"patch"}, Unchanged(req[r]) /\ FreeForPatch(req[r]), Saved(req[r], edits + 1))
\* revert: the chosen version becomes the text, if it is still that version; the tags read are written back
Revert(r) ==
    LET q == req[r]
    IN  Commit(r, {"revert"}, Unchanged(q) /\ q.version \in versions,
            \E p \in q.targets :
                /\ pages' = [pages EXCEPT ![p].text = q.version.text, ![p].tags = q.tags[p]]
                /\ versions' = versions \cup {Version(p, q.version.text)} /\ UNCHANGED born)
Removed(q) == {v \in UNION {History(p) : p \in q.targets} : v.id \in {x.id : x \in q.listed}}
RemoveDraftHistory(r) ==
    Commit(r, {"remove"}, Unchanged(req[r]),
        versions' = versions \ Removed(req[r]) /\ UNCHANGED <<pages, born>>)
\* applyChanges: a replacement adds a version to every page, a tag change to none
Replace(r) ==
    LET q == req[r]
        Place(p) == Cardinality({x \in q.targets : x < p})
    IN  Commit(r, {"replace"}, Unchanged(q),
            /\ pages' = [p \in DOMAIN pages |-> IF p \in q.targets THEN [pages[p] EXCEPT !.text = edits + 1] ELSE pages[p]]
            /\ versions' = versions \cup {[Version(p, edits + 1) EXCEPT !.id = @ + Place(p)] : p \in q.targets}
            /\ UNCHANGED born)
ChangeTags(r) ==
    Commit(r, {"tag"}, Unchanged(req[r]),
        /\ pages' = [p \in DOMAIN pages |->
                      IF p \in req[r].targets THEN [pages[p] EXCEPT !.tags = edits + 1] ELSE pages[p]]
        /\ UNCHANGED <<versions, born>>)

-----------------------------------------------------------------------------
\* saveDraftContent without a row before it
StartCreate(r) == /\ Begin(r, [kind |-> "create", pc |-> "prepare", targets |-> {}])
                  /\ UNCHANGED rows /\ Rest
PrepareCreate(r) ==
    /\ At(r, "create", "prepare")
    /\ IF allowed THEN Goto(r, [pc |-> "commit", slug |-> FreeSlug(0), ids |-> {}, rows |-> << >>, tags |-> << >>]) ELSE Done(r)
    /\ UNCHANGED <<rows, served>> /\ Rest
Created(p, n, slug) ==
    \E name \in plan.names, w \in Weights :
        /\ pages' = With(pages, [x \in {p} |-> [text |-> n, tags |-> n, weight |-> w, name |-> name, slug |-> slug]])
        /\ versions' = versions \cup {Version(p, n)} /\ born' = born \cup {p}
\* ids grow with time
Fresh == {p \in Pages \ born : \A x \in Pages \ born : p <= x}
Create(r) == \E p \in Fresh : Commit(r, {"create"}, Unchanged(req[r]), Created(p, edits + 1, req[r].slug))
\* the page goes to the trash with its history (PageLifecycle)
Trash == /\ "trash" \in plan.kinds /\ \E p \in DOMAIN pages :
                /\ pages' = [x \in DOMAIN pages \ {p} |-> pages[x]] /\ versions' = versions \ History(p)
         /\ UNCHANGED <<born, edits, req, served>> /\ Rest
Withdraw == allowed /\ "withdraw" \in plan.kinds /\ allowed' = FALSE /\ UNCHANGED <<rows, req, served, plan>>

-----------------------------------------------------------------------------
\* ORDER BY weight, name, id
Before(a, b, ps) == \/ ps[a].weight < ps[b].weight
                    \/ ps[a].weight = ps[b].weight /\ ps[a].name < ps[b].name
                    \/ ps[a].weight = ps[b].weight /\ ps[a].name = ps[b].name /\ a < b
Rank(p, ps) == Cardinality({x \in DOMAIN ps : Before(x, p, ps)})
Order(ps) == [i \in 1..Cardinality(DOMAIN ps) |-> CHOOSE p \in DOMAIN ps : Rank(p, ps) = i - 1]
Slots(seq, offset, n) == SubSeq(seq, offset + 1, IF offset + n < Len(seq) THEN offset + n ELSE Len(seq))
Splice(seq, offset, part) == SubSeq(seq, 1, offset) \o part \o SubSeq(seq, offset + Len(part) + 1, Len(seq))

\* The list is shown; later the client drops its rows in another order.
StartReorder(r) ==
    LET seq == Order(pages)
    IN  \E offset \in {k \in {0, Window} : k < Len(seq)} :
        LET shown == Slots(seq, offset, Window)
        IN  \E after \in {s \in SetToSeqs(ToSet(shown)) : s # shown} :
            /\ Begin(r, [kind |-> "reorder", pc |-> "row", offset |-> offset, before |-> shown, after |-> after])
            /\ UNCHANGED rows /\ Rest
\* planPageReorder: refused unless the rows shown are still the window
ReadSequence(r) ==
    LET q == req[r] seq == Order(pages)
        next == Splice(seq, q.offset, q.after)
        weight == [p \in DOMAIN pages |-> Step * (CHOOSE i \in DOMAIN next : next[i] = p)]
    IN  /\ At(r, "reorder", "row")
        /\ IF Slots(seq, q.offset, Len(q.before)) = q.before
           THEN Goto(r, [pc |-> "prepare", sequence |-> [p \in DOMAIN pages |-> Meta(p)],
                         weights |-> [p \in {x \in DOMAIN pages : pages[x].weight # weight[x]} |-> weight[p]]])
           ELSE Done(r)
        /\ UNCHANGED <<rows, served>> /\ Rest
StartWeight(r) ==
    /\ \E p \in DOMAIN pages, w \in Weights : Begin(r, [kind |-> "weight", pc |-> "prepare", weights |-> [x \in {p} |-> w]])
    /\ UNCHANGED rows /\ Rest
\* updateWeights: the rows to change, read again
PrepareWeights(r) ==
    LET P == DOMAIN req[r].weights
    IN  /\ req[r].kind \in {"weight", "reorder"} /\ req[r].pc = "prepare"
        /\ IF allowed /\ P \subseteq DOMAIN pages THEN Goto(r, [pc |-> "commit", meta |-> [p \in P |-> Meta(p)]]) ELSE Done(r)
        /\ UNCHANGED <<rows, served>> /\ Rest
\* mutant: the rows to change are compared, the rest of the sequence is not
SameTargets(q) == allowed /\ DOMAIN q.meta \subseteq DOMAIN pages /\ \A p \in DOMAIN q.meta : q.meta[p] = Meta(p)
SameSequence(q) == /\ allowed /\ DOMAIN q.meta \subseteq DOMAIN pages /\ \A p \in DOMAIN q.meta : q.meta[p] = Meta(p)
                   /\ q.kind = "reorder" => q.sequence = [p \in DOMAIN pages |-> Meta(p)]
UpdateWeights(r) ==
    LET q == req[r]
    IN  Commit(r, {"weight", "reorder"}, SameSequence(q),
            /\ pages' = [p \in DOMAIN pages |->
                       IF p \in DOMAIN q.weights THEN [pages[p] EXCEPT !.weight = q.weights[p]] ELSE pages[p]]
            /\ UNCHANGED <<versions, born>>)

-----------------------------------------------------------------------------
First(p, weight) == [text |-> 0, tags |-> 0, weight |-> weight, name |-> CHOOSE n \in Names : TRUE, slug |-> p]
Init == /\ plan \in Plans
        /\ pages = [p \in plan.pages |-> First(p, plan.weight)]
        /\ versions = {[id |-> p, page |-> p, text |-> 0, mark |-> 0] : p \in plan.pages}
        /\ born = plan.pages /\ edits = 0 /\ allowed = TRUE
        /\ req = [r \in Requests |-> Idle] /\ served = 0
Act(r) == \/ \E kind \in Forms \cup Slice \cup {"patch"} : Start(r, kind)
          \/ ReadRows(r) \/ ReadPatch(r) \/ Prepare(r)
          \/ SaveDraftContent(r) \/ CommitPluginPageUpdates(r) \/ Revert(r) \/ RemoveDraftHistory(r)
          \/ Replace(r) \/ ChangeTags(r)
          \/ StartCreate(r) \/ PrepareCreate(r) \/ Create(r)
          \/ StartReorder(r) \/ ReadSequence(r) \/ StartWeight(r) \/ PrepareWeights(r) \/ UpdateWeights(r)
Next == (\E r \in Requests : Act(r)) \/ Trash \/ Withdraw
Spec == Init /\ [][Next]_vars

-----------------------------------------------------------------------------
Commits(r) == req[r].pc = "commit" /\ req'[r] = Idle

\* No update is lost: whoever changes the text or the tags of a page had read
\* the ones it replaces (a PATCH with if_lect: its client had), held the
\* capability at that moment, and a restored text is a version of the page still kept.
EditsBuildOnWhatTheyReplace ==
    [][\A p \in DOMAIN pages \cap DOMAIN pages' :
        /\ pages'[p].text # pages[p].text =>
               \E r \in Requests : Commits(r) /\ allowed /\ req[r].saw[p] = pages[p].text
        /\ pages'[p].tags # pages[p].tags => \E r \in Requests : Commits(r) /\ allowed /\ req[r].tags[p] = pages[p].tags
        /\ pages'[p].text \in {edits + 1, pages[p].text} \cup {x.text : x \in History(p)}]_vars

\* What a draft says is kept as a version when it changes, and a version goes
\* only with its page, or when a removal had listed that very version; or, its id
\* being used again, one that had gone before it was made (see README, "Limits").
HistoryKeepsEveryDraft ==
    [][/\ \A p \in DOMAIN pages' : (p \notin DOMAIN pages \/ pages'[p].text # pages[p].text) =>
              \E x \in versions' \ versions : x.page = p /\ x.text = pages'[p].text
       /\ \A x \in versions \ versions' : x.page \in DOMAIN pages' =>
              \E r \in Requests : Commits(r) /\ \E w \in req[r].listed :
                  w.page = x.page /\ w.id = x.id /\ (w = x \/ (w \notin versions /\ w.mark < x.mark))
       /\ \A x, w \in versions' : x # w => x.id # w.id]_vars

DraftsAreKept == EditsBuildOnWhatTheyReplace /\ HistoryKeepsEveryDraft

\* A reorder that goes through puts the rows the client was shown in the order
\* it dropped them, moves no other row, and leaves every weight distinct.
ReorderLandsAsDropped ==
    [][\A r \in Requests : req[r].kind = "reorder" /\ Commits(r) /\ rows' # rows =>
        LET q == req[r] seq == Order(pages)
        IN  /\ Slots(seq, q.offset, Len(q.before)) = q.before
            /\ Order(pages') = Splice(seq, q.offset, q.after)
            /\ \A a, b \in DOMAIN pages' : a # b => pages'[a].weight # pages'[b].weight]_vars
=============================================================================
