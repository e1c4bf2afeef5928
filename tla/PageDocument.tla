---------------------------- MODULE PageDocument ----------------------------
(***************************************************************************)
(* What a page says, as its editors work on it: the stored document, the   *)
(* forms rendered from it and what posting one of them makes of it         *)
(* (core/db/lect.ts, core/db/page-logic.ts, core/templates/editor.ts,      *)
(* routes/admin/pages/crud.ts, core/views/assets/editor.js).               *)
(*                                                                         *)
(* A document has one text, which is a value in each of some languages, a  *)
(* list of items and a list of blocks, each with a weight, a text and, for *)
(* a block, items of its own.  A value is 0 for '' or the number of the    *)
(* typing that wrote it.  A form shows one language; merges go by index.   *)
(***************************************************************************)
EXTENDS Naturals, SequencesExt, FiniteSetsExt

CONSTANTS Langs, Default, Tabs,
          Originals,  \* documents to start from
          MaxOpened,  \* bound: forms opened
          MaxTyped,   \* bound: values typed, weights set, items dragged, pastes
          MaxPosts,   \* bound: forms posted
          MaxRows,    \* bound: rows of a list
          Weights,    \* bound: the numbers given to blocks
          MaxAdded    \* bound: the count that an addition asks for

VARIABLES stored,  \* pages.lect, or what JSON.parse makes of it
          boxed,   \* the built-in editor shows it, whose forms have the whole document in a box
          tab,     \* tab -> the form it shows, or Shut
          clip,    \* the fields last copied, in the browser's storage
          opened, typed, posts,
          last     \* the last form posted: by which tab, with which button, saved or refused

vars == <<stored, boxed, tab, clip, opened, typed, posts, last>>

-----------------------------------------------------------------------------
\* A key that may be absent is a set of at most one value.
Absent == {}
Has(o) == CHOOSE x \in o : TRUE
Or(o, d) == IF o = Absent THEN d ELSE Has(o)
Rows(o) == Or(o, << >>)

Blank == [lang \in {Default} |-> 0]
BlankItem == [weight |-> {0}, text |-> Blank]
\* blueprintToLect, the page's and a block's: one blank item
Blueprint == [text |-> Blank, items |-> {<<BlankItem>>}, blocks |-> << >>]
BlockToLect(id) == [id |-> id, weight |-> {0}, text |-> Blank, items |-> {<<BlankItem>>}]

\* normalizeBlockLect: a block without a weight takes its place for one
Normalize(doc) == [doc EXCEPT !.blocks = [i \in DOMAIN @ |-> [@[i] EXCEPT !.weight = {Or(@, i - 1)}]]]

\* deepMergeLect: the source's rows, each over the target's of the same index
Over(target, source) == IF source = Absent THEN target ELSE source
MergeRows(target, source, Merge(_, _)) ==
    [i \in DOMAIN source |-> IF i \in DOMAIN target THEN Merge(target[i], source[i]) ELSE source[i]]
MergeItem(t, s) == [weight |-> Over(t.weight, s.weight), text |-> s.text @@ t.text]
MergeItems(t, s) == IF s = Absent THEN t ELSE {MergeRows(Rows(t), Has(s), MergeItem)}
MergeBlock(t, s) == [id |-> s.id, weight |-> Over(t.weight, s.weight), text |-> s.text @@ t.text,
                     items |-> MergeItems(t.items, s.items)]
MergeLects(t, s) ==
    Normalize([text |-> s.text @@ t.text, items |-> MergeItems(t.items, s.items),
               blocks |-> IF s.blocks = << >> THEN t.blocks ELSE MergeRows(t.blocks, s.blocks, MergeBlock)])

LectForPage(doc) == MergeLects(Blueprint, Normalize(doc))

-----------------------------------------------------------------------------
\* renderLectFields: the value in the form's language, '' where there is none,
\* under a name that holds the row's place in the document
Shows(text, lang) == lang :> (IF lang \in DOMAIN text THEN text[lang] ELSE 0)
PostItem(item, i, lang) == [weight |-> {Or(item.weight, i - 1)}, text |-> Shows(item.text, lang)]
PostItems(o, lang) ==
    IF Rows(o) = << >> THEN Absent ELSE {[i \in DOMAIN Has(o) |-> PostItem(Has(o)[i], i, lang)]}
PostBlock(block, i, lang) == [id |-> block.id, weight |-> {Or(block.weight, i - 1)},
                              text |-> Shows(block.text, lang), items |-> PostItems(block.items, lang)]
\* what is displayed is sorted by weight
Displayed(rows) == SortSeq(rows, LAMBDA a, b : Has(a.weight) < Has(b.weight))
\* mutant: the rows are numbered as they are displayed
PostDisplayed(doc, lang) ==
    [text |-> Shows(doc.text, lang), items |-> PostItems(doc.items, lang),
     blocks |-> Displayed([i \in DOMAIN doc.blocks |-> PostBlock(doc.blocks[i], i, lang)])]
PostToLect(doc, lang) ==
    [text |-> Shows(doc.text, lang), items |-> PostItems(doc.items, lang),
     blocks |-> [i \in DOMAIN doc.blocks |-> PostBlock(doc.blocks[i], i, lang)]]

\* lectFromForm: the document with what was posted; json is the box with the whole of it
Nothing == [text |-> << >>, items |-> Absent, blocks |-> << >>]
LectFromForm(doc, t) ==
    MergeLects(MergeLects(Blueprint, LectForPage(doc)),
               MergeLects(Normalize(IF boxed THEN tab[t].json ELSE Nothing), PostToLect(tab[t].form, tab[t].lang)))

\* getNextWeight, addDefaultItem and the splices of applyStructuredAction
NextWeight(rows) == 1 + Max({Or(rows[i].weight, 0) : i \in DOMAIN rows} \cup {0}) - (IF rows = << >> THEN 1 ELSE 0)
Add(rows, row) == Append(rows, [row EXCEPT !.weight = {NextWeight(rows)}])
AddItems(o, count) == {FoldLeft(LAMBDA rows, n : Add(rows, BlankItem), Rows(o), [n \in 1..count |-> n])}
Delete(rows, k) == IF k \in DOMAIN rows THEN RemoveAt(rows, k) ELSE rows
ApplyStructuredAction(doc, a) ==
    CASE a.kind = "none" -> doc
      [] a.kind = "block-add" -> [doc EXCEPT !.blocks = Add(@, BlockToLect(a.id))]
      [] a.kind = "block-delete" -> [doc EXCEPT !.blocks = Delete(@, a.block)]
      [] a.kind = "item-add" -> [doc EXCEPT !.items = AddItems(@, a.count)]
      [] a.kind = "item-delete" -> [doc EXCEPT !.items = {Delete(Rows(@), a.item)}]
      [] a.kind = "block-item-add" ->
            IF a.block \in DOMAIN doc.blocks THEN [doc EXCEPT !.blocks[a.block].items = AddItems(@, a.count)] ELSE doc
      [] a.kind = "block-item-delete" ->
            IF a.block \in DOMAIN doc.blocks
            THEN [doc EXCEPT !.blocks[a.block].items = {Delete(Rows(@), a.item)}] ELSE doc

-----------------------------------------------------------------------------
Shut == [lang |-> "none"]
Open == {t \in Tabs : tab[t] # Shut}
Render(doc, lang) == [lang |-> lang, form |-> LectForPage(doc), from |-> doc, json |-> LectForPage(doc)]

\* GET /pages/:id/edit, also a change of the form's language, which drops what
\* was typed. The built-in editor posts the whole document too, as the form was
\* rendered from it; a plugin's view posts the fields alone.
Edit(t) ==
    /\ opened < MaxOpened /\ opened' = opened + 1
    /\ \A s \in Tabs : s < t => tab[s] # Shut  \* tabs are numbered as they are opened
    /\ \E lang \in Langs : tab' = [tab EXCEPT ![t] = Render(stored, lang)]
    /\ UNCHANGED <<stored, boxed, clip, typed, posts, last>>

\* The places of a form that hold a text or a weight.
Items(o, at) == {Append(at, i) : i \in DOMAIN Rows(o)}
Places(doc) == {<<"page">>} \cup Items(doc.items, <<"item">>)
               \cup UNION {{<<"block", b>>} \cup Items(doc.blocks[b].items, <<"block", b>>) : b \in DOMAIN doc.blocks}
At(doc, p) == CASE p[1] = "page" -> doc
                [] p[1] = "item" -> Has(doc.items)[p[2]]
                [] p[1] = "block" /\ Len(p) = 2 -> doc.blocks[p[2]]
                [] OTHER -> Has(doc.blocks[p[2]].items)[p[3]]
Put(doc, p, row) == CASE p[1] = "page" -> row
                      [] p[1] = "item" -> [doc EXCEPT !.items = {[Has(@) EXCEPT ![p[2]] = row]}]
                      [] p[1] = "block" /\ Len(p) = 2 -> [doc EXCEPT !.blocks[p[2]] = row]
                      [] OTHER -> [doc EXCEPT !.blocks[p[2]].items = {[Has(@) EXCEPT ![p[3]] = row]}]
Fill(row, text) == [row EXCEPT !.text = text @@ @]

Type(t) ==
    /\ typed < MaxTyped /\ typed' = typed + 1
    /\ \E p \in Places(tab[t].form) :
           tab' = [tab EXCEPT ![t].form = Put(@, p, Fill(At(@, p), tab[t].lang :> typed + 1))]
    /\ UNCHANGED <<stored, boxed, clip, opened, posts, last>>
\* the number of a block; and syncWeights, when an item is dragged: its list is
\* numbered in the order it now has on the screen
Weigh(t) ==
    /\ typed < MaxTyped /\ typed' = typed + 1
    /\ \E b \in DOMAIN tab[t].form.blocks, w \in Weights : tab' = [tab EXCEPT ![t].form.blocks[b].weight = {w}]
    /\ UNCHANGED <<stored, boxed, clip, opened, posts, last>>
Ordered(rows, place) == [i \in DOMAIN rows |-> [rows[i] EXCEPT !.weight = {place[i]}]]
Drag(t) ==
    /\ typed < MaxTyped /\ typed' = typed + 1
    /\ \E at \in {<<"page">>} \cup {<<"block", b>> : b \in DOMAIN tab[t].form.blocks} :
        LET list == At(tab[t].form, at)
        IN  /\ Len(Rows(list.items)) > 1
            /\ \E place \in {f \in [DOMAIN Has(list.items) -> 0..(Len(Has(list.items)) - 1)] : IsInjective(f)} :
                   tab' = [tab EXCEPT ![t].form = Put(@, at, [list EXCEPT !.items = {Ordered(Has(@), place)}])]
    /\ UNCHANGED <<stored, boxed, clip, opened, posts, last>>

\* collectFields: the fields under their names, less the language
Copy(t) ==
    /\ posts = 0 \* bound: copied before anything is posted
    /\ clip' = [p \in Places(tab[t].form) |-> Shows(At(tab[t].form, p).text, tab[t].lang)[tab[t].lang]]
    /\ UNCHANGED <<stored, boxed, tab, opened, typed, posts, last>>
\* applyFields: every field of the form that the clip has a value for
Filled(form, lang, places) ==
    FoldSet(LAMBDA p, doc : Put(doc, p, Fill(At(doc, p), lang :> clip[p])), form, places)
Paste(t) ==
    /\ clip # << >> /\ typed < MaxTyped /\ typed' = typed + 1
    /\ tab' = [tab EXCEPT ![t].form = Filled(@, tab[t].lang, DOMAIN clip \cap Places(@))]
    /\ UNCHANGED <<stored, boxed, clip, opened, posts, last>>

\* The buttons of a form; the last item of a list has none to delete it.
Buttons(doc) ==
    [kind : {"none"}]
    \cup [kind : {"block-add"}, id : {posts + 1}]
    \cup [kind : {"block-delete"}, block : DOMAIN doc.blocks]
    \cup [kind : {"item-add"}, count : 1..MaxAdded]
    \cup {a \in [kind : {"item-delete"}, item : DOMAIN Rows(doc.items)] : Len(Rows(doc.items)) > 1}
    \cup [kind : {"block-item-add"}, block : DOMAIN doc.blocks, count : 1..MaxAdded]
    \cup UNION {LET rows == Rows(doc.blocks[b].items)
                IN  {a \in [kind : {"block-item-delete"}, block : {b}, item : DOMAIN rows] : Len(rows) > 1}
                : b \in DOMAIN doc.blocks}
Small(doc) == /\ Len(doc.blocks) <= MaxRows /\ Len(Rows(doc.items)) <= MaxRows
              /\ \A b \in DOMAIN doc.blocks : Len(Rows(doc.blocks[b].items)) <= MaxRows

MayPost(t) == /\ posts < MaxPosts /\ posts' = posts + 1
              /\ last # << >> => last.refused \/ last.tab # t  \* bound: a tab saves once

\* POST /pages/:id: saved, and rendered again from what is stored
Save(t) ==
    /\ MayPost(t)
    /\ \E posted \in {LectFromForm(stored, t)}, a \in Buttons(tab[t].form) :
        \E doc \in {Normalize(ApplyStructuredAction(posted, a))} :
            /\ Small(doc) /\ stored' = doc /\ last' = [tab |-> t, pressed |-> a, refused |-> FALSE]
            /\ tab' = [tab EXCEPT ![t] = Render(doc, @.lang)]
    /\ UNCHANGED <<boxed, clip, opened, typed>>
\* refused (no name): the form comes back with what was posted, the box with what is stored
Refuse(t) ==
    /\ MayPost(t)
    /\ tab' = [tab EXCEPT ![t] = [Render(stored, @.lang) EXCEPT !.form = LectFromForm(stored, t), !.json = stored]]
    /\ last' = [tab |-> t, pressed |-> [kind |-> "none"], refused |-> TRUE]
    /\ UNCHANGED <<stored, boxed, clip, opened, typed>>

Init == /\ stored \in Originals /\ boxed \in BOOLEAN /\ tab = [t \in Tabs |-> Shut] /\ clip = << >>
        /\ opened = 0 /\ typed = 0 /\ posts = 0 /\ last = << >>
Next == \/ \E t \in Tabs : Edit(t)
        \/ \E t \in Open : Type(t) \/ Weigh(t) \/ Drag(t) \/ Copy(t) \/ Paste(t) \/ Save(t) \/ Refuse(t)
Spec == Init /\ [][Next]_vars

-----------------------------------------------------------------------------
\* What a form is a view of: every row with its place and, in the form's language, its text.
Seen(rows, lang) == [i \in DOMAIN rows |-> [weight |-> Or(rows[i].weight, i - 1), text |-> Shows(rows[i].text, lang) @@ rows[i].text]]
View(doc, lang) ==
    [text |-> Shows(doc.text, lang) @@ doc.text, items |-> Seen(Rows(doc.items), lang),
     blocks |-> [b \in DOMAIN doc.blocks |->
                   [id |-> doc.blocks[b].id, items |-> Seen(Rows(doc.blocks[b].items), lang)] @@ Seen(doc.blocks, lang)[b]]]

Skip(rows, k) == [i \in 1..(Len(rows) - 1) |-> IF i < k THEN rows[i] ELSE rows[i + 1]]
\* rows added: the others as they were, the new ones empty and shown after all of them
Adds(old, new, n) ==
    /\ Len(new) = Len(old) + n /\ \A i \in DOMAIN old : new[i] = old[i]
    /\ \A k \in (Len(old) + 1)..Len(new) : Range(new[k].text) = {0} /\ \A i \in 1..(k - 1) : new[i].weight < new[k].weight
\* what a button is for
AsMeant(doc, new, a) ==
    CASE a.kind = "none" -> new = doc
      [] a.kind = "block-add" -> Adds(doc.blocks, new.blocks, 1) /\ [new EXCEPT !.blocks = doc.blocks] = doc
      [] a.kind = "block-delete" -> new = [doc EXCEPT !.blocks = Skip(@, a.block)]
      [] a.kind = "item-add" -> Adds(doc.items, new.items, a.count) /\ [new EXCEPT !.items = doc.items] = doc
      [] a.kind = "item-delete" -> new = [doc EXCEPT !.items = Skip(@, a.item)]
      [] a.kind = "block-item-add" ->
            /\ Adds(doc.blocks[a.block].items, new.blocks[a.block].items, a.count)
            /\ [new EXCEPT !.blocks[a.block].items = doc.blocks[a.block].items] = doc
      [] a.kind = "block-item-delete" -> new = [doc EXCEPT !.blocks[a.block].items = Skip(@, a.item)]

\* Posting a form saves, or when it is refused shows again, what is on the
\* screen, and its button does what it says: every row keeps its texts in the
\* other languages, a deletion takes the row it is under and no other, an added
\* row comes last, though rows are posted and merged by their index and are
\* shown by weight. A form the page has changed under at least has its own
\* way in the language it shows.
PostsLandAsShown ==
    [][posts' # posts =>
        LET t == last'.tab
            new == tab'[t].form
        IN  /\ tab[t].from = stored => AsMeant(View(tab[t].form, tab[t].lang), View(new, tab[t].lang), last'.pressed)
            /\ last'.pressed.kind = "none" => \A p \in Places(tab[t].form) :
                   At(new, p).text[tab[t].lang] = Shows(At(tab[t].form, p).text, tab[t].lang)[tab[t].lang]]_vars
=============================================================================
