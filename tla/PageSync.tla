------------------------------ MODULE PageSync ------------------------------
(***************************************************************************)
(* Several people edit one page (core/durable-objects/page-sync.ts and     *)
(* core/views/assets/editor-sync.js): a form field, for which the last     *)
(* writer wins, and, where rich, a text whose changes are merged by Yjs.   *)
(* A browser tab has at most one connection; the object notices the end of *)
(* one later (stale).  Messages of a connection may be handled in any      *)
(* order, for each waits until its sender is authorized; a broadcast waits *)
(* for that of every receiver, so broadcasts overtake each other, but not  *)
(* the replies that were sent before them.                                 *)
(* An edit is its time stamp, 0 the value a page is loaded with.  Every    *)
(* browser stamps with a clock of its own: a stamp is any that is not used *)
(* yet, later or earlier than what the tab has seen.  A replica of the     *)
(* text is what it has been told: pieces, some of them deleted.  The text  *)
(* the object began with is a piece of its own.                            *)
(***************************************************************************)
EXTENDS Naturals, Sequences, FiniteSets, FiniteSetsExt, SequencesExt

CONSTANTS Tabs, Users, Owner,    \* tabs of the page, and whose they are
          MaxStamp,              \* bound: stamps, and so edits, of the field
          MaxPieces,             \* bound: pieces of the text
          MaxTurns               \* bound: saves and connections that break
ASSUME PageSyncAssumption ==
    Owner \in [Tabs -> Users] /\ {MaxStamp, MaxPieces, MaxTurns} \subseteq Nat /\ "base" \notin Tabs

VARIABLES
    rich,       \* the page has a text
    stored,     \* the saved value of the field
    saving,     \* a save was stored, the object does not know yet
    presence,   \* users with a row
    overlay,    \* for each user his newest edit, 0 for none
    text,       \* the object's replica, NoText when there is none
    stale,      \* tabs with a dead connection the object still lists
    leaving,    \* users whose last connection ended, whose edits are to go
    open, enabled, live,    \* tabs loaded, with sync switched on, connected
    reg, shown, base,       \* a tab's register, field and baseline
    astray,     \* history: tabs led astray (Strays)
    doc, synced, dirty, typed,  \* its replica; it has the object's; it typed offline; before that
    blank,      \* tabs whose baseline of the text is empty
    up,         \* messages to the object
    down,       \* replies to a tab
    out,        \* broadcasts not sent yet, with their receiver
    used, pieces, turns     \* stamps given; pieces and turns, counted
object == <<presence, overlay, text, stale, leaving>>
form == <<reg, shown, base, astray>>
copy == <<doc, synced, dirty, typed, blank>>
wire == <<up, down, out>>
counts == <<used, pieces, turns>>
syncVars == <<rich, stored, saving, object, open, enabled, live, form, copy, wire, counts>>

NoText == [ins |-> {<<"none", 0>>}, del |-> {}]
Empty == [ins |-> {}, del |-> {}]
Merge(d, e) == [ins |-> d.ins \cup e.ins, del |-> d.del \cup e.del]
Bases(d) == {p \in d.ins : p[1] = "base"}
Newest(edits) == Max(Range(edits) \cup {0})

SyncTypes ==
    /\ presence \subseteq Users /\ leaving \subseteq Users /\ overlay \in [Users -> 0..MaxStamp]
    /\ open \subseteq Tabs /\ live \subseteq open /\ stale \subseteq Tabs /\ astray \subseteq Tabs
    /\ reg \in [Tabs -> 0..MaxStamp] /\ shown \in [Tabs -> 0..MaxStamp] /\ base \in [Tabs -> 0..MaxStamp]
    /\ used \subseteq 1..MaxStamp
    /\ synced \in [Tabs -> BOOLEAN] /\ dirty \in [Tabs -> BOOLEAN] /\ typed \in [Tabs -> BOOLEAN]

SyncInit ==
    /\ rich \in BOOLEAN /\ stored = 0 /\ saving = FALSE
    /\ presence = {} /\ overlay = [u \in Users |-> 0] /\ text = NoText /\ stale = {} /\ leaving = {}
    /\ open = {} /\ enabled = {} /\ live = {}
    /\ reg = [t \in Tabs |-> 0] /\ shown = reg /\ base = reg
    /\ doc = [t \in Tabs |-> Empty] /\ synced = [t \in Tabs |-> FALSE] /\ dirty = synced /\ typed = synced
    /\ blank = {} /\ astray = {}
    /\ up = [t \in Tabs |-> {}] /\ down = [t \in Tabs |-> <<>>] /\ out = {}
    /\ used = {} /\ pieces = 0 /\ turns = 0

-----------------------------------------------------------------------------
\* What is sent.
Op(s) == [type |-> "op", edit |-> s]
Update(d) == [type |-> "text-update", change |-> d]
Sync == [type |-> "sync"]
TextSync(t) == [type |-> "text-sync", blank |-> t \in blank']
Asks == {"sync", "text-sync"}
Send(t, ms) == up' = [up EXCEPT ![t] = @ \cup ms]
Reply(t, m) == down' = [down EXCEPT ![t] = Append(@, m)]
ToOthers(t, m) == out' = out \cup {<<o, m>> : o \in live \ {t}}
ToAll(m) == out' = out \cup {<<o, m>> : o \in live}

\* What leads a tab astray, and no longer: it is a history, no step depends on it.
Strays(t, lost) == astray' = IF lost THEN astray \cup {t} ELSE astray
Finds(t, found) == astray' = IF found THEN astray \ {t} ELSE astray \cup {t}

-----------------------------------------------------------------------------
\* A tab.  init: the page shows what is saved, whatever the object still has of
\* the tab's last connection.
Load(t) ==
    /\ t \notin open /\ open' = open \cup {t}
    /\ reg' = [reg EXCEPT ![t] = 0] /\ shown' = [shown EXCEPT ![t] = stored] /\ base' = [base EXCEPT ![t] = stored]
    /\ Finds(t, overlay[Owner[t]] = 0)
    /\ doc' = [doc EXCEPT ![t] = Empty] /\ synced' = [synced EXCEPT ![t] = FALSE]
    /\ dirty' = [dirty EXCEPT ![t] = FALSE] /\ typed' = [typed EXCEPT ![t] = FALSE] /\ blank' = blank \ {t}
    /\ UNCHANGED <<rich, stored, saving, object, enabled, live, wire, counts>>

\* sendHeartbeat; handlePresence, POST.
Heartbeat(t) ==
    /\ t \in open /\ Owner[t] \notin presence /\ presence' = presence \cup {Owner[t]}
    /\ UNCHANGED <<rich, stored, saving, overlay, text, stale, leaving, open, enabled, live, form, copy, wire, counts>>

\* deleteStalePresence: ten minutes without a heartbeat.
\* mutant: a row is forgotten between two heartbeats
AnyoneIdle(u) == TRUE
Away(u) == \A t \in open : Owner[t] # u
Forget(u) ==
    /\ u \in presence /\ Away(u)
    /\ presence' = presence \ {u}
    /\ UNCHANGED <<rich, stored, saving, overlay, text, stale, leaving, open, enabled, live, form, copy, wire, counts>>

\* A connection ends, at the client's end: what was sent and is kept may still
\* be handled, but nobody waits for replies.
End(t, kept) ==
    /\ live' = live \ {t} /\ stale' = IF t \in live THEN stale \cup {t} ELSE stale
    /\ up' = [up EXCEPT ![t] = {m \in kept : m.type \notin Asks}] /\ down' = [down EXCEPT ![t] = <<>>]
    /\ out' = {b \in out : b[1] # t}

\* renderAvatars: sync is for pages with more than one editor.
Refresh(t) ==
    /\ t \in open
    /\ \/ /\ Cardinality(presence) > 1 /\ t \notin enabled /\ enabled' = enabled \cup {t}
          /\ UNCHANGED <<live, stale, wire>>
       \/ /\ Cardinality(presence) <= 1 /\ t \in enabled /\ enabled' = enabled \ {t}
          /\ End(t, up[t])
    /\ UNCHANGED <<rich, stored, saving, presence, overlay, text, leaving, open, form, copy, counts>>

\* beforeunload: the presence row of the user goes, unless the call is lost.
Leave(t) ==
    /\ t \in open /\ open' = open \ {t} /\ enabled' = enabled \ {t} /\ End(t, up[t])
    /\ presence' \in {presence, presence \ {Owner[t]}}
    /\ UNCHANGED <<rich, stored, saving, overlay, text, leaving, form, copy, counts>>

\* The network fails, or the object closes a socket it no longer authorizes.  A
\* tab has one dead connection at a time.
Cut(t) ==
    /\ t \in live \ stale /\ turns < MaxTurns /\ turns' = turns + 1
    /\ \E kept \in SUBSET up[t] : End(t, kept)
    /\ UNCHANGED <<rich, stored, saving, presence, overlay, text, leaving, open, enabled, form, copy, used, pieces>>

\* connect, onopen.
Connect(t) ==
    /\ t \in enabled \ live /\ live' = live \cup {t} /\ UNCHANGED copy
    /\ Send(t, {Sync} \cup (IF rich THEN {TextSync(t)} ELSE {}))
    /\ UNCHANGED <<rich, stored, saving, object, open, enabled, form, down, out, counts>>

-----------------------------------------------------------------------------
\* sendOp: an edit of the field.  Where the browser's clock is behind, the tab's
\* own register goes back, and the others do not take the edit.
Edit(t) ==
    /\ t \in open
    /\ \E s \in (1..MaxStamp) \ used :
         /\ used' = used \cup {s}
         /\ reg' = [reg EXCEPT ![t] = s] /\ shown' = [shown EXCEPT ![t] = s]
         /\ Send(t, IF t \in live THEN {Op(s)} ELSE {})
         /\ IF s > Newest(overlay) THEN Finds(t, TRUE) ELSE Strays(t, s < reg[t])
    /\ UNCHANGED <<rich, stored, saving, object, open, enabled, live, base, copy, down, out, pieces, turns>>

\* cms:richtext-change: a piece is typed, another may be deleted.  What is typed
\* before the object's text has come is kept aside.
Piece(t) == <<t, pieces + 1>>
Type(t) ==
    /\ rich /\ t \in open
    /\ IF ~synced[t]
       THEN typed' = [typed EXCEPT ![t] = TRUE] /\ UNCHANGED <<doc, synced, dirty, up, pieces>>
       ELSE /\ pieces < MaxPieces /\ pieces' = pieces + 1
            /\ \E gone \in {{}} \cup {{p} : p \in doc[t].ins \ doc[t].del} :
                 LET change == [ins |-> {Piece(t)}, del |-> gone]
                 IN  /\ doc' = [doc EXCEPT ![t] = Merge(@, change)]
                     /\ IF t \in live THEN Send(t, {Update(change)}) /\ UNCHANGED dirty
                                      ELSE dirty' = [dirty EXCEPT ![t] = TRUE] /\ UNCHANGED up
            /\ UNCHANGED <<synced, typed>>
    /\ UNCHANGED <<rich, stored, saving, object, open, enabled, live, form, blank, down, out, used, turns>>

-----------------------------------------------------------------------------
\* webSocketMessage, once the sender is authorized.
\* sync: the overlay.
AnswerSync(t) ==
    /\ Sync \in up[t] /\ up' = [up EXCEPT ![t] = @ \ {Sync}]
    /\ Reply(t, [type |-> "snapshot", ops |-> overlay])
    /\ UNCHANGED <<rich, stored, saving, object, open, enabled, live, form, copy, out, counts>>

\* op: the newest of each user is kept and passed on.
HandleOp(t) ==
    /\ \E m \in {x \in up[t] : x.type = "op"} :
         /\ up' = [up EXCEPT ![t] = @ \ {m}]
         /\ IF m.edit > overlay[Owner[t]]
            THEN /\ overlay' = [overlay EXCEPT ![Owner[t]] = m.edit]
                 /\ ToOthers(t, [type |-> "op", edit |-> m.edit, user |-> Owner[t]])
                 /\ Strays(t, m.edit > reg[t])
            ELSE UNCHANGED <<overlay, out, astray>>
    /\ UNCHANGED <<rich, stored, saving, presence, text, stale, leaving, open, enabled, live, reg, shown, base, copy,
                   down, counts>>

\* loadTextDoc: without a replica the text begins with the sender's baseline.
Begun(d, b) == IF d = NoText THEN b ELSE d
Baseline(m) == IF m.blank THEN Empty ELSE [ins |-> {<<"base", pieces + 1>>}, del |-> {}]
AnswerTextSync(t) ==
    /\ \E m \in {x \in up[t] : x.type = "text-sync"} :
         /\ up' = [up EXCEPT ![t] = @ \ {m}]
         /\ text' = Begun(text, Baseline(m))
         /\ pieces' = IF text = NoText THEN pieces + 1 ELSE pieces
    /\ Reply(t, [type |-> "text-sync", doc |-> text'])
    /\ UNCHANGED <<rich, stored, saving, presence, overlay, stale, leaving, open, enabled, live, form, copy, out, used, turns>>

HandleUpdate(t) ==
    /\ \E m \in {x \in up[t] : x.type = "text-update"} :
         /\ up' = [up EXCEPT ![t] = @ \ {m}]
         /\ text' = Merge(Begun(text, Empty), m.change)
         /\ ToOthers(t, m)
    /\ UNCHANGED <<rich, stored, saving, presence, overlay, stale, leaving, open, enabled, live, form, copy, down, counts>>

\* handleDisconnect: unless the user has another connection, the others' marks of
\* him are removed first (a broadcast), then his edits.  What is newest then is not
\* sent: it tells whether the object has changed when a tab hears of it.
Gone(t) ==
    /\ t \in stale /\ stale' = stale \ {t}
    /\ leaving' = IF \E o \in live \cup stale' : Owner[o] = Owner[t] THEN leaving ELSE leaving \cup {Owner[t]}
    /\ UNCHANGED <<rich, stored, saving, presence, overlay, text, open, enabled, live, form, copy, wire, counts>>
\* mutant: the field falls back to the saved value although another edited it
FallBackToBaseline(edits) == 0
FallBack(edits) == Newest(edits)
Drop(u) ==
    /\ u \in leaving /\ leaving' = leaving \ {u}
    /\ IF overlay[u] = 0 THEN UNCHANGED <<overlay, out>>
       ELSE /\ overlay' = [overlay EXCEPT ![u] = 0]
            /\ ToAll([type |-> "reset", edit |-> FallBack(overlay'), newest |-> Newest(overlay')])
    /\ UNCHANGED <<rich, stored, saving, presence, text, stale, open, enabled, live, form, copy, up, down, counts>>

-----------------------------------------------------------------------------
\* The save route stores a form, then tells the object (notifyPageSaved), which
\* forgets everything; the call may be lost.
Store(t) ==
    /\ t \in open /\ ~saving /\ turns < MaxTurns /\ turns' = turns + 1
    /\ stored' = shown[t] /\ saving' = TRUE
    /\ UNCHANGED <<rich, object, open, enabled, live, form, copy, wire, used, pieces>>
Saved ==
    /\ saving /\ saving' = FALSE
    /\ overlay' = [u \in Users |-> 0] /\ text' = NoText /\ ToAll([type |-> "saved"])
    /\ UNCHANGED <<rich, stored, presence, stale, leaving, open, enabled, live, form, copy, up, down, counts>>

-----------------------------------------------------------------------------
\* onmessage.  applyRemote: an edit of another user that is newer than the register.
Apply(t, s) == /\ reg' = [reg EXCEPT ![t] = IF s > @ THEN s ELSE @]
               /\ shown' = [shown EXCEPT ![t] = IF s > reg[t] THEN s ELSE @]

\* snapshot: the others' edits are applied; what the object lacks is sent again.
Lacking(t, ops) == IF reg'[t] > Newest(ops) THEN {Op(reg'[t])} ELSE {}
HearSnapshot(t) ==
    /\ down[t] # <<>> /\ Head(down[t]).type = "snapshot" /\ down' = [down EXCEPT ![t] = Tail(@)]
    /\ LET ops == Head(down[t]).ops
       IN  /\ Apply(t, Max({ops[u] : u \in Users \ {Owner[t]}} \cup {0}))
           /\ Send(t, Lacking(t, ops))
    /\ UNCHANGED <<rich, stored, saving, object, open, enabled, live, base, astray, copy, out, counts>>

\* text-sync: the object's text is merged in; what was typed before the first one
\* replaces what others typed (replaceText); what was typed offline is sent.
\* mutant: what was typed offline is kept to oneself
SentNothing(t, d) == {}
SentAgain(t, d) == IF dirty[t] THEN {Update(d)} ELSE {}
HearTextSync(t) ==
    /\ down[t] # <<>> /\ Head(down[t]).type = "text-sync" /\ down' = [down EXCEPT ![t] = Tail(@)]
    /\ LET merged == Merge(doc[t], Head(down[t]).doc)
           first == ~synced[t] /\ typed[t]
           change == [ins |-> {Piece(t)}, del |-> {p \in merged.ins \ merged.del : p[1] # "base"}]
           now == IF first THEN Merge(merged, change) ELSE merged
       IN  /\ first => pieces < MaxPieces
           /\ pieces' = IF first THEN pieces + 1 ELSE pieces
           /\ doc' = [doc EXCEPT ![t] = now] /\ synced' = [synced EXCEPT ![t] = TRUE]
           /\ Send(t, (IF first THEN {Update(change)} ELSE {}) \cup SentAgain(t, now))
           /\ dirty' = [dirty EXCEPT ![t] = FALSE] /\ typed' = [typed EXCEPT ![t] = FALSE]
    /\ UNCHANGED <<rich, stored, saving, object, open, enabled, live, form, blank, out, used, turns>>

\* A broadcast is sent and arrives: not before the replies sent earlier.
Hear(t, type, m) == <<t, m>> \in out /\ m.type = type /\ down[t] = <<>> /\ out' = out \ {<<t, m>>}
HearOp(t, m) ==
    /\ Hear(t, "op", m)
    /\ IF m.user = Owner[t] THEN UNCHANGED <<reg, shown, astray>>
                            ELSE Apply(t, m.edit) /\ Strays(t, m.edit > overlay[m.user] /\ m.edit > reg[t])
    /\ UNCHANGED <<rich, stored, saving, object, open, enabled, live, base, copy, up, down, counts>>
HearUpdate(t, m) ==
    /\ Hear(t, "text-update", m) /\ doc' = [doc EXCEPT ![t] = Merge(@, m.change)]
    /\ UNCHANGED <<rich, stored, saving, object, open, enabled, live, form, synced, dirty, typed, blank, up, down, counts>>
HearReset(t, m) ==
    /\ Hear(t, "reset", m)
    /\ reg' = [reg EXCEPT ![t] = m.edit] /\ shown' = [shown EXCEPT ![t] = IF m.edit = 0 THEN base[t] ELSE m.edit]
    /\ Finds(t, Newest(overlay) = m.newest)
    /\ UNCHANGED <<rich, stored, saving, object, open, enabled, live, base, copy, up, down, counts>>
\* saved: what is shown is the new baseline; the text begins anew.
HearSaved(t, m) ==
    /\ Hear(t, "saved", m)
    /\ base' = [base EXCEPT ![t] = shown[t]] /\ reg' = [reg EXCEPT ![t] = 0]
    /\ Finds(t, Newest(overlay) = 0)
    /\ doc' = [doc EXCEPT ![t] = Empty] /\ synced' = [synced EXCEPT ![t] = FALSE]
    /\ dirty' = [dirty EXCEPT ![t] = FALSE] /\ typed' = [typed EXCEPT ![t] = FALSE]
    /\ blank' = IF doc[t].ins = {} THEN blank \cup {t} ELSE blank \ {t}
    /\ Send(t, IF rich THEN {TextSync(t)} ELSE {})
    /\ UNCHANGED <<rich, stored, saving, object, open, enabled, live, shown, down, counts>>

-----------------------------------------------------------------------------
Broadcast(t) == \E m \in {b[2] : b \in out} : HearOp(t, m) \/ HearUpdate(t, m) \/ HearReset(t, m) \/ HearSaved(t, m)
Answer(t) == AnswerSync(t) \/ AnswerTextSync(t) \/ HandleOp(t) \/ HandleUpdate(t)
Receive(t) == HearSnapshot(t) \/ HearTextSync(t) \/ Broadcast(t)
Settle(t) == Answer(t) \/ Receive(t) \/ Gone(t) \/ Heartbeat(t) \/ Refresh(t) \/ Connect(t)
People(t) == Load(t) \/ Leave(t) \/ Edit(t) \/ Type(t) \/ Store(t)
SyncNext ==
    \/ \E t \in Tabs : Settle(t) \/ People(t) \/ Cut(t)
    \/ \E u \in Users : Drop(u) \/ Forget(u)
    \/ Saved
SyncSpec == SyncInit /\ [][SyncNext]_syncVars

\* What Apart leaves out, of pages with a text: text that was sent on a connection
\* that broke; a save that a tab with a copy of the text does not hear of, or with
\* anything under way; what happens between the object's answer to a save and the
\* last tab's hearing of it; a page loaded again before the object is done with the
\* tab's last connection.
Updates(t) == {m \in up[t] : m.type = "text-update"}
Still == out = {} /\ \A t \in Tabs : up[t] = {} /\ down[t] = <<>>
Turning == \E b \in out : b[2].type = "saved"
Apart == rich =>
    /\ saving /\ ~saving' => Still /\ stale = {} /\ open \subseteq live /\ \A t \in live : synced[t]
    /\ stale' # stale => \A t \in Tabs : Updates(t) \subseteq up'[t]
    /\ \A t \in open' \ open : t \notin stale /\ up[t] = {}
    /\ Turning => \E t \in Tabs : \E m \in {b[2] : b \in out} : HearSaved(t, m)

\* Browsers and the object go on; people, the network and time need not.
Fairness == /\ \A t \in Tabs : /\ WF_syncVars(Heartbeat(t) /\ Apart) /\ WF_syncVars(Refresh(t) /\ Apart)
                               /\ WF_syncVars(Connect(t) /\ Apart) /\ WF_syncVars(Broadcast(t) /\ Apart)
            /\ \A u \in Users : WF_syncVars(Drop(u) /\ Apart)
SpecApart == SyncInit /\ [][SyncNext /\ Apart]_syncVars /\ Fairness

-----------------------------------------------------------------------------
Quiet == Still /\ ~saving /\ stale = {} /\ leaving = {}

\* Once everything has arrived nobody misses a newer edit, of a user who is not
\* in two tabs his own included, or keeps one the object has dropped, whatever
\* connections broke and whichever messages were lost or overtook each other.
\* That holds of every tab but those led astray, since when none of their edits
\* was newer than all the object had and no departure or save put them right:
\*  - its clock is behind what it shows when it edits (Edit);
\*  - it hears of an edit the object has dropped, or of a departure or save after
\*    which the object has changed again (HearOp, HearReset, HearSaved);
\*  - the object takes an edit that the tab was told to forget (HandleOp), or has
\*    one of the user when the page is loaded again (Load).
TabsOf(u) == {t \in Tabs : Owner[t] = u}
EditsArrive ==
    Quiet => \A t \in live \ astray : /\ \A u \in Users : Owner[t] # u \/ TabsOf(u) = {t} => overlay[u] <= reg[t]
                                      /\ shown[t] = IF reg[t] = 0 THEN base[t] ELSE reg[t]
                                      /\ reg[t] <= Newest(overlay)
FieldsConverge == SyncTypes /\ EditsArrive

\* Then all replicas of the text are the same and hold the text the page began
\* with once, though two tabs may offer it, reconnect, or type while offline.
TextsMerge ==
    Quiet /\ rich => \A t \in live : synced[t] /\ doc[t] = text /\ Cardinality(Bases(text)) = 1

\* Editors who stay on the page are connected in the end, and stay so, although
\* closing one tab takes the presence of all its user's tabs away.
EditorsMeet == \A s \in SUBSET Tabs :
    Cardinality({Owner[t] : t \in s}) > 1 => (<>[](open = s) => <>[](live = s))
=============================================================================
