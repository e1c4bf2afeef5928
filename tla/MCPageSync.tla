----------------------------- MODULE MCPageSync -----------------------------
(***************************************************************************)
(* Four parts of PageSync: two edits of the field in three tabs, two of     *)
(* them of one user; two in two tabs, with a save or a connection that      *)
(* breaks; the text in two tabs; and how tabs come to be connected.  In the *)
(* first two nothing is kept apart.                                         *)
(***************************************************************************)
EXTENDS PageSync
VARIABLE part
allVars == <<part, rich, stored, saving, presence, overlay, text, stale, leaving, open, enabled, live, reg, shown,
             base, astray, doc, synced, dirty, typed, blank, up, down, out, used, pieces, turns>>
MCOwner == [t \in Tabs |-> IF t = "b" THEN "v" ELSE "u"]
At(p, x, y) == IF part = p THEN x ELSE y
PartsInit ==
    /\ part \in {"field", "save", "text", "presence"} /\ rich = (part = "text") /\ stored = 0 /\ saving = FALSE
    /\ presence = At("presence", {}, Users) /\ overlay = [u \in Users |-> 0] /\ text = NoText
    /\ stale = {} /\ leaving = {}
    /\ open = At("presence", {}, At("field", Tabs, {"a1", "b"})) /\ enabled = open
    /\ live = IF part \in {"field", "save"} THEN open ELSE {}
    /\ reg = [t \in Tabs |-> 0] /\ shown = reg /\ base = reg
    /\ doc = [t \in Tabs |-> Empty] /\ synced = [t \in Tabs |-> FALSE] /\ dirty = synced /\ typed = synced
    /\ blank = {} /\ astray = {} /\ up = [t \in Tabs |-> {}] /\ down = [t \in Tabs |-> <<>>] /\ out = {}
    /\ used = {} /\ pieces = 0 /\ turns = 0
PartsNext ==
    /\ SyncNext /\ Apart /\ UNCHANGED part
    /\ part = "presence" => used' = {} /\ ~saving'
    /\ part # "presence" => presence' = presence /\ open' \subseteq open
    /\ part = "field" => turns' = 0
    /\ part = "text" => used' = {} /\ open' = open /\ (leaving # {} => leaving' # leaving)
Goes(A) == A /\ Apart /\ UNCHANGED part
PartsFairness ==
    /\ \A t \in Tabs : /\ WF_allVars(Goes(Heartbeat(t))) /\ WF_allVars(Goes(Refresh(t)))
                       /\ WF_allVars(Goes(Connect(t))) /\ WF_allVars(Goes(Broadcast(t)))
    /\ \A u \in Users : WF_allVars(Goes(Drop(u)))
PartsSpec == PartsInit /\ [][PartsNext]_allVars /\ PartsFairness
=============================================================================
