-------------------------- MODULE RequestsProofs --------------------------
(***************************************************************************)
(* What holds of requests that meet, for any number of requests, rows,     *)
(* identities and pages: those of and about plugins (Plugins), and those   *)
(* on the drafts (PageContent, PageCreates).  The argument is that of the  *)
(* code: where a batch commits, what it was planned from is what is there, *)
(* so a plan is a step on the present tables; IInv, WInv, CInv and OInv    *)
(* say what the plans carry besides.                                       *)
(***************************************************************************)
EXTENDS MCRequests, FiniteSetTheorems, SequenceTheorems, WellFoundedInduction, TLAPS

RowType == [url : Urls \cup {None}, on : BOOLEAN, secret : Nat]
ApprovalType == [id : Ids, scope : Scopes, row : Rows]
EntryType == [kind : Calls, row : Rows, id : Ids, scope : Scopes \cup {None}, n : Nat, secret : Nat]
Kinds == {"idle", "create", "update", "toggle", "rotate", "remove", "identity", "approve", "revoke",
          "state", "number", "write", "connect", "redeem"}
Places == {"over", "read", "commit", "resolve", "claim", "current", "mint", "posted", "ticket", "take", "expired"}
RequestType ==
    [kind : Kinds, pc : Places, row : Rows \cup {0}, id : Ids \cup {None}, ticket : Nat, seen : RowType,
     granted : SUBSET ApprovalType, plugins : [Rows -> RowType], pins : [Rows -> Ids \cup {None}],
     approvals : SUBSET ApprovalType, state : [Ids -> Rows \cup {0}], sequences : [Ids -> Nat]]

(* The tables.                                                             *)
TablesOK == /\ plugins \in [Rows -> RowType] /\ made \in Nat /\ secrets \in Nat
            /\ pins \in [Rows -> Ids \cup {None}] /\ approvals \in SUBSET ApprovalType
            /\ state \in [Ids -> Rows \cup {0}] /\ sequences \in [Ids -> Nat] /\ log \in Seq(EntryType)
            /\ pending \in [Ids -> Nat] /\ tickets \in Seq([id : Ids, url : Urls \cup {None}]) /\ redeemed \in Seq(Nat)
            /\ served \in [Urls -> Ids] /\ cached \in [Urls -> Ids]

(* A row is used once, and is enabled only while it is registered.          *)
RowsOnce == /\ Registered(plugins) \subseteq 1..made
            /\ \A i \in Rows : plugins[i].on => plugins[i].url # None
(* A request names a row, and the identity it goes on with.                 *)
Carries(q) == /\ q.kind # "idle" => q.row \in Rows
              /\ q.kind \in Resolving /\ q.pc # "resolve" => q.id \in Ids /\ (q.seen.on /\ q.seen.url # None)
              /\ q.kind \in Grants /\ q.pc = "commit" => q.id \in Ids
              /\ q.kind \in {"update", "toggle", "rotate"} => q.plugins[q.row].url # None
              /\ q.kind \in {"approve", "revoke"} /\ q.pc = "commit" => q.pins[q.row] = q.id
              /\ q.kind \in Grants => q.plugins[q.row].url # None
              /\ q.kind = "remove" /\ q.pc = "commit" => q.id = q.pins[q.row]
              /\ q.kind = "redeem" => q.ticket # 0
RequestsCarry == \A r \in Requests : Carries(req[r])
ReqOK == req \in [Requests -> RequestType] /\ RequestsCarry
Typed == TablesOK /\ RowsOnce /\ ReqOK
(* The counter of a row is never behind the numbers it was given.           *)
Counted == \A j \in DOMAIN log :
              /\ log[j].row <= made
              /\ log[j].row \in Registered(plugins) => /\ pins[log[j].row] \in Ids
                                                       /\ log[j].kind = "number" => log[j].n <= sequences[pins[log[j].row]]
(* A ticket that is stored has not been redeemed.                           *)
StoredIsFresh == /\ Len(redeemed) = Len(tickets)
                 /\ \A id \in Ids : pending[id] # 0 => /\ pending[id] \in DOMAIN tickets /\ tickets[pending[id]].id = id
                                                       /\ redeemed[pending[id]] = 0
IInv == /\ Typed /\ OwnedByThePinned /\ PrefixesApart
        /\ Counted /\ NumbersNeverRepeat /\ StoredIsFresh /\ SecretGoesOnce

-----------------------------------------------------------------------------
LEMMA IdleIsTyped == Idle \in RequestType /\ Carries(Idle)
<1>1. Absent \in RowType  BY DEF Absent, RowType
<1>2. /\ [i \in Rows |-> Absent] \in [Rows -> RowType] /\ [i \in Rows |-> None] \in [Rows -> Ids \cup {None}]
      /\ [i \in Ids |-> 0] \in [Ids -> Rows \cup {0}] /\ [i \in Ids |-> 0] \in [Ids -> Nat]
    BY <1>1
<1>3. Idle \in RequestType  BY <1>1, <1>2 DEF Idle, RequestType, Kinds, Places
<1>4. Carries(Idle)  BY DEF Idle, Carries, Resolving, Calls, Grants
<1> QED BY <1>3, <1>4

(* One request changes, to something typed.                                *)
LEMMA PutKeeps ==
    ASSUME ReqOK, NEW r \in Requests, NEW x \in RequestType, Carries(x), req' = [req EXCEPT ![r] = x]
    PROVE  ReqOK'
<1>1. req' \in [Requests -> RequestType]  BY DEF ReqOK
<1>2. ASSUME NEW p \in Requests PROVE Carries(req'[p])
    <2>1. CASE p = r  BY <2>1 DEF ReqOK
    <2>2. CASE p # r  BY <2>2 DEF ReqOK, RequestsCarry
    <2> QED BY <2>1, <2>2
<1> QED BY <1>1, <1>2 DEF ReqOK, RequestsCarry

LEMMA DoneKeeps == ASSUME ReqOK, NEW r \in Requests, Done(r) PROVE ReqOK'
BY PutKeeps, IdleIsTyped DEF Done

(* A step of a request: only its place changes.                            *)
LEMMA GotoKeeps ==
    ASSUME ReqOK, NEW r \in Requests, NEW pc \in Places, Goto(r, pc),
           req[r].kind \notin Grants \cup {"remove"}, req[r].pc # "resolve"
    PROVE  ReqOK'
<1> DEFINE x == [req[r] EXCEPT !.pc = pc]
<1>1. req[r] \in RequestType /\ Carries(req[r])  BY DEF ReqOK, RequestsCarry
<1>2. x \in RequestType  BY <1>1 DEF RequestType
<1>3. x.kind = req[r].kind /\ x.row = req[r].row /\ x.id = req[r].id /\ x.seen = req[r].seen
      /\ x.plugins = req[r].plugins /\ x.pins = req[r].pins /\ x.ticket = req[r].ticket
    BY <1>1 DEF RequestType
<1>4. Carries(x)  BY <1>1, <1>3 DEF Carries, Grants
<1>5. req' = [req EXCEPT ![r] = x]  BY DEF Goto, ReqOK
<1> HIDE DEF x
<1> QED BY <1>2, <1>4, <1>5, PutKeeps

-----------------------------------------------------------------------------
tables == <<registry, access, data, enrolment, world>>

LEMMA SameTables == ASSUME TablesOK, RowsOnce, UNCHANGED tables PROVE (TablesOK /\ RowsOnce)'
BY DEF TablesOK, RowsOnce, Registered, tables, registry, access, data, enrolment, world

LEMMA CaptureTyped == ASSUME Typed, NEW r \in Requests, Capture(r) PROVE Typed'
<1>1. UNCHANGED tables  BY DEF Capture, tables
<1>2. PICK kind \in Saves \cup Grants \cup {"remove"}, row \in Rows :
        /\ kind # "create" => row \in Registered(plugins)
        /\ req' = [req EXCEPT ![r] = [Idle EXCEPT !.kind = kind, !.pc = IF kind \in Saves THEN "commit" ELSE "read",
                                                  !.row = row, !.plugins = plugins, !.pins = pins]]
    BY DEF Capture, Begin
<1> DEFINE x == [Idle EXCEPT !.kind = kind, !.pc = IF kind \in Saves THEN "commit" ELSE "read", !.row = row,
                             !.plugins = plugins, !.pins = pins]
<1>3. x \in RequestType
    BY IdleIsTyped DEF RequestType, Kinds, Places, Saves, Grants, Typed, TablesOK
<1>4. x.kind = kind /\ x.pc = (IF kind \in Saves THEN "commit" ELSE "read") /\ x.row = row /\ x.plugins = plugins
    BY IdleIsTyped DEF RequestType
<1>5. Carries(x)
    BY <1>2, <1>4 DEF Carries, Saves, Grants, Resolving, Calls, Registered
<1> HIDE DEF x
<1>6. ReqOK'  BY <1>2, <1>3, <1>5, PutKeeps DEF x, Typed
<1> QED BY <1>1, <1>6, SameTables DEF Typed

LEMMA SaveTyped == ASSUME Typed, NEW r \in Requests, Save(r) PROVE Typed'
<1> DEFINE q == req[r]
           x == [Idle EXCEPT !.kind = "connect", !.pc = "resolve", !.row = q.row]
<1>1. q \in RequestType /\ Carries(q) /\ q.kind \in Saves /\ q.row \in Rows
    BY DEF Typed, ReqOK, RequestsCarry, Save, Carries, Saves
<1>2. x \in RequestType /\ Carries(x)
  <2>1. x \in RequestType  BY <1>1, IdleIsTyped DEF RequestType, Kinds, Places
  <2>2. x.kind = "connect" /\ x.pc = "resolve" /\ x.row \in Rows
      BY <1>1, IdleIsTyped DEF RequestType
  <2> HIDE DEF x
  <2>3. Carries(x)  BY <2>2 DEF Carries, Grants, Resolving, Calls
  <2> QED BY <2>1, <2>3
<1> HIDE DEF x
<1>3. Done(r) \/ req' = [req EXCEPT ![r] = x]  BY DEF Save, x
<1>4. ReqOK'  BY <1>2, <1>3, DoneKeeps, PutKeeps DEF Typed
<1>5. UNCHANGED <<access, data, enrolment, world>>  BY DEF Save
<1>6. CASE UNCHANGED registry
    BY <1>4, <1>5, <1>6, SameTables DEF Typed, tables
<1>7. CASE Admission(q) /\ Create(q)
  <2>1. PICK url \in Urls : /\ plugins' = [plugins EXCEPT ![q.row] = [url |-> url, on |-> TRUE, secret |-> secrets + 1]]
                            /\ made' = made + 1 /\ secrets' = secrets + 1 /\ q.row = made + 1
      BY <1>7 DEF Create, Saved, New
  <2>2. [url |-> url, on |-> TRUE, secret |-> secrets + 1] \in RowType  BY DEF RowType, Typed, TablesOK
  <2>3. TablesOK'  BY <1>1, <1>5, <2>1, <2>2 DEF Typed, TablesOK, access, data, enrolment, world
  <2>4. RowsOnce'
    <3>1. plugins \in [Rows -> RowType] /\ made \in Nat /\ Rows \subseteq Nat /\ url # None
        BY PluginsAssumption DEF Typed, TablesOK, Rows
    <3>2. ASSUME NEW i \in Rows PROVE plugins'[i] = IF i = q.row THEN [url |-> url, on |-> TRUE, secret |-> secrets + 1]
                                                                 ELSE plugins[i]
        BY <2>1, <3>1
    <3>3. ASSUME NEW i \in Rows, plugins'[i].url # None PROVE i \in 1..made'
      <4>1. CASE i = q.row  BY <2>1, <3>1, <4>1
      <4>2. CASE i # q.row
        <5>1. i \in 1..made  BY <3>2, <3>3, <4>2 DEF Typed, RowsOnce, Registered
        <5> QED BY <2>1, <3>1, <5>1
      <4> QED BY <4>1, <4>2
    <3>4. ASSUME NEW i \in Rows, plugins'[i].on PROVE plugins'[i].url # None
      <4>1. CASE i = q.row  BY <3>1, <3>2, <4>1
      <4>2. CASE i # q.row  BY <3>2, <3>4, <4>2 DEF Typed, RowsOnce
      <4> QED BY <4>1, <4>2
    <3> QED BY <3>3, <3>4 DEF RowsOnce, Registered
  <2> QED BY <1>4, <2>3, <2>4 DEF Typed
<1>8. CASE Admission(q) /\ (Update(q) \/ Toggle(q) \/ Rotate(q))
  <2>1. plugins[q.row] \in RowType /\ plugins[q.row].url # None
      BY <1>1, <1>8 DEF Typed, TablesOK, Admission, Carries, Update, Toggle, Rotate
  <2>2. PICK y \in RowType : y.url # None /\ plugins' = [plugins EXCEPT ![q.row] = y]
    <3>1. CASE Update(q)  BY <2>1, <3>1, PluginsAssumption DEF Update, Saved, RowType
    <3>2. CASE Toggle(q)  BY <2>1, <3>2 DEF Toggle, Saved, RowType
    <3>3. CASE Rotate(q)
      <4>1. secrets + 1 \in Nat  BY DEF Typed, TablesOK
      <4> QED BY <2>1, <3>3, <4>1 DEF Rotate, Saved, New, RowType
    <3> QED BY <1>8, <3>1, <3>2, <3>3
  <2>3. made' = made /\ secrets' \in Nat
    <3>1. secrets \in Nat  BY DEF Typed, TablesOK
    <3>2. CASE Update(q)  BY <3>1, <3>2 DEF Update
    <3>3. CASE Toggle(q)  BY <3>1, <3>3 DEF Toggle
    <3>4. CASE Rotate(q)  BY <3>1, <3>4 DEF Rotate, New
    <3> QED BY <1>8, <3>2, <3>3, <3>4
  <2>4. TablesOK'  BY <1>1, <1>5, <2>2, <2>3 DEF Typed, TablesOK, access, data, enrolment, world
  <2>5. RowsOnce'  BY <1>1, <2>1, <2>2, <2>3 DEF Typed, TablesOK, RowsOnce, Registered
  <2> QED BY <1>4, <2>4, <2>5 DEF Typed
<1> QED BY <1>6, <1>7, <1>8 DEF Save

(* What a request reads of the tables is typed as they are.                *)
LEMMA ReadKeeps ==
    ASSUME Typed, NEW r \in Requests, NEW id \in Ids \cup {None}, ReadTables(r, id),
           req[r].kind \in Grants => /\ id \in Ids
                                     /\ req[r].kind # "identity" => req[r].pins[req[r].row] = id,
           req[r].kind = "remove" => id = req[r].pins[req[r].row],
           req[r].kind \in Grants \cup {"remove"}
    PROVE  ReqOK'
<1> DEFINE x == [req[r] EXCEPT !.pc = "commit", !.id = id, !.approvals = approvals, !.state = state, !.sequences = sequences]
<1>1. req[r] \in RequestType /\ Carries(req[r])  BY DEF Typed, ReqOK, RequestsCarry
<1>2. x \in RequestType  BY <1>1 DEF RequestType, Places, Typed, TablesOK
<1>3. /\ x.kind = req[r].kind /\ x.row = req[r].row /\ x.id = id /\ x.pc = "commit"
      /\ x.plugins = req[r].plugins /\ x.pins = req[r].pins
    BY <1>1 DEF RequestType
<1>4. Carries(x)  BY <1>1, <1>3 DEF Carries, Grants, Resolving, Calls
<1>5. req' = [req EXCEPT ![r] = x]  BY DEF ReadTables, Typed, ReqOK
<1> HIDE DEF x
<1> QED BY <1>2, <1>4, <1>5, PutKeeps DEF Typed

LEMMA ReadOwnedTyped == ASSUME Typed, NEW r \in Requests, ReadOwned(r) PROVE Typed'
<1>1. req[r] \in RequestType /\ Carries(req[r]) /\ req[r].kind = "remove"
    BY DEF Typed, ReqOK, RequestsCarry, ReadOwned, At
<1>2. req[r].pins[req[r].row] \in Ids \cup {None}  BY <1>1 DEF RequestType, Carries
<1>3. ReqOK'  BY <1>1, <1>2, ReadKeeps DEF ReadOwned, Grants
<1>4. UNCHANGED tables  BY DEF ReadOwned, tables
<1> QED BY <1>3, <1>4, SameTables DEF Typed

LEMMA InspectTyped == ASSUME Typed, NEW r \in Requests, Inspect(r) PROVE Typed'
<1> DEFINE q == req[r] id == served[q.plugins[q.row].url]
<1>1. q \in RequestType /\ Carries(q) /\ q.kind \in Grants
    BY DEF Typed, ReqOK, RequestsCarry, Inspect
<1>2. q.row \in Rows /\ q.plugins[q.row].url \in Urls
    BY <1>1 DEF RequestType, RowType, Carries, Grants
<1>3. id \in Ids  BY <1>2 DEF Typed, TablesOK
<1>4. CASE Done(r)  BY <1>4, DoneKeeps, SameTables DEF Typed, Inspect, tables
<1>5. CASE ReadTables(r, id) /\ (q.kind # "identity" => q.pins[q.row] = id)
  <2>1. ReqOK'  BY <1>1, <1>3, <1>5, ReadKeeps DEF Grants
  <2> QED BY <2>1, SameTables DEF Typed, Inspect, tables
<1> QED BY <1>4, <1>5 DEF Inspect

LEMMA RemoveTyped == ASSUME Typed, NEW r \in Requests, Remove(r) PROVE Typed'
<1> DEFINE q == req[r]
<1>1. ReqOK'  BY DoneKeeps DEF Remove, Typed
<1>2. UNCHANGED <<made, secrets, sequences, log, enrolment, world>>  BY DEF Remove
<1>3. CASE UNCHANGED <<plugins, access, state>>
    BY <1>1, <1>2, <1>3, SameTables DEF Typed, tables, registry, access, data
<1>4. CASE /\ plugins' = [plugins EXCEPT ![q.row] = Absent] /\ pins' = [pins EXCEPT ![q.row] = None]
           /\ approvals' = Without(q.id) /\ state' = [i \in Ids |-> IF i = q.id THEN 0 ELSE state[i]]
  <2>1. Absent \in RowType /\ Absent.url = None /\ ~ Absent.on  BY DEF Absent, RowType
  <2>2. /\ plugins' \in [Rows -> RowType] /\ pins' \in [Rows -> Ids \cup {None}]
        /\ approvals' \in SUBSET ApprovalType /\ state' \in [Ids -> Rows \cup {0}]
      BY <1>4, <2>1 DEF Typed, TablesOK, Without
  <2>3. TablesOK'  BY <1>2, <2>2 DEF Typed, TablesOK, enrolment, world
  <2>4. RowsOnce'  BY <1>2, <1>4, <2>1 DEF Typed, TablesOK, RowsOnce, Registered
  <2> QED BY <1>1, <2>3, <2>4 DEF Typed
<1> QED BY <1>3, <1>4 DEF Remove

LEMMA ApproveIdentityTyped == ASSUME Typed, NEW r \in Requests, ApproveIdentity(r) PROVE Typed'
<1> DEFINE q == req[r] was == q.pins[q.row]
<1>1. ReqOK'  BY DoneKeeps DEF ApproveIdentity, Typed
<1>2. UNCHANGED <<registry, log, enrolment, world>>  BY DEF ApproveIdentity
<1>3. CASE UNCHANGED <<access, state, sequences>>
    BY <1>1, <1>2, <1>3, SameTables DEF Typed, tables, data
<1>4. CASE /\ approvals' = {g \in approvals : g.id \notin {was, q.id}}
           /\ state' = Moved(state, q.state, was, q.id) /\ sequences' = Moved(sequences, q.sequences, was, q.id)
           /\ pins' = [pins EXCEPT ![q.row] = q.id]
  <2>1. q \in RequestType /\ q.id \in Ids \cup {None}  BY DEF Typed, ReqOK, RequestType
  <2>2. q.state \in [Ids -> Rows \cup {0}] /\ q.sequences \in [Ids -> Nat]  BY <2>1 DEF RequestType
  <2> HIDE DEF q, was
  <2>3. state' \in [Ids -> Rows \cup {0}] /\ sequences' \in [Ids -> Nat]  BY <1>4, <2>2 DEF Moved, Typed, TablesOK
  <2>4. pins' \in [Rows -> Ids \cup {None}] /\ approvals' \in SUBSET ApprovalType
      BY <1>4, <2>1 DEF Typed, TablesOK
  <2>5. TablesOK'  BY <1>2, <2>3, <2>4 DEF Typed, TablesOK, registry, enrolment, world
  <2>6. RowsOnce'  BY <1>2 DEF Typed, RowsOnce, Registered, registry
  <2> QED BY <1>1, <2>5, <2>6 DEF Typed
<1> QED BY <1>3, <1>4 DEF ApproveIdentity

LEMMA ApprovalTyped == ASSUME Typed, NEW r \in Requests, Approve(r) \/ Revoke(r) PROVE Typed'
<1> DEFINE q == req[r]
<1>1. Done(r) /\ UNCHANGED <<registry, pins, data, enrolment, world>>  BY DEF Approve, Revoke
<1>2. ReqOK'  BY <1>1, DoneKeeps DEF Typed
<1>3. approvals' \in SUBSET ApprovalType
  <2>1. CASE UNCHANGED approvals  BY <2>1 DEF Typed, TablesOK
  <2>2. ASSUME NEW scope \in Scopes, At(r, "approve", "commit"),
               approvals' = approvals \cup {[id |-> q.id, scope |-> scope, row |-> q.row]}
        PROVE  approvals' \in SUBSET ApprovalType
    <3>1. q.row \in Rows /\ q.id \in Ids
        BY <2>2 DEF Typed, ReqOK, RequestsCarry, Carries, At, Grants
    <3> QED BY <2>2, <3>1 DEF ApprovalType, Typed, TablesOK
  <2>3. ASSUME NEW scope \in Scopes, approvals' = {g \in approvals : g.id # q.id \/ g.scope # scope}
        PROVE  approvals' \in SUBSET ApprovalType
      BY <2>3 DEF Typed, TablesOK
  <2> QED BY <2>1, <2>2, <2>3 DEF Approve, Revoke
<1>4. TablesOK'  BY <1>1, <1>3 DEF Typed, TablesOK, registry, data, enrolment, world
<1>5. RowsOnce'  BY <1>1 DEF Typed, RowsOnce, Registered, registry
<1> QED BY <1>2, <1>4, <1>5 DEF Typed

LEMMA ResolveTyped == ASSUME Typed, NEW r \in Requests, Resolve(r) PROVE Typed'
<1>1. UNCHANGED <<registry, access, data, enrolment, served>>  BY DEF Resolve
<1>2. PICK row \in Rows, id \in Ids, kind \in Resolving, t \in Nat :
        /\ Resolvable(row, id) /\ cached' = [cached EXCEPT ![plugins[row].url] = id]
        /\ req' = [req EXCEPT ![r] = Resolution(kind, row, id, t)] /\ (kind = "redeem" => t # 0)
  <2>1. PICK row \in Rows, id \in Ids :
          /\ Resolvable(row, id) /\ cached' = [cached EXCEPT ![plugins[row].url] = id]
          /\ \/ \E kind \in Calls \cup {"connect"} : Begin(r, Resolution(kind, row, id, 0))
             \/ \E t \in DOMAIN tickets : tickets[t].id = id /\ Begin(r, Resolution("redeem", row, id, t))
             \/ req' = [req EXCEPT ![r] = Resolution("connect", row, id, 0)]
      BY DEF Resolve
  <2>2. \A t \in DOMAIN tickets : t \in Nat /\ t # 0  BY DEF Typed, TablesOK
  <2>3. CASE \E kind \in Calls \cup {"connect"} : Begin(r, Resolution(kind, row, id, 0))
    <3>1. PICK kind \in Calls \cup {"connect"} : req' = [req EXCEPT ![r] = Resolution(kind, row, id, 0)]
        BY <2>3 DEF Begin
    <3>2. kind \in Resolving /\ kind # "redeem" /\ 0 \in Nat  BY DEF Resolving, Calls
    <3> QED BY <2>1, <3>1, <3>2
  <2>4. CASE \E t \in DOMAIN tickets : Begin(r, Resolution("redeem", row, id, t))
    <3>1. "redeem" \in Resolving  BY DEF Resolving
    <3> QED BY <2>1, <2>2, <2>4, <3>1 DEF Begin
  <2>5. CASE req' = [req EXCEPT ![r] = Resolution("connect", row, id, 0)]
    <3>1. "connect" \in Resolving  BY DEF Resolving
    <3> QED BY <2>1, <2>5, <3>1
  <2> QED BY <2>1, <2>3, <2>4, <2>5
<1> DEFINE x == Resolution(kind, row, id, t)
<1>3. plugins[row] \in RowType /\ plugins[row].on /\ plugins[row].url # None
    BY <1>2 DEF Resolvable, Typed, TablesOK, RowsOnce
<1>4. x \in RequestType
    BY <1>3, IdleIsTyped DEF Resolution, RequestType, Kinds, Places, Resolving, Calls
<1>5. x.kind = kind /\ x.row = row /\ x.id = id /\ x.seen = plugins[row] /\ x.ticket = t
    BY IdleIsTyped DEF Resolution, RequestType
<1> HIDE DEF x
<1>6. Carries(x)  BY <1>2, <1>3, <1>5 DEF Carries, Grants, Resolving, Calls
<1>7. ReqOK'  BY <1>2, <1>4, <1>6, PutKeeps DEF x, Typed
<1>8. TablesOK'
  <2>1. cached' \in [Urls -> Ids]  BY <1>2 DEF Typed, TablesOK
  <2> QED BY <1>1, <2>1 DEF Typed, TablesOK, registry, access, data, enrolment
<1>9. RowsOnce'  BY <1>1 DEF Typed, RowsOnce, Registered, registry
<1> QED BY <1>7, <1>8, <1>9 DEF Typed

LEMMA ClaimTyped == ASSUME Typed, NEW r \in Requests, ClaimIdentity(r) PROVE Typed'
<1> DEFINE q == req[r]
<1>1. q.kind \in Resolving /\ q.pc = "claim" /\ UNCHANGED <<registry, approvals, data, enrolment, world>>
    BY DEF ClaimIdentity
<1>2. q.row \in Rows /\ q.id \in Ids
    BY <1>1 DEF Typed, ReqOK, RequestsCarry, Carries, Resolving, Calls
<1>3. ReqOK'
  <2>1. Done(r) \/ Goto(r, "current")  BY DEF ClaimIdentity
  <2> QED BY <1>1, <2>1, DoneKeeps, GotoKeeps DEF Typed, Places, Resolving, Calls, Grants
<1>4. pins' \in [Rows -> Ids \cup {None}]
  <2>1. UNCHANGED pins \/ pins' = [pins EXCEPT ![q.row] = q.id]  BY DEF ClaimIdentity
  <2> QED BY <1>2, <2>1 DEF Typed, TablesOK
<1>5. TablesOK'  BY <1>1, <1>4 DEF Typed, TablesOK, registry, data, enrolment, world
<1>6. RowsOnce'  BY <1>1 DEF Typed, RowsOnce, Registered, registry
<1> QED BY <1>3, <1>5, <1>6 DEF Typed

LEMMA AuthenticateTyped == ASSUME Typed, NEW r \in Requests, Authenticate(r) PROVE Typed'
<1> DEFINE q == req[r] granted == IF q.kind = "write" THEN GrantsOf(q.id) ELSE {}
           x == [q EXCEPT !.pc = After(q.kind), !.seen = plugins[q.row], !.granted = granted]
<1>1. UNCHANGED tables  BY DEF Authenticate, tables
<1>2. q \in RequestType /\ Carries(q) /\ q.kind \in Resolving /\ q.pc = "current"
    BY DEF Typed, ReqOK, RequestsCarry, Authenticate
<1>3. CASE Done(r)  BY <1>1, <1>3, DoneKeeps, SameTables DEF Typed
<1>4. CASE plugins[q.row].on /\ req' = [req EXCEPT ![r] = x]
  <2>1. q.row \in Rows  BY <1>2 DEF Carries, Resolving, Calls
  <2>2. plugins[q.row] \in RowType /\ plugins[q.row].url # None  BY <1>4, <2>1 DEF Typed, TablesOK, RowsOnce
  <2>3. After(q.kind) \in Places  BY DEF After, Places
  <2>4. granted \in SUBSET ApprovalType  BY DEF GrantsOf, Typed, TablesOK
  <2> HIDE DEF granted
  <2>5. x \in RequestType  BY <1>2, <2>2, <2>3, <2>4 DEF RequestType
  <2>6. x.kind = q.kind /\ x.row = q.row /\ x.id = q.id /\ x.seen = plugins[q.row] /\ x.ticket = q.ticket
      BY <1>2 DEF RequestType
  <2> HIDE DEF x
  <2>7. Carries(x)  BY <1>2, <1>4, <2>1, <2>2, <2>6 DEF Carries, Grants, Resolving, Calls
  <2> QED BY <1>1, <1>4, <2>5, <2>7, PutKeeps, SameTables DEF Typed
<1>5. Done(r) \/ (plugins[q.row].on /\ req' = [req EXCEPT ![r] = x])
  <2>1. \/ Done(r)
        \/ /\ plugins[q.row].on
           /\ req' = [req EXCEPT ![r].pc = After(q.kind), ![r].seen = plugins[q.row], ![r].granted = granted]
      BY DEF Authenticate
  <2> HIDE DEF granted
  <2> QED BY <2>1 DEF Typed, ReqOK
<1> QED BY <1>3, <1>4, <1>5

LEMMA CallTyped == ASSUME Typed, NEW r \in Requests, Call(r) PROVE Typed'
<1> DEFINE q == req[r]
<1>1. q.kind \in Calls /\ q.pc = "commit" /\ UNCHANGED <<registry, access, enrolment, world>>
    BY DEF Call
<1>2. q \in RequestType /\ q.row \in Rows /\ q.id \in Ids
    BY <1>1 DEF Typed, ReqOK, RequestsCarry, Carries, Resolving, Calls
<1>3. ReqOK'  BY DoneKeeps DEF Call, Typed
<1>4. state' \in [Ids -> Rows \cup {0}] /\ sequences' \in [Ids -> Nat] /\ log' \in Seq(EntryType)
  <2>1. state \in [Ids -> Rows \cup {0}] /\ sequences \in [Ids -> Nat] /\ log \in Seq(EntryType)
      BY DEF Typed, TablesOK
  <2>2. \A scope \in Scopes \cup {None}, n \in Nat : Entry(q, scope, n) \in EntryType
    <3>1. q.seen.secret \in Nat  BY <1>2 DEF RequestType, RowType
    <3> HIDE DEF q
    <3> QED BY <1>1, <1>2, <3>1 DEF Entry, EntryType
  <2>3. CASE UNCHANGED data  BY <2>1, <2>3 DEF data
  <2>4. CASE MutateState(q)
    <3> HIDE DEF q
    <3>1. PICK new \in {0, q.row} : state' = [state EXCEPT ![q.id] = new]  BY <2>4 DEF MutateState
    <3>2. state' \in [Ids -> Rows \cup {0}]  BY <1>2, <2>1, <3>1
    <3>3. log' = Append(log, Entry(q, None, 0)) /\ sequences' = sequences  BY <2>4 DEF MutateState, Logged
    <3>4. Entry(q, None, 0) \in EntryType  BY <2>2
    <3>5. log' \in Seq(EntryType)  BY <2>1, <3>3, <3>4
    <3> QED BY <2>1, <3>2, <3>3, <3>5
  <2>5. CASE AdvanceSequence(q)
    <3> HIDE DEF q
    <3>1. sequences[q.id] + 1 \in Nat  BY <1>2, <2>1
    <3>2. /\ sequences' = [sequences EXCEPT ![q.id] = sequences[q.id] + 1] /\ state' = state
          /\ log' = Append(log, Entry(q, None, sequences[q.id] + 1))
        BY <2>5 DEF AdvanceSequence, Logged
    <3>3. sequences' \in [Ids -> Nat]  BY <1>2, <2>1, <3>1, <3>2
    <3>4. Entry(q, None, sequences[q.id] + 1) \in EntryType  BY <2>2, <3>1
    <3>5. log' \in Seq(EntryType)  BY <2>1, <3>2, <3>4
    <3> QED BY <2>1, <3>2, <3>3, <3>5
  <2>6. CASE WritePage(q)
    <3>1. \A g \in q.granted : g.scope \in Scopes  BY <1>2 DEF RequestType, ApprovalType
    <3> HIDE DEF q
    <3> QED BY <1>2, <2>1, <2>2, <2>6, <3>1 DEF WritePage, Logged
  <2> QED BY <2>3, <2>4, <2>5, <2>6 DEF Call
<1>5. TablesOK'  BY <1>1, <1>4 DEF Typed, TablesOK, registry, access, enrolment, world
<1>6. RowsOnce'  BY <1>1 DEF Typed, RowsOnce, Registered, registry
<1> QED BY <1>3, <1>5, <1>6 DEF Typed

LEMMA MintTyped == ASSUME Typed, NEW r \in Requests, Mint(r) PROVE Typed'
<1> DEFINE q == req[r] t == Len(tickets) + 1 x == [q EXCEPT !.pc = "posted", !.ticket = t]
<1>1. q \in RequestType /\ Carries(q) /\ q.kind = "connect" /\ q.pc = "mint"
    BY DEF Typed, ReqOK, RequestsCarry, Mint, At
<1>2. t \in Nat /\ t # 0  BY DEF Typed, TablesOK
<1> HIDE DEF t
<1>3. x \in RequestType  BY <1>1, <1>2 DEF RequestType, Places
<1>4. x.kind = "connect" /\ x.pc = "posted" /\ x.row = q.row /\ x.id = q.id /\ x.seen = q.seen
    BY <1>1 DEF RequestType
<1>5. req' = [req EXCEPT ![r] = x]  BY DEF Mint, t, Typed, ReqOK
<1> HIDE DEF x
<1>6. Carries(x)  BY <1>1, <1>4 DEF Carries, Grants, Resolving, Calls
<1>7. ReqOK'  BY <1>3, <1>5, <1>6, PutKeeps DEF Typed
<1>8. [id |-> q.id, url |-> q.seen.url] \in [id : Ids, url : Urls \cup {None}]
    BY <1>1 DEF Carries, Resolving, RequestType, RowType
<1>9. q.id \in Ids  BY <1>1 DEF Carries, Resolving
<1>10. /\ pending' = [pending EXCEPT ![q.id] = t] /\ tickets' = Append(tickets, [id |-> q.id, url |-> q.seen.url])
       /\ redeemed' = Append(redeemed, 0) /\ UNCHANGED <<registry, access, data, world>>
    BY DEF Mint, t
<1> HIDE DEF q
<1>11. /\ pending' \in [Ids -> Nat] /\ redeemed' \in Seq(Nat)
       /\ tickets' \in Seq([id : Ids, url : Urls \cup {None}])
    BY <1>2, <1>8, <1>9, <1>10 DEF Typed, TablesOK
<1>12. TablesOK'  BY <1>10, <1>11 DEF Typed, TablesOK, registry, access, data, world
<1>13. RowsOnce'  BY <1>10 DEF Typed, RowsOnce, Registered, registry
<1> QED BY <1>7, <1>12, <1>13 DEF Typed

LEMMA EnrolmentTyped ==
    ASSUME Typed, NEW r \in Requests, ClearPending(r) \/ ReadTicket(r) \/ TakeTicket(r) PROVE Typed'
<1> DEFINE q == req[r]
<1>1. UNCHANGED <<registry, access, data, tickets, world>>  BY DEF enrolment, ClearPending, ReadTicket, TakeTicket
<1>2. q.kind \in {"connect", "redeem"} /\ q.pc \in {"posted", "ticket", "take", "expired"}
    BY DEF ClearPending, ReadTicket, TakeTicket, At
<1>3. ReqOK'
  <2>1. Done(r) \/ Goto(r, "take") \/ Goto(r, "expired")  BY DEF ClearPending, ReadTicket, TakeTicket
  <2> QED BY <1>2, <2>1, DoneKeeps, GotoKeeps DEF Typed, Places, Grants
<1>4. pending' \in [Ids -> Nat]
  <2>1. UNCHANGED pending \/ pending' = [pending EXCEPT ![q.id] = 0]  BY DEF enrolment, ClearPending, ReadTicket, TakeTicket
  <2>2. pending \in [Ids -> Nat]  BY DEF Typed, TablesOK
  <2> HIDE DEF q
  <2> QED BY <2>1, <2>2
<1>5. redeemed' \in Seq(Nat)
  <2>1. UNCHANGED redeemed \/ redeemed' = [redeemed EXCEPT ![q.ticket] = @ + 1]
      BY DEF enrolment, ClearPending, ReadTicket, TakeTicket
  <2>2. redeemed \in [1..Len(redeemed) -> Nat] /\ Len(redeemed) \in Nat  BY DEF Typed, TablesOK
  <2> HIDE DEF q
  <2>3. redeemed' \in [1..Len(redeemed) -> Nat]  BY <2>1, <2>2
  <2> QED BY <2>2, <2>3
<1>6. TablesOK'  BY <1>1, <1>4, <1>5 DEF Typed, TablesOK, registry, access, data, world
<1>7. RowsOnce'  BY <1>1 DEF Typed, RowsOnce, Registered, registry
<1> QED BY <1>3, <1>6, <1>7 DEF Typed

LEMMA DeployTyped == ASSUME Typed, Deploy PROVE Typed'
<1>1. UNCHANGED <<registry, access, data, enrolment, cached, req>> /\ served' \in [Urls -> Ids]
    BY DEF Deploy, Typed, TablesOK
<1>2. TablesOK'  BY <1>1 DEF Typed, TablesOK, registry, access, data, enrolment
<1> QED BY <1>1, <1>2 DEF Typed, RowsOnce, Registered, registry, ReqOK, RequestsCarry

LEMMA TypedStep == ASSUME Typed, [Next]_vars PROVE Typed'
<1>1. CASE UNCHANGED vars
    BY <1>1, SameTables DEF vars, tables, Typed, ReqOK, RequestsCarry
<1>2. ASSUME NEW r \in Requests, Unresolved(r) PROVE Typed'
    BY <1>2, DoneKeeps, SameTables DEF Unresolved, tables, Typed
<1> QED BY <1>1, <1>2, CaptureTyped, SaveTyped, ReadOwnedTyped, RemoveTyped, InspectTyped, ApproveIdentityTyped,
           ApprovalTyped, ResolveTyped, ClaimTyped, AuthenticateTyped, CallTyped, MintTyped, EnrolmentTyped,
           DeployTyped DEF Next

-----------------------------------------------------------------------------
(* What the batches do to the tables, once their guards have held.         *)
Saving == /\ UNCHANGED <<access, state, sequences, log>> /\ made <= made'
          /\ Registered(plugins) \subseteq Registered(plugins')
          /\ \A i \in Registered(plugins') : i \in Registered(plugins) \/ i > made
Removing(row) ==
    /\ UNCHANGED <<made, sequences, log>>
    /\ plugins' = [plugins EXCEPT ![row] = Absent] /\ pins' = [pins EXCEPT ![row] = None]
    /\ approvals' = {g \in approvals : g.id # pins[row]}
    /\ state' = [i \in Ids |-> IF i = pins[row] THEN 0 ELSE state[i]]
Renaming(row, id) ==
    LET was == pins[row]
    IN  /\ UNCHANGED <<registry, log>> /\ row \in Registered(plugins)
        /\ \A i \in Rows \ {row} : pins[i] # id
        /\ approvals' = {g \in approvals : g.id \notin {was, id}}
        /\ state' = Moved(state, state, was, id) /\ sequences' = Moved(sequences, sequences, was, id)
        /\ pins' = [pins EXCEPT ![row] = id]
Approving(row, scope) ==
    /\ UNCHANGED <<registry, pins, data>> /\ pins[row] \in Ids
    /\ approvals' = approvals \cup {[id |-> pins[row], scope |-> scope, row |-> row]}
    /\ \A g \in approvals : g.id # pins[row] => <<g.scope, scope>> \notin Overlap
Revoking == UNCHANGED <<registry, pins, data>> /\ approvals' \subseteq approvals
Claiming(row, id) ==
    /\ UNCHANGED <<registry, approvals, data>> /\ row \in Registered(plugins)
    /\ pins[row] = None /\ ~ Pinned(id) /\ pins' = [pins EXCEPT ![row] = id]
Calling(q) ==
    /\ UNCHANGED <<registry, access>> /\ q.row \in Registered(plugins) /\ q.id \in Ids /\ Check(q)
    /\ q.kind \in Calls /\ plugins[q.row].on
    /\ \/ q.kind = "state" /\ MutateState(q)
       \/ q.kind = "number" /\ AdvanceSequence(q)
       \/ q.kind = "write" /\ WritePage(q)

LEMMA SaveDoes == ASSUME Typed, NEW r \in Requests, Save(r) PROVE Saving
<1> DEFINE q == req[r]
<1>1. q.row \in Rows /\ Carries(q)  BY DEF Typed, ReqOK, RequestsCarry, Save, Carries, Saves
<1>2. plugins \in [Rows -> RowType] /\ made \in Nat /\ Rows \subseteq Nat /\ RowsOnce
    BY PluginsAssumption DEF Typed, TablesOK, Rows
<1>3. UNCHANGED <<access, state, sequences, log>>  BY DEF Save, data
<1>4. CASE UNCHANGED registry  BY <1>2, <1>3, <1>4 DEF Saving, registry
<1>5. CASE Create(q)
  <2>1. PICK url \in Urls : /\ plugins' = [plugins EXCEPT ![q.row] = [url |-> url, on |-> TRUE, secret |-> secrets + 1]]
                            /\ made' = made + 1 /\ q.row = made + 1
      BY <1>5 DEF Create, Saved, New
  <2>2. url # None  BY PluginsAssumption
  <2> HIDE DEF q
  <2> QED BY <2>2, <1>1, <1>2, <1>3, <2>1 DEF Saving, Registered
<1>6. CASE Admission(q) /\ (Update(q) \/ Toggle(q) \/ Rotate(q))
  <2>1. plugins[q.row] \in RowType /\ plugins[q.row].url # None
      BY <1>1, <1>2, <1>6 DEF Admission, Carries, Update, Toggle, Rotate
  <2>2. PICK row \in RowType : row.url # None /\ plugins' = [plugins EXCEPT ![q.row] = row]
    <3>1. CASE Update(q)  BY <2>1, <3>1, PluginsAssumption DEF Update, Saved, RowType
    <3>2. CASE Toggle(q)  BY <2>1, <3>2 DEF Toggle, Saved, RowType
    <3>3. CASE Rotate(q)
      <4>1. secrets + 1 \in Nat  BY DEF Typed, TablesOK
      <4> QED BY <2>1, <3>3, <4>1 DEF Rotate, Saved, New, RowType
    <3> QED BY <1>6, <3>1, <3>2, <3>3
  <2>3. made' = made  BY <1>6 DEF Update, Toggle, Rotate
  <2> HIDE DEF q
  <2> QED BY <1>1, <1>2, <1>3, <2>1, <2>2, <2>3 DEF Saving, Registered
<1> QED BY <1>4, <1>5, <1>6 DEF Save

LEMMA RemoveDoes ==
    ASSUME Typed, NEW r \in Requests, Remove(r)
    PROVE  UNCHANGED <<registry, access, data>> \/ \E row \in Rows : Removing(row)
<1> DEFINE q == req[r]
<1>1. q.row \in Rows /\ Carries(q) /\ q.kind = "remove" /\ q.pc = "commit"
    BY DEF Typed, ReqOK, RequestsCarry, Remove, Carries, At
<1>2. UNCHANGED <<made, secrets, sequences, log>>  BY DEF Remove
<1>3. CASE UNCHANGED <<plugins, access, state>>  BY <1>2, <1>3 DEF registry, data
<1>4. CASE /\ Admission(q)
           /\ plugins' = [plugins EXCEPT ![q.row] = Absent] /\ pins' = [pins EXCEPT ![q.row] = None]
           /\ approvals' = Without(q.id) /\ state' = [i \in Ids |-> IF i = q.id THEN 0 ELSE state[i]]
  <2>1. q.id = pins[q.row]  BY <1>1, <1>4 DEF Carries, Admission
  <2> HIDE DEF q
  <2> QED BY <1>1, <1>2, <1>4, <2>1 DEF Removing, Without
<1> QED BY <1>3, <1>4 DEF Remove

LEMMA ApproveIdentityDoes ==
    ASSUME Typed, NEW r \in Requests, ApproveIdentity(r)
    PROVE  UNCHANGED <<registry, access, data>> \/ \E row \in Rows, id \in Ids : Renaming(row, id)
<1> DEFINE q == req[r] was == q.pins[q.row]
<1>1. q.row \in Rows /\ Carries(q) /\ q.kind = "identity" /\ q.pc = "commit"
    BY DEF Typed, ReqOK, RequestsCarry, ApproveIdentity, Carries, At
<1>2. UNCHANGED <<registry, log>>  BY DEF ApproveIdentity
<1>3. CASE UNCHANGED <<access, state, sequences>>  BY <1>2, <1>3 DEF data
<1>4. CASE /\ Admission(q) /\ SamePlans(q, was)
           /\ \A i \in Rows \ {q.row} : pins[i] # q.id
           /\ approvals' = {g \in approvals : g.id \notin {was, q.id}}
           /\ state' = Moved(state, q.state, was, q.id) /\ sequences' = Moved(sequences, q.sequences, was, q.id)
           /\ pins' = [pins EXCEPT ![q.row] = q.id]
  <2>1. was = pins[q.row] /\ q.id \in Ids /\ q.row \in Registered(plugins)
      BY <1>1, <1>4 DEF Carries, Admission, Grants, Registered
  <2>2. was \in Ids => q.state[was] = state[was] /\ q.sequences[was] = sequences[was]
      BY <1>4 DEF SamePlans
  <2> HIDE DEF q, was
  <2>3. Moved(state, q.state, was, q.id) = Moved(state, state, was, q.id)
    <3> HIDE <1>1, <1>2, <1>4
    <3> QED BY <2>2 DEF Moved
  <2>4. Moved(sequences, q.sequences, was, q.id) = Moved(sequences, sequences, was, q.id)
    <3> HIDE <1>1, <1>2, <1>4
    <3> QED BY <2>2 DEF Moved
  <2>5. Renaming(q.row, q.id)  BY <1>2, <1>4, <2>1, <2>3, <2>4 DEF Renaming
  <2> QED BY <1>1, <2>1, <2>5
<1> QED BY <1>3, <1>4 DEF ApproveIdentity

LEMMA ApprovalDoes ==
    ASSUME Typed, NEW r \in Requests, Approve(r) \/ Revoke(r)
    PROVE  Revoking \/ \E row \in Rows, scope \in Scopes : Approving(row, scope)
<1> DEFINE q == req[r]
<1>1. q.row \in Rows /\ Carries(q) /\ q.kind \in {"approve", "revoke"} /\ q.pc = "commit"
    BY DEF Typed, ReqOK, RequestsCarry, Approve, Revoke, Carries, At
<1>2. UNCHANGED <<registry, pins, data>>  BY DEF Approve, Revoke
<1>3. CASE approvals' \subseteq approvals  BY <1>2, <1>3 DEF Revoking
<1>4. ASSUME NEW scope \in Scopes, ~ Conflict(q, scope), Admission(q), SameApprovals(q),
             approvals' = approvals \cup {[id |-> q.id, scope |-> scope, row |-> q.row]}
      PROVE  Approving(q.row, scope)
  <2>1. q.id = pins[q.row] /\ q.id \in Ids  BY <1>1, <1>4 DEF Carries, Admission, Grants
  <2>2. \A g \in approvals : g.id # q.id => <<g.scope, scope>> \notin Overlap
      BY <1>4 DEF Conflict, SameApprovals
  <2> HIDE DEF q
  <2> QED BY <1>2, <1>4, <2>1, <2>2 DEF Approving
<1> QED BY <1>1, <1>3, <1>4 DEF Approve, Revoke

LEMMA ClaimDoes ==
    ASSUME Typed, NEW r \in Requests, ClaimIdentity(r)
    PROVE  UNCHANGED <<registry, access, data>> \/ \E row \in Rows, id \in Ids : Claiming(row, id)
<1> DEFINE q == req[r]
<1>1. q.row \in Rows /\ q.id \in Ids /\ q.seen.url # None
    BY DEF Typed, ReqOK, RequestsCarry, ClaimIdentity, Carries, Resolving, Calls
<1>2. UNCHANGED <<registry, approvals, data>>  BY DEF ClaimIdentity
<1>3. CASE UNCHANGED pins  BY <1>2, <1>3 DEF access
<1>4. CASE /\ plugins[q.row] = q.seen /\ pins[q.row] = None /\ ~ Pinned(q.id)
           /\ pins' = [pins EXCEPT ![q.row] = q.id]
  <2>1. q.row \in Registered(plugins)  BY <1>1, <1>4 DEF Registered
  <2> HIDE DEF q
  <2> QED BY <1>1, <1>2, <1>4, <2>1 DEF Claiming
<1> QED BY <1>3, <1>4 DEF ClaimIdentity

LEMMA CallDoes ==
    ASSUME Typed, NEW r \in Requests, Call(r) PROVE UNCHANGED <<registry, access, data>> \/ Calling(req[r])
<1> DEFINE q == req[r]
<1>1. q.row \in Rows /\ q.id \in Ids /\ q.seen.url # None /\ q.seen.on /\ q.kind \in Calls
    BY DEF Typed, ReqOK, RequestsCarry, Call, Carries, Resolving, Calls
<1>2. UNCHANGED <<registry, access>>  BY DEF Call
<1>3. CASE UNCHANGED data  BY <1>2, <1>3
<1>4. CASE /\ Check(q)
           /\ \/ q.kind = "state" /\ MutateState(q)
              \/ q.kind = "number" /\ AdvanceSequence(q)
              \/ q.kind = "write" /\ WritePage(q)
  <2>1. plugins[q.row].on /\ q.row \in Registered(plugins)  BY <1>1, <1>4 DEF Check, Registered
  <2> HIDE DEF q
  <2>2. Calling(q)  BY <1>1, <1>2, <1>4, <2>1 DEF Calling
  <2> QED BY <2>2 DEF q
<1> QED BY <1>3, <1>4 DEF Call

(* Every step is one of these, or leaves the tables alone.                 *)
LEMMA StepDoes ==
    ASSUME Typed, [Next]_vars
    PROVE  \/ UNCHANGED <<registry, access, data>> \/ Saving \/ Revoking
           \/ \E row \in Rows : Removing(row)
           \/ \E row \in Rows, id \in Ids : Renaming(row, id) \/ Claiming(row, id)
           \/ \E row \in Rows, scope \in Scopes : Approving(row, scope)
           \/ \E r \in Requests : Call(r) /\ Calling(req[r])
<1>1. CASE UNCHANGED vars  BY <1>1 DEF vars
<1>2. CASE Deploy  BY <1>2 DEF Deploy
<1>3. ASSUME NEW r \in Requests,
             \/ Capture(r) \/ ReadOwned(r) \/ Inspect(r) \/ Resolve(r) \/ Unresolved(r) \/ Authenticate(r)
             \/ Mint(r) \/ ClearPending(r) \/ ReadTicket(r) \/ TakeTicket(r)
      PROVE  UNCHANGED <<registry, access, data>>
    BY <1>3 DEF Capture, ReadOwned, Inspect, Resolve, Unresolved, Authenticate, Mint, ClearPending, ReadTicket, TakeTicket
<1> QED BY <1>1, <1>2, <1>3, SaveDoes, RemoveDoes, ApproveIdentityDoes, ApprovalDoes, ClaimDoes, CallDoes DEF Next

-----------------------------------------------------------------------------
LEMMA OwnedStep == ASSUME Typed, OwnedByThePinned, [Next]_vars PROVE OwnedByThePinned'
<1> USE DEF OwnedByThePinned, PinsHold, GrantsAreTheirOwn, StateIsTheirOwn
<1>1. /\ plugins \in [Rows -> RowType] /\ pins \in [Rows -> Ids \cup {None}] /\ state \in [Ids -> Rows \cup {0}]
      /\ approvals \in SUBSET ApprovalType /\ None \notin Ids /\ 0 \notin Rows
    BY PluginsAssumption DEF Typed, TablesOK, Rows
<1>2. CASE UNCHANGED <<registry, access, data>>  BY <1>2 DEF registry, access, data, Registered
<1>3. CASE Saving  BY <1>3 DEF Saving, access
<1>4. CASE Revoking  BY <1>4 DEF Revoking, registry, data, Registered
<1>5. ASSUME NEW row \in Rows, Removing(row) PROVE OwnedByThePinned'
  <2>1. \A i \in Rows : pins'[i] = IF i = row THEN None ELSE pins[i]  BY <1>1, <1>5 DEF Removing
  <2>2. \A i \in Rows \ {row} : i \in Registered(plugins) => i \in Registered(plugins')
      BY <1>1, <1>5 DEF Removing, Registered
  <2>3. PinsHold'  BY <2>1, <2>2
  <2>4. GrantsAreTheirOwn'  BY <1>5, <2>1 DEF Removing
  <2>5. \A id \in Ids : state'[id] = IF id = pins[row] THEN 0 ELSE state[id]  BY <1>5 DEF Removing
  <2>6. StateIsTheirOwn'
    <3> SUFFICES ASSUME NEW id \in Ids, state'[id] # 0 PROVE state'[id] \in Rows /\ pins'[state'[id]] = id
        OBVIOUS
    <3>1. id # pins[row] /\ state'[id] = state[id]  BY <2>5
    <3>2. state[id] \in Rows /\ pins[state[id]] = id  BY <3>1
    <3> QED BY <2>1, <3>1, <3>2
  <2> QED BY <2>3, <2>4, <2>6
<1>6. ASSUME NEW row \in Rows, NEW id \in Ids, Renaming(row, id) PROVE OwnedByThePinned'
  <2>1. \A i \in Rows : pins'[i] = IF i = row THEN id ELSE pins[i]  BY <1>1, <1>6 DEF Renaming
  <2>2. row \in Registered(plugins) /\ Registered(plugins') = Registered(plugins) /\ \A i \in Rows \ {row} : pins[i] # id
      BY <1>6 DEF Renaming, registry, Registered
  <2>3. PinsHold'  BY <2>1, <2>2
  <2>4. GrantsAreTheirOwn'
    <3> SUFFICES ASSUME NEW g \in approvals, g.id # pins[row] PROVE g.row \in Rows /\ pins'[g.row] = g.id
        BY <1>6 DEF Renaming
    <3> QED BY <2>1
  <2>5. \A i \in Ids : state'[i] = IF i = id /\ pins[row] \in Ids /\ state[pins[row]] # 0 THEN state[pins[row]]
                                   ELSE IF i = pins[row] THEN 0 ELSE state[i]
      BY <1>6 DEF Renaming, Moved
  <2>6. StateIsTheirOwn'
    <3> SUFFICES ASSUME NEW i \in Ids, state'[i] # 0 PROVE state'[i] \in Rows /\ pins'[state'[i]] = i
        OBVIOUS
    <3>1. CASE i = id /\ pins[row] \in Ids /\ state[pins[row]] # 0
      <4>1. state[pins[row]] \in Rows /\ pins[state[pins[row]]] = pins[row]  BY <3>1
      <4>2. state[pins[row]] = row  BY <1>1, <3>1, <4>1
      <4> QED BY <2>1, <2>5, <3>1, <4>2
    <3>2. CASE ~ (i = id /\ pins[row] \in Ids /\ state[pins[row]] # 0)
      <4>1. i # pins[row] /\ state'[i] = state[i]  BY <2>5, <3>2
      <4>2. state[i] \in Rows /\ pins[state[i]] = i  BY <4>1
      <4> QED BY <2>1, <4>1, <4>2
    <3> QED BY <3>1, <3>2
  <2> QED BY <2>3, <2>4, <2>6
<1>7. ASSUME NEW row \in Rows, NEW id \in Ids, Claiming(row, id) PROVE OwnedByThePinned'
  <2>1. \A i \in Rows : pins'[i] = IF i = row THEN id ELSE pins[i]  BY <1>1, <1>7 DEF Claiming
  <2>2. /\ row \in Registered(plugins) /\ Registered(plugins') = Registered(plugins) /\ pins[row] = None
        /\ \A i \in Rows : pins[i] # id
      BY <1>7 DEF Claiming, registry, Registered, Pinned
  <2>3. approvals' = approvals /\ state' = state  BY <1>7 DEF Claiming, data
  <2>4. PinsHold'  BY <2>1, <2>2
  <2>5. GrantsAreTheirOwn'  BY <1>1, <2>1, <2>2, <2>3 DEF ApprovalType
  <2>6. StateIsTheirOwn'  BY <1>1, <2>1, <2>2, <2>3
  <2> QED BY <2>4, <2>5, <2>6
<1>8. ASSUME NEW row \in Rows, NEW scope \in Scopes, Approving(row, scope) PROVE OwnedByThePinned'
  <2>1. plugins' = plugins /\ pins' = pins /\ state' = state
        /\ approvals' = approvals \cup {[id |-> pins[row], scope |-> scope, row |-> row]}
      BY <1>8 DEF Approving, registry, data
  <2>2. GrantsAreTheirOwn'  BY <2>1
  <2> QED BY <2>1, <2>2 DEF Registered
<1>9. ASSUME NEW r \in Requests, Calling(req[r]) PROVE OwnedByThePinned'
  <2> DEFINE q == req[r]
  <2>1. plugins' = plugins /\ pins' = pins /\ approvals' = approvals /\ q.row \in Rows /\ pins[q.row] = q.id
      BY <1>9 DEF Calling, registry, access, Check, Registered
  <2>2. CASE UNCHANGED state  BY <2>1, <2>2 DEF Registered
  <2>3. CASE MutateState(q)
    <3> HIDE DEF q
    <3>1. PICK new \in {0, q.row} : state' = [state EXCEPT ![q.id] = new]  BY <2>3 DEF MutateState
    <3>2. StateIsTheirOwn'  BY <1>1, <2>1, <3>1
    <3> QED BY <2>1, <3>2 DEF Registered
  <2> QED BY <1>9, <2>2, <2>3 DEF Calling, AdvanceSequence, WritePage
<1> QED BY <1>2, <1>3, <1>4, <1>5, <1>6, <1>7, <1>8, <1>9, StepDoes

LEMMA ApartStep == ASSUME Typed, PrefixesApart, [Next]_vars PROVE PrefixesApart'
<1> USE DEF PrefixesApart
<1>1. ASSUME NEW row \in Rows, NEW scope \in Scopes, Approving(row, scope) PROVE PrefixesApart'
  <2> DEFINE new == [id |-> pins[row], scope |-> scope, row |-> row]
  <2>1. approvals' = approvals \cup {new} /\ \A g \in approvals : g.id # new.id => <<g.scope, new.scope>> \notin Overlap
      BY <1>1 DEF Approving
  <2> HIDE DEF new
  <2>2. Overlap \subseteq Prefixes \X Prefixes /\ \A p, q \in Prefixes : <<p, q>> \in Overlap => <<q, p>> \in Overlap
      BY PluginsAssumption
  <2>3. \A g \in approvals : g.id # new.id => <<new.scope, g.scope>> \notin Overlap  BY <2>1, <2>2
  <2> QED BY <2>1, <2>3
<1>2. approvals' \subseteq approvals \/ \E row \in Rows, scope \in Scopes : Approving(row, scope)
    BY StepDoes DEF access, Saving, Revoking, Removing, Renaming, Claiming, Calling
<1> QED BY <1>1, <1>2

-----------------------------------------------------------------------------
(* A number is logged at the end, above those its row was given.           *)
LEMMA CountedStep ==
    ASSUME Typed, OwnedByThePinned, Counted, NumbersNeverRepeat, [Next]_vars
    PROVE  (Counted /\ NumbersNeverRepeat)'
<1>1. /\ plugins \in [Rows -> RowType] /\ pins \in [Rows -> Ids \cup {None}] /\ sequences \in [Ids -> Nat]
      /\ log \in Seq(EntryType) /\ made \in Nat /\ None \notin Ids /\ Registered(plugins) \subseteq 1..made
    BY PluginsAssumption DEF Typed, TablesOK, RowsOnce
<1>2. \A j \in DOMAIN log : log[j] \in EntryType /\ log[j].row \in Rows /\ log[j].n \in Nat /\ log[j].row \in Nat
  <2>1. \A j \in DOMAIN log : log[j] \in EntryType  BY <1>1
  <2>2. Rows \subseteq Nat  BY PluginsAssumption DEF Rows
  <2> QED BY <2>1, <2>2 DEF EntryType
<1>3. \A i, j \in Rows : pins[i] = pins[j] /\ pins[i] # None => i = j  BY DEF OwnedByThePinned, PinsHold
<1>4. CASE log' = log
  <2>1. NumbersNeverRepeat'  BY <1>4 DEF NumbersNeverRepeat
  <2> DEFINE At1(j) == /\ log[j].row <= made'
                       /\ log[j].row \in Registered(plugins') =>
                            /\ pins'[log[j].row] \in Ids
                            /\ log[j].kind = "number" => log[j].n <= sequences'[pins'[log[j].row]]
  <2> SUFFICES ASSUME NEW j \in DOMAIN log PROVE At1(j)
      BY <1>4, <2>1 DEF Counted
  <2> DEFINE k == log[j].row
  <2>2. /\ k \in Rows /\ k \in Nat /\ log[j].n \in Nat /\ k <= made
        /\ k \in Registered(plugins) => pins[k] \in Ids /\ (log[j].kind = "number" => log[j].n <= sequences[pins[k]])
      BY <1>2 DEF Counted
  <2>3. CASE UNCHANGED <<registry, access, data>> \/ Revoking \/ \E row \in Rows, scope \in Scopes : Approving(row, scope)
    <3>1. UNCHANGED <<plugins, pins, sequences, made>>
        BY <2>3 DEF Revoking, Approving, registry, access, data
    <3> QED BY <2>2, <3>1 DEF Registered
  <2>4. CASE Saving
    <3>1. k \in Registered(plugins') => k \in Registered(plugins)  BY <1>1, <2>2, <2>4 DEF Saving
    <3>2. pins' = pins /\ sequences' = sequences /\ made' >= made /\ k <= made'
      <4>1. made' \in Nat  BY TypedStep DEF Typed, TablesOK
      <4> QED BY <1>1, <2>2, <2>4, <4>1 DEF Saving, access
    <3> QED BY <2>2, <3>1, <3>2
  <2>5. ASSUME NEW row \in Rows, Removing(row) PROVE At1(j)
    <3>1. made' = made /\ sequences' = sequences  BY <2>5 DEF Removing
    <3>2. k \in Registered(plugins') => k # row /\ k \in Registered(plugins)
        BY <1>1, <2>5 DEF Removing, Registered, Absent
    <3>3. k # row => pins'[k] = pins[k]  BY <1>1, <2>2, <2>5 DEF Removing
    <3> QED BY <2>2, <3>1, <3>2, <3>3
  <2>6. ASSUME NEW row \in Rows, NEW id \in Ids, Renaming(row, id) PROVE At1(j)
    <3> DEFINE was == pins[row]
    <3>1. made' = made /\ plugins' = plugins /\ \A i \in Rows \ {row} : pins[i] # id
        BY <2>6 DEF Renaming, registry
    <3>2. \A i \in Rows : pins'[i] = IF i = row THEN id ELSE pins[i]  BY <1>1, <2>6 DEF Renaming
    <3>3. \A i \in Ids : sequences'[i] = IF i = id /\ was \in Ids /\ sequences[was] # 0 THEN sequences[was]
                                         ELSE IF i = was THEN 0 ELSE sequences[i]
        BY <2>6 DEF Renaming, Moved
    <3>4. CASE k = row
      <4>1. k \in Registered(plugins) /\ log[j].kind = "number" => log[j].n <= sequences'[id]
        <5> SUFFICES ASSUME k \in Registered(plugins), log[j].kind = "number" PROVE log[j].n <= sequences'[id]
            OBVIOUS
        <5>1. was \in Ids /\ log[j].n <= sequences[was]  BY <2>2, <3>4
        <5>2. sequences[was] \in Nat /\ sequences[id] \in Nat  BY <1>1, <5>1
        <5>3. CASE sequences[was] # 0  BY <3>3, <5>1, <5>3
        <5>4. CASE sequences[was] = 0
          <6>1. log[j].n = 0  BY <2>2, <5>1, <5>4
          <6>2. sequences'[id] \in Nat  BY TypedStep DEF Typed, TablesOK
          <6> QED BY <6>1, <6>2
        <5> QED BY <5>3, <5>4
      <4> QED BY <2>2, <3>1, <3>2, <3>4, <4>1 DEF Registered
    <3>5. CASE k # row
      <4>1. pins'[k] = pins[k] /\ pins[k] # id  BY <2>2, <3>1, <3>2, <3>5
      <4>2. pins[k] \in Ids => pins[k] # was  BY <1>1, <1>3, <2>2, <3>5
      <4>3. pins[k] \in Ids => sequences'[pins[k]] = sequences[pins[k]]  BY <3>3, <4>1, <4>2
      <4> QED BY <2>2, <3>1, <4>1, <4>3 DEF Registered
    <3> QED BY <3>4, <3>5
  <2>7. ASSUME NEW row \in Rows, NEW id \in Ids, Claiming(row, id) PROVE At1(j)
    <3>1. made' = made /\ plugins' = plugins /\ sequences' = sequences /\ row \in Registered(plugins) /\ pins[row] = None
        BY <2>7 DEF Claiming, registry, data
    <3>2. k # row  BY <1>1, <2>2, <3>1
    <3>3. pins'[k] = pins[k]  BY <1>1, <2>2, <2>7, <3>2 DEF Claiming
    <3> QED BY <2>2, <3>1, <3>3 DEF Registered
  <2>8. ASSUME NEW r \in Requests, Calling(req[r]) PROVE FALSE
    <3>1. \E e : log' = Append(log, e)  BY <2>8 DEF Calling, MutateState, AdvanceSequence, WritePage, Logged
    <3> QED BY <1>1, <1>4, <3>1
  <2> HIDE DEF At1
  <2> QED BY <2>3, <2>4, <2>5, <2>6, <2>7, <2>8, StepDoes
<1>5. ASSUME NEW r \in Requests, Calling(req[r]) PROVE (Counted /\ NumbersNeverRepeat)'
  <2> DEFINE q == req[r]
  <2>1. /\ plugins' = plugins /\ made' = made /\ pins' = pins /\ q.row \in Registered(plugins) /\ q.row \in Rows
        /\ q.id \in Ids /\ pins[q.row] = q.id /\ q.row <= made
      BY <1>1, <1>5 DEF Calling, registry, access, Check, Registered
  <2>2. \E e : /\ log' = Append(log, e) /\ e.row = q.row /\ e.kind = q.kind
               /\ \/ q.kind # "number" /\ sequences' = sequences
                  \/ e.n = sequences[q.id] + 1 /\ sequences' = [sequences EXCEPT ![q.id] = sequences[q.id] + 1]
    <3> HIDE DEF q
    <3>1. CASE q.kind = "state" /\ MutateState(q)
        BY <3>1 DEF MutateState, Logged, Entry
    <3>2. CASE q.kind = "number" /\ AdvanceSequence(q)
        BY <3>2 DEF AdvanceSequence, Logged, Entry
    <3>3. CASE q.kind = "write" /\ WritePage(q)
        BY <3>3 DEF WritePage, Logged, Entry
    <3> QED BY <1>5, <3>1, <3>2, <3>3 DEF Calling, q
  <2>3. PICK e : /\ log' = Append(log, e) /\ e.row = q.row /\ e.kind = q.kind
                 /\ \/ q.kind # "number" /\ sequences' = sequences
                    \/ e.n = sequences[q.id] + 1 /\ sequences' = [sequences EXCEPT ![q.id] = sequences[q.id] + 1]
      BY <2>2
  <2> HIDE DEF q
  <2>4. Len(log') = Len(log) + 1 /\ Len(log) \in Nat /\ log'[Len(log) + 1] = e /\ \A j \in DOMAIN log : log'[j] = log[j]
      BY <1>1, <2>3
  <2>5. DOMAIN log = 1..Len(log) /\ DOMAIN log' = 1..(Len(log) + 1)
      BY <1>1, <2>3
  <2>6. \A i \in Ids : sequences'[i] \in Nat /\ sequences[i] \in Nat /\ sequences'[i] >= sequences[i]
    <3>1. sequences[q.id] \in Nat  BY <1>1, <2>1
    <3>2. \A i \in Ids : sequences[i] \in Nat /\ (sequences'[i] = sequences[i] \/ (i = q.id /\ sequences'[i] = sequences[q.id] + 1))
        BY <1>1, <2>1, <2>3
    <3> QED BY <3>1, <3>2
  <2>7. e.kind = "number" => e.n = sequences[q.id] + 1 /\ sequences'[q.id] = e.n
      BY <1>1, <2>1, <2>3
  <2>8. \A j \in DOMAIN log : log[j].kind = "number" /\ log[j].row = q.row => log[j].n <= sequences[q.id]
      BY <2>1 DEF Counted
  <2>9. Counted'
    <3> SUFFICES ASSUME NEW j \in DOMAIN log'
                 PROVE  /\ log'[j].row <= made
                        /\ log'[j].row \in Registered(plugins) =>
                             /\ pins[log'[j].row] \in Ids
                             /\ log'[j].kind = "number" => log'[j].n <= sequences'[pins[log'[j].row]]
        BY <2>1 DEF Counted, Registered
    <3>1. CASE j \in DOMAIN log
      <4>1. log'[j] = log[j] /\ log[j].n \in Nat  BY <1>2, <2>4, <3>1
      <4> QED BY <2>6, <3>1, <4>1 DEF Counted
    <3>2. CASE j = Len(log) + 1
      <4>1. log'[j] = e  BY <2>4, <3>2
      <4>2. e.kind = "number" => e.n <= sequences'[q.id]  BY <2>1, <2>6, <2>7
      <4> QED BY <2>1, <2>3, <4>1, <4>2
    <3> QED BY <2>4, <2>5, <3>1, <3>2
  <2>10. NumbersNeverRepeat'
    <3> SUFFICES ASSUME NEW i \in DOMAIN log', NEW j \in DOMAIN log', i < j, log'[i].kind = "number",
                        log'[j].kind = "number", log'[i].row = log'[j].row
                 PROVE  log'[i].n < log'[j].n
        BY DEF NumbersNeverRepeat
    <3>1. i \in DOMAIN log  BY <2>4, <2>5
    <3>2. CASE j \in DOMAIN log  BY <2>4, <3>1, <3>2 DEF NumbersNeverRepeat
    <3>3. CASE j = Len(log) + 1
      <4>1. log'[j] = e /\ log'[i] = log[i] /\ log[i].n \in Nat  BY <1>2, <2>4, <3>1, <3>3
      <4>2. log[i].n <= sequences[q.id] /\ e.n = sequences[q.id] + 1  BY <2>3, <2>7, <2>8, <3>1, <4>1
      <4> QED BY <2>1, <2>6, <4>1, <4>2
    <3> QED BY <2>4, <2>5, <3>2, <3>3
  <2> QED BY <2>9, <2>10
<1>6. log' = log \/ \E r \in Requests : Calling(req[r])
    BY StepDoes DEF data, Saving, Revoking, Removing, Renaming, Approving, Claiming
<1> QED BY <1>4, <1>5, <1>6

-----------------------------------------------------------------------------
(* The secret is handed over for the ticket stored, which is taken away.   *)
LEMMA TicketsStep ==
    ASSUME Typed, StoredIsFresh, SecretGoesOnce, [Next]_vars PROVE (StoredIsFresh /\ SecretGoesOnce)'
<1>1. /\ pending \in [Ids -> Nat] /\ redeemed \in Seq(Nat)
      /\ tickets \in Seq([id : Ids, url : Urls \cup {None}]) /\ Len(redeemed) = Len(tickets)
    BY DEF Typed, TablesOK, StoredIsFresh
<1>2. Len(tickets) \in Nat /\ DOMAIN tickets = 1..Len(tickets) /\ DOMAIN redeemed = 1..Len(tickets)
    BY <1>1
<1>3. CASE UNCHANGED <<tickets, redeemed>> /\ \A id \in Ids : pending'[id] = pending[id] \/ pending'[id] = 0
    BY <1>3 DEF StoredIsFresh, SecretGoesOnce
<1>4. ASSUME NEW r \in Requests, Mint(r) PROVE (StoredIsFresh /\ SecretGoesOnce)'
  <2> DEFINE id == req[r].id t == Len(tickets) + 1 new == [id |-> id, url |-> req[r].seen.url]
  <2>1. /\ tickets' = Append(tickets, new) /\ new.id = id /\ redeemed' = Append(redeemed, 0)
        /\ pending' = [pending EXCEPT ![id] = t]
      BY <1>4 DEF Mint
  <2>2. id \in Ids
      BY <1>4 DEF Typed, ReqOK, RequestsCarry, Carries, Mint, At, Resolving
  <2> HIDE DEF id, new
  <2>3. new \in [id : Ids, url : Urls \cup {None}]
      BY <1>4, <2>2 DEF id, new, Mint, At, Typed, ReqOK, RequestType, RowType
  <2>4. /\ Len(tickets') = t /\ Len(redeemed') = t /\ DOMAIN tickets' = 1..t /\ DOMAIN redeemed' = 1..t
        /\ tickets'[t] = new /\ redeemed'[t] = 0
        /\ \A k \in 1..Len(tickets) : tickets'[k] = tickets[k] /\ redeemed'[k] = redeemed[k]
      BY <1>1, <1>2, <2>1, <2>3
  <2>5. \A k \in 1..t : k = t \/ k \in 1..Len(tickets)  BY <1>2
  <2>6. SecretGoesOnce'
    <3> SUFFICES ASSUME NEW k \in 1..t PROVE redeemed'[k] <= 1
        BY <2>4 DEF SecretGoesOnce
    <3> QED BY <1>2, <2>4, <2>5 DEF SecretGoesOnce
  <2>7. StoredIsFresh'
    <3> SUFFICES ASSUME NEW i \in Ids, pending'[i] # 0
                 PROVE  /\ pending'[i] \in DOMAIN tickets' /\ tickets'[pending'[i]].id = i
                        /\ redeemed'[pending'[i]] = 0
        BY <2>4 DEF StoredIsFresh
    <3>1. t \in 1..t /\ 1..Len(tickets) \subseteq 1..t  BY <1>2
    <3>2. CASE i = id
      <4>1. pending'[i] = t  BY <1>1, <2>1, <2>2, <3>2
      <4> QED BY <2>1, <2>4, <3>1, <3>2, <4>1
    <3>3. CASE i # id
      <4>1. pending'[i] = pending[i]  BY <1>1, <2>1, <3>3
      <4>2. pending[i] \in 1..Len(tickets) /\ tickets[pending[i]].id = i /\ redeemed[pending[i]] = 0
          BY <1>2, <4>1 DEF StoredIsFresh
      <4> QED BY <2>4, <3>1, <4>1, <4>2
    <3> QED BY <3>2, <3>3
  <2> QED BY <2>6, <2>7
<1>5. ASSUME NEW r \in Requests, TakeTicket(r), ~ UNCHANGED <<pending, redeemed>>
      PROVE  (StoredIsFresh /\ SecretGoesOnce)'
  <2> DEFINE id == req[r].id t == req[r].ticket
  <2>1. id \in Ids /\ t # 0
      BY <1>5 DEF Typed, ReqOK, RequestsCarry, Carries, TakeTicket, At, Resolving
  <2>2. /\ pending[id] = t /\ pending' = [pending EXCEPT ![id] = 0] /\ tickets' = tickets
        /\ redeemed' = [redeemed EXCEPT ![t] = redeemed[t] + 1] \/ redeemed' = redeemed
      BY <1>5 DEF TakeTicket, Stored
  <2> HIDE DEF id, t
  <2>3. t \in DOMAIN redeemed /\ redeemed[t] = 0 /\ tickets[t].id = id
      BY <1>2, <2>1, <2>2 DEF StoredIsFresh
  <2>4. /\ DOMAIN redeemed' = DOMAIN redeemed /\ Len(redeemed') = Len(redeemed)
        /\ \A k \in DOMAIN redeemed : redeemed'[k] = redeemed[k] \/ (k = t /\ redeemed'[k] = 1)
    <3>1. CASE redeemed' = redeemed  BY <3>1
    <3>2. CASE redeemed' = [redeemed EXCEPT ![t] = redeemed[t] + 1]  BY <1>1, <2>3, <3>2
    <3> QED BY <2>2, <3>1, <3>2
  <2>5. SecretGoesOnce'  BY <2>4 DEF SecretGoesOnce
  <2>6. \A i \in Ids : pending'[i] # 0 => i # id /\ pending'[i] = pending[i]  BY <1>1, <2>1, <2>2
  <2>7. StoredIsFresh'
    <3> SUFFICES ASSUME NEW i \in Ids, pending'[i] # 0
                 PROVE  /\ pending'[i] \in DOMAIN tickets' /\ tickets'[pending'[i]].id = i
                        /\ redeemed'[pending'[i]] = 0
        BY <1>1, <2>2, <2>4 DEF StoredIsFresh
    <3>1. pending'[i] = pending[i] /\ i # id  BY <2>6
    <3>2. pending[i] \in DOMAIN tickets /\ tickets[pending[i]].id = i /\ redeemed[pending[i]] = 0
        BY <3>1 DEF StoredIsFresh
    <3>3. pending[i] # t  BY <2>3, <3>1, <3>2
    <3> QED BY <1>2, <2>2, <2>4, <3>1, <3>2, <3>3
  <2> QED BY <2>5, <2>7
<1>6. ASSUME NEW r \in Requests, ClearPending(r) \/ ReadTicket(r) \/ (TakeTicket(r) /\ UNCHANGED <<pending, redeemed>>)
      PROVE  (StoredIsFresh /\ SecretGoesOnce)'
  <2>1. UNCHANGED <<tickets, redeemed>> /\ (pending' = pending \/ pending' = [pending EXCEPT ![req[r].id] = 0])
      BY <1>6 DEF enrolment, ClearPending, ReadTicket, TakeTicket
  <2>2. \A id \in Ids : pending'[id] = pending[id] \/ pending'[id] = 0  BY <1>1, <2>1
  <2> QED BY <1>3, <2>1, <2>2
<1>7. CASE UNCHANGED enrolment  BY <1>3, <1>7 DEF enrolment
<1>8. UNCHANGED enrolment \/ \E r \in Requests : Mint(r) \/ ClearPending(r) \/ ReadTicket(r) \/ TakeTicket(r)
  <2>1. ASSUME NEW r \in Requests,
               \/ Capture(r) \/ Save(r) \/ ReadOwned(r) \/ Remove(r) \/ Inspect(r) \/ ApproveIdentity(r) \/ Approve(r)
               \/ Revoke(r) \/ Resolve(r) \/ Unresolved(r) \/ ClaimIdentity(r) \/ Authenticate(r) \/ Call(r)
        PROVE  UNCHANGED enrolment
      BY <2>1 DEF Capture, Save, ReadOwned, Remove, Inspect, ApproveIdentity, Approve, Revoke, Resolve, Unresolved,
                  ClaimIdentity, Authenticate, Call
  <2> QED BY <2>1 DEF Next, Deploy, vars
<1> QED BY <1>4, <1>5, <1>6, <1>7, <1>8

LEMMA IInvStep == ASSUME IInv, [Next]_vars PROVE IInv'
BY TypedStep, OwnedStep, ApartStep, CountedStep, TicketsStep DEF IInv

-----------------------------------------------------------------------------
LEMMA InitIInv == ASSUME Init PROVE IInv
<1> PICK s \in Starts : StartFrom(s)  BY DEF Init
<1>1. /\ served = s.served /\ cached = s.served /\ made = s.made /\ secrets = s.made
      /\ plugins = [i \in Rows |-> IF i <= s.made THEN [url |-> s.urls[i], on |-> TRUE, secret |-> i] ELSE Absent]
      /\ pins = [i \in Rows |-> IF i <= s.made THEN s.pins[i] ELSE None]
    BY DEF StartFrom
<1>2. /\ state = [id \in Ids |-> 0] /\ log = <<>> /\ sequences = [id \in Ids |-> 0]
      /\ pending = [id \in Ids |-> 0] /\ tickets = <<>> /\ redeemed = <<>> /\ req = [r \in Requests |-> Idle]
    BY DEF StartFrom
<1>3. /\ s.made \in 0..MaxRows /\ s.served \in [Urls -> Ids]
      /\ \A i \in 1..s.made : s.urls[i] \in Urls /\ s.pins[i] \in Ids \cup {None}
      /\ \A i, j \in 1..s.made : s.pins[i] = s.pins[j] /\ s.pins[i] # None => i = j
      /\ s.granted \subseteq {i \in 1..s.made : s.pins[i] # None}
    BY StartsAssumption
<1>4. None \notin Ids \cup Urls /\ MaxRows \in Nat /\ Types \cap Prefixes = {} /\ Overlap \subseteq Prefixes \X Prefixes
    BY PluginsAssumption
<1>5. 1..s.made \subseteq Rows /\ s.made \in Nat /\ \A i \in Rows : i \in Nat /\ (i <= s.made <=> i \in 1..s.made)
    BY <1>3, <1>4 DEF Rows
<1>6. /\ \A i \in Rows : i \notin 1..s.made => plugins[i] = Absent /\ pins[i] = None
      /\ \A i \in 1..s.made : /\ plugins[i] = [url |-> s.urls[i], on |-> TRUE, secret |-> i]
                              /\ pins[i] = s.pins[i] /\ plugins[i].url \in Urls
    BY <1>1, <1>3, <1>5
<1>7. \A g \in approvals : /\ g.row \in 1..s.made /\ g.id = pins[g.row] /\ g.id \in Ids /\ g.scope \in Types
                           /\ g \in ApprovalType
  <2> SUFFICES ASSUME NEW i \in s.granted, NEW scope \in Types
               PROVE  i \in 1..s.made /\ s.pins[i] = pins[i] /\ s.pins[i] \in Ids
      BY <1>1, <1>5 DEF StartFrom, ApprovalType, Scopes
  <2> QED BY <1>3, <1>6
<1>8. Typed
  <2>1. Absent \in RowType /\ Absent.url = None /\ ~ Absent.on  BY DEF Absent, RowType
  <2>2. plugins \in [Rows -> RowType] /\ pins \in [Rows -> Ids \cup {None}]
    <3>1. \A i \in 1..s.made : plugins[i] \in RowType /\ pins[i] \in Ids \cup {None}
      <4> SUFFICES ASSUME NEW i \in 1..s.made PROVE plugins[i] \in RowType /\ pins[i] \in Ids \cup {None}
          OBVIOUS
      <4>1. i \in Nat  BY <1>5
      <4>2. plugins[i] = [url |-> s.urls[i], on |-> TRUE, secret |-> i] /\ s.urls[i] \in Urls  BY <1>3, <1>6
      <4>3. plugins[i] \in RowType  BY <4>1, <4>2 DEF RowType
      <4> QED BY <1>3, <1>6, <4>3
    <3>2. \A i \in Rows : plugins[i] \in RowType /\ pins[i] \in Ids \cup {None}  BY <1>6, <2>1, <3>1
    <3> QED BY <1>1, <3>2
  <2>3. TablesOK
    <3>1. /\ state \in [Ids -> Rows \cup {0}] /\ sequences \in [Ids -> Nat] /\ pending \in [Ids -> Nat]
        BY <1>2
    <3>2. log \in Seq(EntryType) /\ tickets \in Seq([id : Ids, url : Urls \cup {None}]) /\ redeemed \in Seq(Nat)
        BY <1>2
    <3>3. approvals \in SUBSET ApprovalType  BY <1>7
    <3>4. made \in Nat /\ secrets \in Nat /\ served \in [Urls -> Ids] /\ cached \in [Urls -> Ids]
        BY <1>1, <1>3, <1>5
    <3> QED BY <2>2, <3>1, <3>2, <3>3, <3>4 DEF TablesOK
  <2>4. Registered(plugins) \subseteq 1..made  BY <1>1, <1>6, <2>1 DEF Registered
  <2>5. \A i \in Rows : plugins[i].on => plugins[i].url # None  BY <1>4, <1>6, <2>1
  <2>6. ReqOK  BY <1>2, IdleIsTyped DEF ReqOK, RequestsCarry
  <2> QED BY <2>3, <2>4, <2>5, <2>6 DEF Typed, RowsOnce
<1>9. OwnedByThePinned
  <2>1. PinsHold
    <3>1. \A i \in Rows : pins[i] # None => i \in 1..s.made  BY <1>6
    <3> QED BY <1>3, <1>4, <1>5, <1>6, <3>1 DEF PinsHold, Registered
  <2>2. GrantsAreTheirOwn  BY <1>5, <1>7 DEF GrantsAreTheirOwn
  <2> QED BY <1>2, <2>1, <2>2 DEF OwnedByThePinned, StateIsTheirOwn
<1>10. PrefixesApart  BY <1>4, <1>7 DEF PrefixesApart
<1>11. Counted /\ NumbersNeverRepeat  BY <1>2 DEF Counted, NumbersNeverRepeat
<1>12. StoredIsFresh /\ SecretGoesOnce  BY <1>2 DEF StoredIsFresh, SecretGoesOnce
<1> QED BY <1>8, <1>9, <1>10, <1>11, <1>12 DEF IInv

LEMMA Invariance == Spec => []IInv
BY InitIInv, IInvStep, PTL DEF Spec

-----------------------------------------------------------------------------
(* Pins are of registered plugins and of one each, nothing kept under an   *)
(* identity belongs to a plugin that was removed or renamed, however        *)
(* removals, approvals, first calls and deployments overlap, and the file   *)
(* prefixes approved for different plugins never do.                        *)
THEOREM GrantsHold == Spec => []GrantsAreExclusive
BY Invariance, PTL DEF IInv, GrantsAreExclusive

(* A plugin's numbers only grow, across re-pinnings of its identity too,    *)
(* and a ticket gets the secret out at most once.                           *)
THEOREM IssuesHold == Spec => []IssuedOnce
BY Invariance, PTL DEF IInv, IssuedOnce

(* A call that commits is that of a plugin registered, enabled and         *)
(* approved in the very state it commits in.                               *)
LEMMA CallIsAuthorised ==
    ASSUME IInv, [Next]_vars, Len(log') > Len(log) PROVE Authorised(log'[Len(log')])
<1>1. Typed /\ OwnedByThePinned /\ log \in Seq(EntryType) /\ approvals \in SUBSET ApprovalType
    BY DEF IInv, Typed, TablesOK
<1>2. PICK r \in Requests : Calling(req[r]) /\ Call(r)
  <2>1. Len(log) \in Nat /\ log' # log  BY <1>1
  <2> QED BY <1>1, <2>1, StepDoes DEF data, Saving, Revoking, Removing, Renaming, Approving, Claiming
<1> DEFINE q == req[r]
<1>3. /\ plugins[q.row] = q.seen /\ plugins[q.row].on /\ pins[q.row] = q.id /\ q.row \in Rows /\ q.id \in Ids
      /\ q.kind = "write" => GrantsOf(q.id) = q.granted
    BY <1>2 DEF Calling, Check, Registered
<1> HIDE DEF q
<1>4. PICK scope, n : /\ log' = Append(log, Entry(q, scope, n))
                      /\ q.kind = "write" => \E g \in q.granted : scope = g.scope
  <2>1. CASE q.kind = "state" /\ MutateState(q)  BY <2>1 DEF MutateState, Logged
  <2>2. CASE q.kind = "number" /\ AdvanceSequence(q)  BY <2>2 DEF AdvanceSequence, Logged
  <2>3. CASE q.kind = "write" /\ WritePage(q)  BY <2>3 DEF WritePage, Logged
  <2> QED BY <1>2, <2>1, <2>2, <2>3 DEF Calling, q
<1>5. log'[Len(log')] = Entry(q, scope, n)  BY <1>1, <1>4
<1>6. /\ Entry(q, scope, n).row = q.row /\ Entry(q, scope, n).id = q.id /\ Entry(q, scope, n).kind = q.kind
      /\ Entry(q, scope, n).scope = scope /\ Entry(q, scope, n).secret = q.seen.secret
    BY DEF Entry
<1>7. q.kind = "write" => [id |-> q.id, scope |-> scope, row |-> q.row] \in approvals
  <2> SUFFICES ASSUME q.kind = "write" PROVE [id |-> q.id, scope |-> scope, row |-> q.row] \in approvals
      OBVIOUS
  <2>1. PICK g \in approvals : g.id = q.id /\ g.scope = scope  BY <1>3, <1>4 DEF GrantsOf
  <2>2. g.row \in Rows /\ pins[g.row] = q.id  BY <1>1, <2>1 DEF OwnedByThePinned, GrantsAreTheirOwn
  <2>3. q.id # None  BY <1>3, PluginsAssumption
  <2>4. g.row = q.row  BY <1>1, <1>3, <2>2, <2>3 DEF OwnedByThePinned, PinsHold
  <2>5. g = [id |-> g.id, scope |-> g.scope, row |-> g.row]  BY <1>1 DEF ApprovalType
  <2> QED BY <2>1, <2>4, <2>5
<1> QED BY <1>3, <1>5, <1>6, <1>7 DEF Authorised

(* What a call changes it changes with the authority of that very moment.  *)
THEOREM CallsHold == Spec => CallsAreAuthorised
<1>1. IInv /\ [Next]_vars => [Len(log') > Len(log) => Authorised(log'[Len(log')])]_vars
    BY CallIsAuthorised
<1> QED BY <1>1, Invariance, PTL DEF Spec, CallsAreAuthorised

-----------------------------------------------------------------------------
(* The drafts and their versions.  New ids are above all that are stored.   *)
Fields == {"text", "tags", "weight", "name", "slug"}
DraftsOK == /\ pages = [p \in DOMAIN pages |-> pages[p]]
            /\ DOMAIN pages \subseteq born /\ born \subseteq Pages
            /\ \A p \in DOMAIN pages : Fields \subseteq DOMAIN pages[p]
VersionsOK == /\ edits \in Nat
              /\ \A x \in versions : x.id \in Nat /\ x.mark \in Nat /\ x.mark <= edits
              /\ \A x, y \in versions : x # y => x.id # y.id
              /\ \E m \in Nat : \A x \in versions : x.id <= m

(* What a request carries.  An edit read what it saw; a version to restore  *)
(* is one of the page; what was listed was there, and if its id has come    *)
(* again, it was to a later one.                                            *)
Editing == {"save", "revert", "remove", "replace", "tag", "patch"}
Carried(q) ==
    /\ {"targets", "saw"} \subseteq DOMAIN q /\ q.targets \subseteq Pages
    /\ q.kind \notin {"replace", "tag"} => \E p : q.targets = {p}
    /\ q.pc \in {"prepare", "commit"} =>
           /\ "rows" \in DOMAIN q /\ \A p \in q.targets : q.rows[p].text = q.saw[p]
           /\ q.kind = "revert" => "version" \in DOMAIN q /\ q.version.page \in q.targets
Listed(q) ==
    \A w \in q.listed : /\ w.page \in q.targets /\ w.mark \in Nat /\ w.mark <= edits
                        /\ \A x \in versions : x.id = w.id => x = w \/ w.mark < x.mark
(* A plan of pages to make: no id and no slug twice.                        *)
PlanOK(q) ==
    /\ "plan" \in DOMAIN q /\ "written" \in DOMAIN q /\ q.plan \in Seq([id : Pages, slug : Nat])
    /\ q.written \in Nat /\ q.written < Len(q.plan) /\ (q.kind # "copy" => q.written = 0)
    /\ \A i, j \in DOMAIN q.plan : i # j => q.plan[i].id # q.plan[j].id /\ q.plan[i].slug # q.plan[j].slug
Asking == {"api", "copy", "form"}
Planning == {"admit", "reserve", "write"}
CarriesOK(q) ==
    /\ {"kind", "pc"} \subseteq DOMAIN q
    /\ q.kind \in Editing => Carried(q)
    /\ q.kind \in Asking /\ q.pc \in Planning => PlanOK(q)
WritesOK == /\ write = [r \in Requests |-> write[r]]
            /\ \A r \in Requests : CarriesOK(write[r])
            /\ \A r \in Requests : write[r].kind \in Editing /\ write[r].pc = "commit" => Listed(write[r])

WInv == kinds \in Plans /\ DraftsOK /\ VersionsOK /\ WritesOK

-----------------------------------------------------------------------------
(* With is what its name says.                                              *)
LEMMA WithIs ==
    ASSUME NEW f, NEW g
    PROVE  /\ DOMAIN W!With(f, g) = DOMAIN f \cup DOMAIN g
           /\ \A x \in DOMAIN g : W!With(f, g)[x] = g[x]
           /\ \A x \in DOMAIN f : x \notin DOMAIN g => W!With(f, g)[x] = f[x]
           /\ W!With(f, g) = [x \in DOMAIN W!With(f, g) |-> W!With(f, g)[x]]
  BY DEF W!With

(* A bounded set of numbers has a greatest.                                 *)
LEMMA HasTop ==
    ASSUME NEW S, S \subseteq Nat, S # {}, NEW m \in Nat, \A k \in S : k <= m
    PROVE  \E n \in S : \A k \in S : k <= n
<1> DEFINE T == {b \in Nat : \A k \in S : k <= b}
           R == OpToRel(<, Nat)
<1>1. IsWellFoundedOn(R, Nat)  BY NatLessThanWellFounded
<1>2. T \subseteq Nat /\ T # {}  OBVIOUS
<1>3. PICK n \in T : \A b \in T : ~ (<<b, n>> \in R)
  <2> HIDE DEF T, R
  <2> QED  BY <1>1, <1>2, WFMin
<1>4. \A a, b \in Nat : a < b => <<a, b>> \in R
  BY DEF OpToRel
<1>5. \A b \in T : ~ (b < n)
  BY <1>2, <1>3, <1>4
<1>6. CASE n \in S  BY <1>6
<1>7. CASE n \notin S
  <2>1. n \in Nat /\ \A k \in S : k \in Nat /\ k <= n /\ k # n  BY <1>7
  <2>2. n # 0
    <3>1. PICK k \in S : TRUE  OBVIOUS
    <3> QED  BY <2>1, <3>1
  <2>3. n - 1 \in T  BY <2>1, <2>2
  <2> QED  BY <2>1, <2>2, <2>3, <1>5
<1> QED  BY <1>6, <1>7

LEMMA NextIdIs ==
    ASSUME VersionsOK
    PROVE  W!NextId \in Nat /\ \A x \in versions : x.id < W!NextId
<1>1. CASE versions = {}
  BY <1>1 DEF W!NextId
<1>2. CASE versions # {}
  <2> DEFINE S == {x.id : x \in versions}
  <2>1. PICK m \in Nat : \A x \in versions : x.id <= m
    BY DEF VersionsOK
  <2>2. S \subseteq Nat /\ S # {} /\ \A k \in S : k <= m
    BY <1>2, <2>1 DEF VersionsOK
  <2>3. \E n \in S : \A k \in S : k <= n
    <3> HIDE DEF S
    <3> QED  BY <2>2, HasTop
  <2>4. PICK top : top \in S /\ (\A x \in versions : x.id <= top) /\ W!NextId = 1 + top
    <3>1. \E n \in S : \A x \in versions : x.id <= n
      BY <2>3
    <3> QED  BY <1>2, <3>1 DEF W!NextId
  <2>5. top \in Nat /\ \A x \in versions : x.id \in Nat
    BY <2>2, <2>4 DEF VersionsOK
  <2> QED  BY <2>4, <2>5
<1> QED  BY <1>1, <1>2

(* Versions that a batch adds are new, and later than what was listed.      *)
Later == edits \in Nat /\ edits' \in Nat /\ edits <= edits' /\ \A x \in versions' : x \in versions \/ x.mark = edits + 1
LEMMA ListedStays ==
    ASSUME NEW q, Later, Listed(q)  PROVE Listed(q)'
<1> SUFFICES ASSUME NEW w \in q.listed
             PROVE  w.page \in q.targets /\ w.mark \in Nat /\ w.mark <= edits' /\ \A x \in versions' : x.id = w.id => x = w \/ w.mark < x.mark
  BY DEF Listed
<1>1. w.page \in q.targets /\ w.mark \in Nat /\ w.mark <= edits /\ \A x \in versions : x.id = w.id => x = w \/ w.mark < x.mark
  BY DEF Listed
<1> QED  BY <1>1 DEF Later

LEMMA VersionsGrow ==
    ASSUME VersionsOK, NEW N, NEW b \in Nat, edits' = edits + 1, versions' = versions \cup N,
           \A x \in N : x.id \in Nat /\ W!NextId <= x.id /\ x.id <= b /\ x.mark = edits + 1,
           \A x, y \in N : x # y => x.id # y.id
    PROVE  VersionsOK' /\ Later /\ N \cap versions = {}
<1>1. W!NextId \in Nat /\ \A x \in versions : x.id < W!NextId
  BY NextIdIs
<1>2. edits \in Nat /\ edits' \in Nat /\ edits <= edits' /\ \A x \in versions : x.id \in Nat /\ x.mark \in Nat /\ x.mark <= edits
  BY DEF VersionsOK
<1>3. Later
  BY <1>2 DEF Later
<1>4. \A x \in N : \A y \in versions : x.id # y.id
  BY <1>1, <1>2
<1>5. \A x \in versions' : x.id \in Nat /\ x.mark \in Nat /\ x.mark <= edits'
  BY <1>2
<1>6. \A x, y \in versions' : x # y => x.id # y.id
  BY <1>4 DEF VersionsOK
<1>7. \E m \in Nat : \A x \in versions' : x.id <= m
  <2>1. PICK m \in Nat : \A x \in versions : x.id <= m
    BY DEF VersionsOK
  <2>2. m + b \in Nat /\ \A x \in versions' : x.id <= m + b
    BY <1>2, <2>1
  <2> QED  BY <2>2
<1> QED  BY <1>2, <1>3, <1>4, <1>5, <1>6, <1>7 DEF VersionsOK

LEMMA VersionsShrink ==
    ASSUME VersionsOK, versions' \subseteq versions, edits' \in {edits, edits + 1}
    PROVE  VersionsOK' /\ Later
<1>1. edits \in Nat /\ edits' \in Nat /\ edits <= edits'
  BY DEF VersionsOK
<1>2. Later
  BY <1>1 DEF Later
<1>3. \A x \in versions' : x.id \in Nat /\ x.mark \in Nat /\ x.mark <= edits'
  BY <1>1 DEF VersionsOK
<1> QED  BY <1>1, <1>2, <1>3 DEF VersionsOK

(* One request goes on.                                                     *)
LEMMA Goes ==
    ASSUME WritesOK, Later, NEW r \in Requests, NEW q, write' = [write EXCEPT ![r] = q], CarriesOK(q),
           q.kind \in Editing /\ q.pc = "commit" => Listed(q)'
    PROVE  WritesOK' /\ write'[r] = q /\ \A d \in Requests \ {r} : write'[d] = write[d]
<1>1. write'[r] = q /\ \A d \in Requests \ {r} : write'[d] = write[d]
  BY DEF WritesOK
<1>2. write' = [d \in Requests |-> write'[d]] /\ \A d \in Requests : CarriesOK(write'[d])
  BY <1>1 DEF WritesOK
<1>3. ASSUME NEW d \in Requests, write'[d].kind \in Editing, write'[d].pc = "commit"  PROVE Listed(write[d])'
  <2>1. CASE d = r
    BY <1>1, <1>3, <2>1 DEF Listed
  <2>2. CASE d # r
    <3>1. PICK p : p = write[d]  OBVIOUS
    <3>2. Listed(p)
      BY <1>1, <1>3, <2>2, <3>1 DEF WritesOK
    <3>3. Listed(p)'
      BY <3>2, ListedStays
    <3> QED  BY <1>1, <2>2, <3>1, <3>3 DEF Listed
  <2> QED  BY <2>1, <2>2
<1>4. (\A d \in Requests : CarriesOK(write[d]))'
  BY <1>2 DEF CarriesOK, Carried, PlanOK
<1> QED  BY <1>1, <1>2, <1>3, <1>4 DEF WritesOK

LEMMA IdleCarries == CarriesOK(W!Idle) /\ W!Idle.kind \notin Editing
  BY DEF CarriesOK, W!Idle, Editing, Asking

-----------------------------------------------------------------------------
(* What a step owes the properties.                                         *)
EditsStep ==
    \A p \in DOMAIN pages \cap DOMAIN pages' :
        /\ pages'[p].text # pages[p].text =>
               \E r \in Requests : W!Commits(r) /\ allowed /\ write[r].saw[p] = pages[p].text
        /\ pages'[p].tags # pages[p].tags => \E r \in Requests : W!Commits(r) /\ allowed /\ write[r].tags[p] = pages[p].tags
        /\ pages'[p].text \in {edits + 1, pages[p].text} \cup {x.text : x \in W!History(p)}
HistoryStep ==
    /\ \A p \in DOMAIN pages' : (p \notin DOMAIN pages \/ pages'[p].text # pages[p].text) =>
           \E x \in versions' \ versions : x.page = p /\ x.text = pages'[p].text
    /\ \A x \in versions \ versions' : x.page \in DOMAIN pages' =>
           \E r \in Requests : W!Commits(r) /\ \E w \in write[r].listed :
               w.page = x.page /\ w.id = x.id /\ (w = x \/ (w \notin versions /\ w.mark < x.mark))
    /\ \A x, w \in versions' : x # w => x.id # w.id
PlansStep ==
    \A r \in Requests : write[r].kind \in W!Asks /\ write[r].pc = "write" /\ write'[r] # write[r] /\ W!rows' # W!rows =>
        /\ Cardinality(DOMAIN pages') <= Limit
        /\ \A x \in W!ToSet(W!Chunk(write[r])) : {p \in DOMAIN pages' : pages'[p].slug = x.slug} = {x.id}
Keeps == WInv' /\ EditsStep /\ HistoryStep /\ PlansStep

Still == UNCHANGED <<pages, versions, born, edits, kinds>>
LEMMA StillKeeps ==
    ASSUME WInv, Still, WritesOK'  PROVE Keeps
<1>1. DraftsOK' /\ VersionsOK' /\ (kinds \in Plans)'
  BY DEF Still, WInv, DraftsOK, VersionsOK
<1>2. EditsStep
  BY DEF Still, EditsStep
<1>3. HistoryStep
  BY DEF Still, HistoryStep, WInv, VersionsOK
<1>4. PlansStep
  BY DEF Still, PlansStep, W!rows
<1> QED  BY <1>1, <1>2, <1>3, <1>4 DEF Keeps, WInv

LEMMA StillLater == ASSUME WInv, Still PROVE Later
  BY DEF Still, WInv, VersionsOK, Later

LEMMA StillGoes ==
    ASSUME WInv, Still, NEW r \in Requests, NEW q, write' = [write EXCEPT ![r] = q], CarriesOK(q),
           q.kind \in Editing /\ q.pc = "commit" => Listed(q)
    PROVE  Keeps
<1>1. Later
  BY StillLater
<1>2. q.kind \in Editing /\ q.pc = "commit" => Listed(q)'
  BY <1>1, ListedStays
<1>3. WritesOK'
  BY <1>1, <1>2, Goes DEF WInv
<1> QED  BY <1>3, StillKeeps

LEMMA StillEnds ==
    ASSUME WInv, Still, NEW r \in Requests, W!Done(r)  PROVE Keeps
<1>1. write' = [write EXCEPT ![r] = W!Idle]
  BY DEF W!Done
<1> QED  BY <1>1, IdleCarries, StillGoes

\* A request that is not an edit goes on with more in its hands.
LEMMA WithKeeps ==
    ASSUME NEW q, CarriesOK(q), NEW more, "kind" \notin DOMAIN more
    PROVE  {"kind", "pc"} \subseteq DOMAIN W!With(q, more) /\ W!With(q, more).kind = q.kind
<1> DEFINE n == W!With(q, more)
<1>1. "kind" \in DOMAIN q /\ "pc" \in DOMAIN q  BY DEF CarriesOK
<1>2. DOMAIN n = DOMAIN q \cup DOMAIN more /\ \A x \in DOMAIN q : x \notin DOMAIN more => n[x] = q[x]
  BY WithIs
<1> HIDE DEF n
<1>3. {"kind", "pc"} \subseteq DOMAIN n /\ n["kind"] = q["kind"]
  BY <1>1, <1>2
<1> QED  BY <1>3 DEF n

LEMMA PlanStays ==
    ASSUME NEW q, PlanOK(q), NEW more, {"kind", "plan", "written"} \cap DOMAIN more = {}, "kind" \in DOMAIN q
    PROVE  PlanOK(W!With(q, more))
<1> DEFINE n == W!With(q, more)
<1>1. DOMAIN n = DOMAIN q \cup DOMAIN more /\ \A x \in DOMAIN q : x \notin DOMAIN more => n[x] = q[x]
  BY WithIs
<1> HIDE DEF n
<1>2. "plan" \in DOMAIN n /\ "written" \in DOMAIN n /\ n.plan = q.plan /\ n.written = q.written /\ n.kind = q.kind
  BY <1>1 DEF PlanOK
<1>3. PlanOK(n)
  BY <1>2 DEF PlanOK
<1> QED  BY <1>3 DEF n

LEMMA WithCarries ==
    ASSUME NEW q, CarriesOK(q), NEW more, "kind" \notin DOMAIN more, q.kind \notin Editing,
           q.kind \in Asking /\ W!With(q, more).pc \in Planning => PlanOK(W!With(q, more))
    PROVE  CarriesOK(W!With(q, more)) /\ W!With(q, more).kind = q.kind
<1> DEFINE n == W!With(q, more)
<1>1. {"kind", "pc"} \subseteq DOMAIN n /\ n.kind = q.kind
  BY WithKeeps
<1>2. n.kind \in Asking /\ n.pc \in Planning => PlanOK(n)
  BY <1>1
<1> HIDE DEF n
<1>3. CarriesOK(n)
  BY <1>1, <1>2 DEF CarriesOK
<1> QED  BY <1>1, <1>3 DEF n

LEMMA EditCarries ==
    ASSUME NEW q, CarriesOK(q), NEW more, "kind" \notin DOMAIN more, q.kind \in Editing, Carried(W!With(q, more))
    PROVE  CarriesOK(W!With(q, more)) /\ W!With(q, more).kind = q.kind
<1> DEFINE n == W!With(q, more)
<1>1. {"kind", "pc"} \subseteq DOMAIN n /\ n.kind = q.kind
  BY WithKeeps
<1>2. n.kind \notin Asking
  BY <1>1 DEF Editing, Asking
<1> HIDE DEF n
<1>3. CarriesOK(n)
  BY <1>1, <1>2 DEF CarriesOK, n
<1> QED  BY <1>1, <1>3 DEF n

(* A request that is not an edit goes on, and the drafts are as they were.  *)
LEMMA StillWith ==
    ASSUME WInv, Still, NEW r \in Requests, NEW more, W!Goto(r, more), "kind" \notin DOMAIN more, write[r].kind \notin Editing,
           write[r].kind \in Asking /\ W!With(write[r], more).pc \in Planning => PlanOK(W!With(write[r], more))
    PROVE  Keeps
<1>1. CarriesOK(write[r])
  BY DEF WInv, WritesOK
<1>2. CarriesOK(W!With(write[r], more)) /\ W!With(write[r], more).kind = write[r].kind
  BY <1>1, WithCarries
<1>3. write' = [write EXCEPT ![r] = W!With(write[r], more)]
  BY DEF W!Goto, WInv, WritesOK
<1> QED  BY <1>2, <1>3, StillGoes

LEMMA StillEdit ==
    ASSUME WInv, Still, NEW r \in Requests, NEW more, W!Goto(r, more), "kind" \notin DOMAIN more, write[r].kind \in Editing,
           Carried(W!With(write[r], more)), W!With(write[r], more).pc = "commit" => Listed(W!With(write[r], more))
    PROVE  Keeps
<1>1. CarriesOK(write[r])
  BY DEF WInv, WritesOK
<1>2. CarriesOK(W!With(write[r], more))
  BY <1>1, EditCarries
<1>3. write' = [write EXCEPT ![r] = W!With(write[r], more)]
  BY DEF W!Goto, WInv, WritesOK
<1> QED  BY <1>2, <1>3, StillGoes

-----------------------------------------------------------------------------
(* The ids of pages, all of them numbers up to a last one.                  *)
LEMMA PagesFinite ==
    /\ Pages \subseteq Nat \ {0}
    /\ \A S \in SUBSET Pages : IsFiniteSet(S) /\ Cardinality(S) \in Nat
<1>1. Pages \subseteq Nat \ {0}
  BY DraftsAssumption DEF W!CreatesAssumption, W!PagesAssumption
<1>2. PICK top \in Pages : \A p \in Pages : p <= top
  BY DraftsAssumption DEF W!CreatesAssumption, W!PagesAssumption
<1>3. top \in Nat /\ Pages \in SUBSET Nat
  BY <1>1
<1>4. IsFiniteSet(Pages)
  BY <1>2, <1>3, FS_BoundedSetOfNaturals
<1>5. \A S \in SUBSET Pages : IsFiniteSet(S)
  BY <1>4, FS_Subset
<1> QED  BY <1>1, <1>5, FS_CardinalityType

(* A batch that changes rows ends a request, or takes it on.                *)
LEMMA Lands ==
    ASSUME WInv, NEW r \in Requests, NEW q, write' = [write EXCEPT ![r] = q], CarriesOK(q), q.kind \notin Editing,
           UNCHANGED kinds, Later, DraftsOK', VersionsOK', EditsStep, HistoryStep,
           write[r].kind \in W!Asks => PlansStep
    PROVE  Keeps
<1>1. WritesOK' /\ \A d \in Requests \ {r} : write'[d] = write[d]
  BY Goes DEF WInv
<1>2. PlansStep
  <2>1. CASE write[r].kind \in W!Asks  BY <2>1
  <2>2. CASE write[r].kind \notin W!Asks  BY <1>1, <2>2 DEF PlansStep
  <2> QED  BY <2>1, <2>2
<1> QED  BY <1>1, <1>2 DEF Keeps, WInv

LEMMA EndsIdle ==
    ASSUME WInv, NEW r \in Requests, W!Done(r)
    PROVE  write' = [write EXCEPT ![r] = W!Idle] /\ write'[r] = W!Idle
  BY DEF W!Done, WInv, WritesOK

(* An edit lands: a version for every text that is new, and nothing that    *)
(* was not read.                                                            *)
Shaped(r) ==
    /\ pages' = [p \in DOMAIN pages |-> pages'[p]]
    /\ \A p \in DOMAIN pages : /\ Fields \subseteq DOMAIN pages'[p]
                               /\ p \notin write[r].targets => pages'[p] = pages[p]
                               /\ pages'[p].text \in {edits + 1, pages[p].text} \cup {x.text : x \in W!History(p)}
Added(N) ==
    /\ versions' = versions \cup N /\ edits' = edits + 1
    /\ \E b \in Nat : \A x \in N : x.id \in Nat /\ W!NextId <= x.id /\ x.id <= b /\ x.mark = edits + 1
    /\ \A x, y \in N : x # y => x.id # y.id
Told(N) == \A p \in DOMAIN pages : pages'[p].text # pages[p].text => \E x \in N : x.page = p /\ x.text = pages'[p].text
LEMMA EditLands ==
    ASSUME WInv, NEW r \in Requests, W!Done(r), write[r].kind \in Editing, write[r].pc = "commit", W!Unchanged(write[r]),
           UNCHANGED <<born, kinds>>, Shaped(r), NEW N, Added(N), Told(N)
    PROVE  Keeps
<1>1. write' = [write EXCEPT ![r] = W!Idle] /\ write'[r] = W!Idle
  BY EndsIdle
<1>2. VersionsOK' /\ Later /\ N \cap versions = {}
  <2>1. PICK b \in Nat : \A x \in N : x.id \in Nat /\ W!NextId <= x.id /\ x.id <= b /\ x.mark = edits + 1
    BY DEF Added
  <2> QED  BY <2>1, VersionsGrow DEF WInv, Added
<1>3. DOMAIN pages' = DOMAIN pages
  BY DEF Shaped
<1>4. DraftsOK'
  BY <1>3 DEF WInv, DraftsOK, Shaped
<1>5. W!Commits(r)
  BY <1>1 DEF W!Commits
<1>6. allowed /\ \A p \in write[r].targets : write[r].saw[p] = pages[p].text /\ write[r].tags[p] = pages[p].tags
  <2>1. Carried(write[r])
    BY DEF WInv, WritesOK, CarriesOK
  <2>2. \A p \in write[r].targets : write[r].rows[p].text = write[r].saw[p]
    BY <2>1 DEF Carried
  <2>3. allowed /\ \A p \in write[r].targets : write[r].rows[p] = W!Row(p) /\ write[r].tags[p] = pages[p].tags
    BY DEF W!Unchanged
  <2>4. \A p : W!Row(p).text = pages[p].text
    BY DEF W!Row
  <2> QED  BY <2>2, <2>3, <2>4
<1>7. EditsStep
  <2> SUFFICES ASSUME NEW p \in DOMAIN pages
               PROVE  /\ pages'[p].text # pages[p].text =>
                             \E d \in Requests : W!Commits(d) /\ allowed /\ write[d].saw[p] = pages[p].text
                      /\ pages'[p].tags # pages[p].tags => \E d \in Requests : W!Commits(d) /\ allowed /\ write[d].tags[p] = pages[p].tags
                      /\ pages'[p].text \in {edits + 1, pages[p].text} \cup {x.text : x \in W!History(p)}
    BY DEF EditsStep
  <2>1. CASE p \in write[r].targets
    BY <1>5, <1>6, <2>1 DEF Shaped
  <2>2. CASE p \notin write[r].targets
    <3>1. pages'[p] = pages[p]  BY <2>2 DEF Shaped
    <3> QED  BY <3>1
  <2> QED  BY <2>1, <2>2
<1>8. HistoryStep
  BY <1>2, <1>3 DEF HistoryStep, VersionsOK, Told, Added
<1>9. write[r].kind \notin W!Asks
  BY DEF Editing, W!Asks
<1> QED  BY <1>1, <1>2, <1>4, <1>7, <1>8, <1>9, IdleCarries, Lands

LEMMA OneVersion ==
    ASSUME WInv, NEW p, NEW n
    PROVE  /\ W!Version(p, n).id = W!NextId /\ W!Version(p, n).mark = edits + 1
           /\ W!Version(p, n).page = p /\ W!Version(p, n).text = n /\ W!NextId \in Nat
<1>1. W!NextId \in Nat  BY NextIdIs DEF WInv
<1> QED  BY <1>1 DEF W!Version

LEMMA SaveKeeps ==
    ASSUME WInv, NEW r \in Requests, write[r].kind \in Editing, write[r].pc = "commit", W!Unchanged(write[r]), W!Done(r), W!Rest,
           edits' = edits + 1, W!Saved(write[r], edits + 1)
    PROVE  Keeps
<1>1. PICK p \in write[r].targets, name \in kinds.names, w \in Weights : \E tags \in {edits + 1, pages[p].tags} :
        /\ pages' = [pages EXCEPT ![p] = [text |-> edits + 1, tags |-> tags, weight |-> w, name |-> name, slug |-> write[r].slug]]
        /\ versions' = versions \cup {W!Version(p, edits + 1)} /\ UNCHANGED born
  BY DEF W!Saved
<1>2. PICK tags :
        /\ pages' = [pages EXCEPT ![p] = [text |-> edits + 1, tags |-> tags, weight |-> w, name |-> name, slug |-> write[r].slug]]
        /\ versions' = versions \cup {W!Version(p, edits + 1)} /\ UNCHANGED born
  BY <1>1
<1>3. PICK x : x = W!Version(p, edits + 1)  OBVIOUS
<1>4. x.id = W!NextId /\ x.mark = edits + 1 /\ x.page = p /\ x.text = edits + 1 /\ W!NextId \in Nat
  BY <1>3, OneVersion
<1>5. DOMAIN pages' = DOMAIN pages /\ pages' = [y \in DOMAIN pages |-> pages'[y]]
  BY <1>2 DEF WInv, DraftsOK
<1>6. p \in DOMAIN pages
  BY DEF W!Unchanged
<1>7. pages'[p] = [text |-> edits + 1, tags |-> tags, weight |-> w, name |-> name, slug |-> write[r].slug]
  BY <1>2, <1>6
<1>8. Fields \subseteq DOMAIN pages'[p] /\ pages'[p].text = edits + 1
  BY <1>7 DEF Fields
<1>9. \A y \in DOMAIN pages : y # p => pages'[y] = pages[y]
  BY <1>2
<1>10. Shaped(r)
  BY <1>5, <1>8, <1>9 DEF WInv, DraftsOK, Shaped
<1>11. Added({x})
  <2>1. \A z \in {x} : z.id \in Nat /\ W!NextId <= z.id /\ z.id <= W!NextId /\ z.mark = edits + 1
    BY <1>4
  <2> QED  BY <1>2, <1>3, <1>4, <2>1 DEF Added
<1>12. Told({x})
  BY <1>4, <1>8, <1>9 DEF Told
<1>13. UNCHANGED <<born, kinds>>
  BY <1>2 DEF W!Rest
<1> QED  BY <1>10, <1>11, <1>12, <1>13, EditLands

(* A batch that is refused changes nothing.                                 *)
LEMMA Refused ==
    ASSUME WInv, NEW r \in Requests, W!Done(r), W!Rest, UNCHANGED W!rows  PROVE Keeps
<1>1. Still  BY DEF W!Rest, W!rows, Still
<1> QED  BY <1>1, StillEnds

LEMMA SaveDraftKeeps ==
    ASSUME WInv, NEW r \in Requests, W!SaveDraftContent(r)  PROVE Keeps
<1>1. write[r].kind = "save" /\ write[r].pc = "commit" /\ W!Done(r) /\ W!Rest
  BY DEF W!SaveDraftContent, W!Commit
<1>2. CASE W!Unchanged(write[r])
  <2>1. W!Saved(write[r], edits + 1) /\ edits' = edits + 1
    BY <1>2 DEF W!SaveDraftContent, W!Commit
  <2> QED  BY <1>1, <1>2, <2>1, SaveKeeps DEF Editing
<1>3. CASE ~ W!Unchanged(write[r])
  <2>1. UNCHANGED W!rows
    BY <1>3 DEF W!SaveDraftContent, W!Commit
  <2> QED  BY <1>1, <2>1, Refused
<1> QED  BY <1>2, <1>3

LEMMA PatchKeeps ==
    ASSUME WInv, NEW r \in Requests, W!CommitPluginPageUpdates(r)  PROVE Keeps
<1> DEFINE may == W!Unchanged(write[r]) /\ W!FreeForPatch(write[r])
<1>1. write[r].kind = "patch" /\ write[r].pc = "commit" /\ W!Done(r) /\ W!Rest
  BY DEF W!CommitPluginPageUpdates, W!Commit
<1>2. CASE may
  <2>1. W!Saved(write[r], edits + 1) /\ edits' = edits + 1
    BY <1>2 DEF W!CommitPluginPageUpdates, W!Commit
  <2> QED  BY <1>1, <1>2, <2>1, SaveKeeps DEF Editing
<1>3. CASE ~ may
  <2>1. UNCHANGED W!rows
    BY <1>3 DEF W!CommitPluginPageUpdates, W!Commit
  <2> QED  BY <1>1, <2>1, Refused
<1> QED  BY <1>2, <1>3

LEMMA RevertKeeps ==
    ASSUME WInv, NEW r \in Requests, W!Revert(r)  PROVE Keeps
<1> DEFINE may == W!Unchanged(write[r]) /\ write[r].version \in versions
<1>1. write[r].kind = "revert" /\ write[r].pc = "commit" /\ W!Done(r) /\ W!Rest
  BY DEF W!Revert, W!Commit
<1>2. CASE may
  <2>1. PICK p \in write[r].targets :
            /\ pages' = [pages EXCEPT ![p].text = write[r].version.text, ![p].tags = write[r].tags[p]]
            /\ versions' = versions \cup {W!Version(p, write[r].version.text)} /\ UNCHANGED born
    BY <1>2 DEF W!Revert, W!Commit
  <2>2. edits' = edits + 1
    BY <1>2 DEF W!Revert, W!Commit
  <2>3. PICK t : t = write[r].version.text  OBVIOUS
  <2>4. PICK x : x = W!Version(p, t)  OBVIOUS
  <2>5. x.id = W!NextId /\ x.mark = edits + 1 /\ x.page = p /\ x.text = t /\ W!NextId \in Nat
    BY <2>4, OneVersion
  <2>6. p \in DOMAIN pages /\ Fields \subseteq DOMAIN pages[p]
    BY <1>2 DEF W!Unchanged, WInv, DraftsOK
  <2>7. DOMAIN pages' = DOMAIN pages /\ pages' = [y \in DOMAIN pages |-> pages'[y]]
    BY <2>1 DEF WInv, DraftsOK
  <2>8. /\ DOMAIN pages'[p] = DOMAIN pages[p] /\ pages'[p].text = t
        /\ \A y \in DOMAIN pages : y # p => pages'[y] = pages[y]
    BY <2>1, <2>3, <2>6 DEF Fields
  <2>9. t \in {z.text : z \in W!History(p)}
    <3>1. Carried(write[r])
      BY <1>1 DEF WInv, WritesOK, CarriesOK, Editing
    <3>2. write[r].targets = {p} /\ write[r].version.page \in write[r].targets
      BY <1>1, <3>1 DEF Carried
    <3>3. write[r].version \in W!History(p)
      BY <1>2, <3>2 DEF W!History
    <3> QED  BY <2>3, <3>3
  <2>10. Shaped(r)
    BY <2>6, <2>7, <2>8, <2>9 DEF Shaped, WInv, DraftsOK
  <2>11. Added({x})
    <3>1. \A z \in {x} : z.id \in Nat /\ W!NextId <= z.id /\ z.id <= W!NextId /\ z.mark = edits + 1
      BY <2>5
    <3> QED  BY <2>1, <2>2, <2>3, <2>4, <2>5, <3>1 DEF Added
  <2>12. Told({x})
    BY <2>5, <2>8 DEF Told
  <2>13. UNCHANGED <<born, kinds>>
    BY <1>1, <2>1 DEF W!Rest
  <2> QED  BY <1>1, <1>2, <2>10, <2>11, <2>12, <2>13, EditLands DEF Editing
<1>3. CASE ~ may
  <2>1. UNCHANGED W!rows
    BY <1>3 DEF W!Revert, W!Commit
  <2> QED  BY <1>1, <2>1, Refused
<1> QED  BY <1>2, <1>3

(* A removal: what goes had been listed, or has the id of one that was      *)
(* listed and has gone, and is later.                                       *)
LEMMA RemoveKeeps ==
    ASSUME WInv, NEW r \in Requests, W!RemoveDraftHistory(r)  PROVE Keeps
<1>1. write[r].kind = "remove" /\ write[r].pc = "commit" /\ W!Done(r) /\ W!Rest
  BY DEF W!RemoveDraftHistory, W!Commit
<1>2. CASE W!Unchanged(write[r])
  <2>1. versions' = versions \ W!Removed(write[r]) /\ UNCHANGED <<pages, born>> /\ edits' = edits + 1
    BY <1>2 DEF W!RemoveDraftHistory, W!Commit
  <2>2. VersionsOK' /\ Later
    BY <2>1, VersionsShrink DEF WInv
  <2>3. DraftsOK' /\ UNCHANGED kinds
    BY <1>1, <2>1 DEF WInv, DraftsOK, W!Rest
  <2>4. EditsStep
    BY <2>1 DEF EditsStep
  <2>5. write' = [write EXCEPT ![r] = W!Idle] /\ write'[r] = W!Idle
    BY <1>1, EndsIdle
  <2>6. W!Commits(r)
    BY <1>1, <2>5 DEF W!Commits
  <2>7. ASSUME NEW x \in versions \ versions'
        PROVE  \E w \in write[r].listed : w.page = x.page /\ w.id = x.id /\ (w = x \/ (w \notin versions /\ w.mark < x.mark))
    <3>1. Carried(write[r]) /\ Listed(write[r])
      BY <1>1 DEF WInv, WritesOK, CarriesOK, Editing
    <3>2. PICK p : write[r].targets = {p}
      BY <1>1, <3>1 DEF Carried
    <3>3. x \in W!History(p) /\ \E w \in write[r].listed : w.id = x.id
      BY <2>1, <2>7, <3>2 DEF W!Removed
    <3>4. PICK w \in write[r].listed : w.id = x.id
      BY <3>3
    <3>5. w.page = p /\ (x = w \/ w.mark < x.mark) /\ x.page = p
      BY <2>7, <3>1, <3>2, <3>3, <3>4 DEF Listed, W!History
    <3>6. w \in versions => w = x
      BY <2>7, <3>4 DEF WInv, VersionsOK
    <3> QED  BY <3>4, <3>5, <3>6
  <2>8. HistoryStep
    BY <2>1, <2>2, <2>6, <2>7 DEF HistoryStep, VersionsOK
  <2>9. write[r].kind \notin W!Asks
    BY <1>1 DEF W!Asks
  <2> QED  BY <2>2, <2>3, <2>4, <2>5, <2>8, <2>9, IdleCarries, Lands
<1>3. CASE ~ W!Unchanged(write[r])
  <2>1. UNCHANGED W!rows
    BY <1>3 DEF W!RemoveDraftHistory, W!Commit
  <2> QED  BY <1>1, <2>1, Refused
<1> QED  BY <1>2, <1>3

(* The place of a page in a slice: no two have the same.                    *)
LEMMA PlaceIs ==
    ASSUME NEW S \in SUBSET Pages, NEW p \in Pages
    PROVE  /\ Cardinality({x \in S : x < p}) \in Nat /\ Cardinality({x \in S : x < p}) <= Cardinality(S)
           /\ \A n \in S : p < n => Cardinality({x \in S : x < p}) # Cardinality({x \in S : x < n}) \/ p \notin S
<1> DEFINE below(n) == {x \in S : x < n}
<1>1. IsFiniteSet(S) /\ \A n : below(n) \in SUBSET S /\ IsFiniteSet(below(n)) /\ Cardinality(below(n)) \in Nat
  <2>1. \A n : below(n) \in SUBSET S /\ below(n) \in SUBSET Pages
    OBVIOUS
  <2> HIDE DEF below
  <2> QED  BY <2>1, PagesFinite
<1>2. Cardinality(below(p)) <= Cardinality(S)
  <2>1. below(p) \in SUBSET S  BY <1>1
  <2> HIDE DEF below
  <2> QED  BY <1>1, <2>1, FS_Subset
<1>3. ASSUME NEW n \in S, p < n, p \in S  PROVE Cardinality(below(p)) # Cardinality(below(n))
  <2>1. (\A x \in S : x \in Nat) /\ p \in Nat /\ n \in Nat
    <3>1. \A x \in Pages : x \in Nat
      BY PagesFinite
    <3> QED  BY <1>3, <3>1
  <2>2. \A x \in S : x < p => x < n
    BY <1>3, <2>1
  <2>3. below(p) \in SUBSET below(n)
    BY <2>2
  <2>4. p \in below(n) /\ p \notin below(p)
    BY <1>3, <2>1
  <2>5. IsFiniteSet(below(n))
    BY <1>1
  <2> HIDE DEF below
  <2> QED  BY <2>3, <2>4, <2>5, FS_Subset
<1> QED  BY <1>1, <1>2, <1>3

LEMMA CardinalityIs == \A S : W!Cardinality(S) = Cardinality(S)
  BY DEF W!Cardinality, Cardinality, W!IsFiniteSet, IsFiniteSet

LEMMA ReplaceKeeps ==
    ASSUME WInv, NEW r \in Requests, W!Replace(r)  PROVE Keeps
<1> DEFINE Place(p) == Cardinality({x \in write[r].targets : x < p})
           NewOne(p) == [W!Version(p, edits + 1) EXCEPT !.id = @ + Place(p)]
           N == {NewOne(p) : p \in write[r].targets}
<1>1. write[r].kind = "replace" /\ write[r].pc = "commit" /\ W!Done(r) /\ W!Rest
  BY DEF W!Replace, W!Commit
<1>2. CASE W!Unchanged(write[r])
  <2>1. /\ pages' = [p \in DOMAIN pages |-> IF p \in write[r].targets THEN [pages[p] EXCEPT !.text = edits + 1] ELSE pages[p]]
        /\ versions' = versions \cup N /\ UNCHANGED born /\ edits' = edits + 1
    <3>1. /\ pages' = [p \in DOMAIN pages |-> IF p \in write[r].targets THEN [pages[p] EXCEPT !.text = edits + 1] ELSE pages[p]]
          /\ UNCHANGED born /\ edits' = edits + 1
      BY <1>2 DEF W!Replace, W!Commit
    <3>2. versions' = versions \cup N
      BY <1>2, CardinalityIs DEF W!Replace, W!Commit
    <3> QED  BY <3>1, <3>2
  <2>2. write[r].targets \in SUBSET Pages /\ write[r].targets \subseteq DOMAIN pages
    <3>1. Carried(write[r])
      BY <1>1 DEF WInv, WritesOK, CarriesOK, Editing
    <3> QED  BY <1>2, <3>1 DEF Carried, W!Unchanged
  <2>3. W!NextId \in Nat
    BY NextIdIs DEF WInv
  <2>4. ASSUME NEW p \in write[r].targets
        PROVE  /\ NewOne(p).page = p /\ NewOne(p).text = edits + 1 /\ NewOne(p).mark = edits + 1
               /\ NewOne(p).id = W!NextId + Place(p)
    BY DEF W!Version
  <2>5. PICK b : b = Cardinality(write[r].targets)  OBVIOUS
  <2>6. b \in Nat
    BY <2>2, <2>5, PagesFinite
  <2>7. ASSUME NEW p \in write[r].targets  PROVE Place(p) \in Nat /\ Place(p) <= b
    BY <2>2, <2>5, PlaceIs
  <2>8. ASSUME NEW p \in write[r].targets, NEW n \in write[r].targets, p # n  PROVE Place(p) # Place(n)
    <3>1. p \in Nat /\ n \in Nat
      BY <2>2, PagesFinite
    <3>2. p < n \/ n < p
      BY <2>8, <3>1
    <3>3. p \in Pages /\ n \in Pages
      BY <2>2
    <3> QED  BY <2>2, <3>2, <3>3, PlaceIs
  <2> HIDE DEF Place, NewOne
  <2>9. Added(N)
    <3>1. \A x \in N : x.id \in Nat /\ W!NextId <= x.id /\ x.id <= W!NextId + b /\ x.mark = edits + 1
      <4> SUFFICES ASSUME NEW p \in write[r].targets
                   PROVE  NewOne(p).id \in Nat /\ W!NextId <= NewOne(p).id /\ NewOne(p).id <= W!NextId + b /\ NewOne(p).mark = edits + 1
        OBVIOUS
      <4>1. NewOne(p).id = W!NextId + Place(p) /\ NewOne(p).mark = edits + 1
        BY <2>4
      <4> QED  BY <2>3, <2>6, <2>7, <4>1
    <3>2. \A x, y \in N : x # y => x.id # y.id
      <4> SUFFICES ASSUME NEW p \in write[r].targets, NEW n \in write[r].targets, NewOne(p) # NewOne(n)
                   PROVE  NewOne(p).id # NewOne(n).id
        OBVIOUS
      <4>1. p # n  OBVIOUS
      <4>2. Place(p) \in Nat /\ Place(n) \in Nat /\ Place(p) # Place(n)
        BY <2>7, <2>8, <4>1
      <4> QED  BY <2>3, <2>4, <4>2
    <3>3. W!NextId + b \in Nat
      BY <2>3, <2>6
    <3> QED  BY <2>1, <3>1, <3>2, <3>3 DEF Added
  <2>10. \A p \in DOMAIN pages : /\ p \in write[r].targets => DOMAIN pages'[p] = DOMAIN pages[p] /\ pages'[p].text = edits + 1
                                 /\ p \notin write[r].targets => pages'[p] = pages[p]
    BY <2>1 DEF WInv, DraftsOK, Fields
  <2>11. Shaped(r)
    BY <2>1, <2>10 DEF Shaped, WInv, DraftsOK
  <2>12. Told(N)
    <3> SUFFICES ASSUME NEW p \in DOMAIN pages, pages'[p].text # pages[p].text
                 PROVE  \E x \in N : x.page = p /\ x.text = pages'[p].text
      BY DEF Told
    <3>1. p \in write[r].targets /\ pages'[p].text = edits + 1
      BY <2>10
    <3>2. NewOne(p) \in N /\ NewOne(p).page = p /\ NewOne(p).text = edits + 1
      BY <2>4, <3>1
    <3> QED  BY <3>1, <3>2
  <2>13. UNCHANGED <<born, kinds>>
    BY <1>1, <2>1 DEF W!Rest
  <2> HIDE DEF N
  <2> QED  BY <1>1, <1>2, <2>9, <2>11, <2>12, <2>13, EditLands DEF Editing
<1>3. CASE ~ W!Unchanged(write[r])
  <2>1. UNCHANGED W!rows
    BY <1>3 DEF W!Replace, W!Commit
  <2> QED  BY <1>1, <2>1, Refused
<1> QED  BY <1>2, <1>3

LEMMA TagsKeep ==
    ASSUME WInv, NEW r \in Requests, W!ChangeTags(r)  PROVE Keeps
<1>1. write[r].kind = "tag" /\ write[r].pc = "commit" /\ W!Done(r) /\ W!Rest
  BY DEF W!ChangeTags, W!Commit
<1>2. CASE W!Unchanged(write[r])
  <2>1. /\ pages' = [p \in DOMAIN pages |-> IF p \in write[r].targets THEN [pages[p] EXCEPT !.tags = edits + 1] ELSE pages[p]]
        /\ UNCHANGED <<versions, born>> /\ edits' = edits + 1
    BY <1>2 DEF W!ChangeTags, W!Commit
  <2>2. \A p \in DOMAIN pages : /\ DOMAIN pages'[p] = DOMAIN pages[p] /\ pages'[p].text = pages[p].text
                                /\ p \notin write[r].targets => pages'[p] = pages[p]
    BY <2>1 DEF WInv, DraftsOK, Fields
  <2>3. Shaped(r)
    BY <2>1, <2>2 DEF Shaped, WInv, DraftsOK
  <2>4. Added({}) /\ Told({})
    <3>1. versions' = versions \cup {}
      BY <2>1
    <3> QED  BY <2>1, <2>2, <3>1 DEF Added, Told
  <2>5. UNCHANGED <<born, kinds>>
    BY <1>1, <2>1 DEF W!Rest
  <2> QED  BY <1>1, <1>2, <2>3, <2>4, <2>5, EditLands DEF Editing
<1>3. CASE ~ W!Unchanged(write[r])
  <2>1. UNCHANGED W!rows
    BY <1>3 DEF W!ChangeTags, W!Commit
  <2> QED  BY <1>1, <2>1, Refused
<1> QED  BY <1>2, <1>3

(* A page is made, with its first version.                                  *)
LEMMA CreatedIs ==
    ASSUME WInv, NEW p \in W!Fresh, NEW slug, W!Created(p, edits + 1, slug), edits' = edits + 1
    PROVE  Later /\ DraftsOK' /\ VersionsOK' /\ EditsStep /\ HistoryStep
<1>1. PICK row : /\ row.text = edits + 1 /\ Fields \subseteq DOMAIN row
                 /\ pages' = W!With(pages, [x \in {p} |-> row])
                 /\ versions' = versions \cup {W!Version(p, edits + 1)} /\ born' = born \cup {p}
  BY DEF W!Created, Fields
<1>2. p \in Pages /\ p \notin born /\ p \notin DOMAIN pages
  BY DEF W!Fresh, WInv, DraftsOK
<1>3. PICK x : x = W!Version(p, edits + 1)  OBVIOUS
<1>4. x.id = W!NextId /\ x.mark = edits + 1 /\ x.page = p /\ x.text = edits + 1 /\ W!NextId \in Nat
  BY <1>3, OneVersion
<1>5. VersionsOK' /\ Later /\ {x} \cap versions = {}
  <2>1. \A z \in {x} : z.id \in Nat /\ W!NextId <= z.id /\ z.id <= W!NextId /\ z.mark = edits + 1
    BY <1>4
  <2>2. versions' = versions \cup {x} /\ \A z, y \in {x} : z # y => z.id # y.id
    BY <1>1, <1>3
  <2> QED  BY <1>4, <2>1, <2>2, VersionsGrow DEF WInv
<1>6. PICK g : g = [y \in {p} |-> row]  OBVIOUS
<1>7. DOMAIN g = {p} /\ g[p] = row /\ pages' = W!With(pages, g)
  BY <1>1, <1>6
<1>8. /\ DOMAIN pages' = DOMAIN pages \cup {p} /\ pages'[p] = row
      /\ \A y \in DOMAIN pages : pages'[y] = pages[y]
      /\ pages' = [y \in DOMAIN pages' |-> pages'[y]]
  <2> DEFINE n == W!With(pages, g)
  <2>1. DOMAIN n = DOMAIN pages \cup DOMAIN g /\ \A y \in DOMAIN g : n[y] = g[y]
    BY DEF W!With
  <2>2. \A y \in DOMAIN pages : y \notin DOMAIN g => n[y] = pages[y]
    BY ONLY WithIs
  <2>3. n = [y \in DOMAIN n |-> n[y]]
    BY ONLY WithIs
  <2> HIDE DEF n
  <2>4. pages' = n
    BY <1>7 DEF n
  <2> QED  BY <1>2, <1>7, <2>1, <2>2, <2>3, <2>4
<1>9. DraftsOK'
  BY <1>1, <1>2, <1>8 DEF WInv, DraftsOK
<1>10. EditsStep
  BY <1>8 DEF EditsStep
<1>11. HistoryStep
  <2>1. \A y \in DOMAIN pages' : (y \notin DOMAIN pages \/ pages'[y].text # pages[y].text) => y = p
    BY <1>8
  <2>2. x \in versions' \ versions /\ x.page = p /\ x.text = pages'[p].text
    BY <1>1, <1>3, <1>4, <1>5, <1>8
  <2>3. versions \subseteq versions'
    BY <1>1
  <2> QED  BY <1>5, <2>1, <2>2, <2>3 DEF HistoryStep, VersionsOK
<1> QED  BY <1>5, <1>9, <1>10, <1>11

LEMMA CreateKeeps ==
    ASSUME WInv, NEW r \in Requests, W!Create(r)  PROVE Keeps
<1>1. PICK p \in W!Fresh : W!Commit(r, {"create"}, W!Unchanged(write[r]), W!Created(p, edits + 1, write[r].slug))
  BY DEF W!Create
<1>2. write[r].kind = "create" /\ write[r].pc = "commit" /\ W!Done(r) /\ W!Rest
  BY <1>1 DEF W!Commit
<1>3. CASE W!Unchanged(write[r])
  <2>1. W!Created(p, edits + 1, write[r].slug) /\ edits' = edits + 1
    BY <1>1, <1>3 DEF W!Commit
  <2>2. Later /\ DraftsOK' /\ VersionsOK' /\ EditsStep /\ HistoryStep
    BY <2>1, CreatedIs
  <2>3. write' = [write EXCEPT ![r] = W!Idle] /\ UNCHANGED kinds
    BY <1>2, EndsIdle DEF W!Rest
  <2>4. write[r].kind \notin W!Asks
    BY <1>2 DEF W!Asks
  <2> QED  BY <2>2, <2>3, <2>4, IdleCarries, Lands
<1>4. CASE ~ W!Unchanged(write[r])
  <2>1. UNCHANGED W!rows
    BY <1>1, <1>4 DEF W!Commit
  <2> QED  BY <1>2, <2>1, Refused
<1> QED  BY <1>3, <1>4

LEMMA WeightsKeep ==
    ASSUME WInv, NEW r \in Requests, W!UpdateWeights(r)  PROVE Keeps
<1>1. write[r].kind \in {"weight", "reorder"} /\ write[r].pc = "commit" /\ W!Done(r) /\ W!Rest
  BY DEF W!UpdateWeights, W!Commit
<1>2. CASE W!SameSequence(write[r])
  <2>1. /\ pages' = [p \in DOMAIN pages |->
                       IF p \in DOMAIN write[r].weights THEN [pages[p] EXCEPT !.weight = write[r].weights[p]] ELSE pages[p]]
        /\ UNCHANGED <<versions, born>> /\ edits' = edits + 1
    BY <1>2 DEF W!UpdateWeights, W!Commit
  <2>2. /\ DOMAIN pages' = DOMAIN pages
        /\ \A p \in DOMAIN pages : DOMAIN pages'[p] = DOMAIN pages[p] /\ pages'[p].text = pages[p].text /\ pages'[p].tags = pages[p].tags
    BY <2>1 DEF WInv, DraftsOK, Fields
  <2>3. DraftsOK'
    BY <2>1, <2>2 DEF WInv, DraftsOK
  <2>4. VersionsOK' /\ Later
    BY <2>1, VersionsShrink DEF WInv
  <2>5. EditsStep
    BY <2>2 DEF EditsStep
  <2>6. HistoryStep
    BY <2>1, <2>2, <2>4 DEF HistoryStep, VersionsOK
  <2>7. write' = [write EXCEPT ![r] = W!Idle] /\ UNCHANGED kinds
    BY <1>1, EndsIdle DEF W!Rest
  <2>8. write[r].kind \notin W!Asks
    BY <1>1 DEF W!Asks
  <2> QED  BY <2>3, <2>4, <2>5, <2>6, <2>7, <2>8, IdleCarries, Lands
<1>3. CASE ~ W!SameSequence(write[r])
  <2>1. UNCHANGED W!rows
    BY <1>3 DEF W!UpdateWeights, W!Commit
  <2> QED  BY <1>1, <2>1, Refused
<1> QED  BY <1>2, <1>3

(* No request moves.                                                        *)
LEMMA WritesStand ==
    ASSUME WInv, Later, UNCHANGED write  PROVE WritesOK'
<1>1. \A d \in Requests : CarriesOK(write'[d])
  BY DEF WInv, WritesOK
<1>2. (\A d \in Requests : CarriesOK(write[d]))'
  BY <1>1 DEF CarriesOK, Carried, PlanOK
<1>3. ASSUME NEW d \in Requests, write'[d].kind \in Editing, write'[d].pc = "commit"  PROVE Listed(write[d])'
  <2>1. PICK q : q = write[d]  OBVIOUS
  <2>2. Listed(q)'
    BY <1>3, <2>1, ListedStays DEF WInv, WritesOK
  <2> QED  BY <2>1, <2>2 DEF Listed
<1> QED  BY <1>2, <1>3 DEF WInv, WritesOK

LEMMA TrashKeeps ==
    ASSUME WInv, W!Trash  PROVE Keeps
<1>1. PICK p \in DOMAIN pages : pages' = [x \in DOMAIN pages \ {p} |-> pages[x]] /\ versions' = versions \ W!History(p)
  BY DEF W!Trash
<1>2. UNCHANGED <<born, edits, write, kinds>>
  BY DEF W!Trash, W!Rest
<1>3. VersionsOK' /\ Later
  BY <1>1, <1>2, VersionsShrink DEF WInv
<1>4. WritesOK'
  BY <1>2, <1>3, WritesStand
<1>5. DOMAIN pages' = DOMAIN pages \ {p} /\ \A x \in DOMAIN pages' : pages'[x] = pages[x]
  BY <1>1
<1>6. DraftsOK'
  BY <1>1, <1>2, <1>5 DEF WInv, DraftsOK
<1>7. EditsStep
  BY <1>5 DEF EditsStep
<1>8. HistoryStep
  BY <1>1, <1>3, <1>5 DEF HistoryStep, VersionsOK, W!History
<1>9. PlansStep
  BY <1>2 DEF PlansStep
<1> QED  BY <1>2, <1>3, <1>4, <1>6, <1>7, <1>8, <1>9 DEF Keeps, WInv

LEMMA StandStill ==
    ASSUME WInv, Still, UNCHANGED write  PROVE Keeps
  BY StillLater, WritesStand, StillKeeps

-----------------------------------------------------------------------------
(* Starting, reading and preparing change no draft.                         *)
LEMMA BeginKeeps ==
    ASSUME WInv, NEW r \in Requests, NEW q, W!Begin(r, q), UNCHANGED W!rows, W!Rest, CarriesOK(q), q.pc # "commit"
    PROVE  Keeps
<1>1. write' = [write EXCEPT ![r] = q]
  BY DEF W!Begin
<1>2. Still
  BY DEF W!Rest, W!rows, Still
<1> QED  BY <1>1, <1>2, StillGoes

LEMMA StartKeeps ==
    ASSUME WInv, NEW r \in Requests, NEW kind \in Editing, W!Start(r, kind)  PROVE Keeps
<1>1. PICK P \in SUBSET DOMAIN pages :
        /\ IF kind \in W!Slice THEN P # {} ELSE W!Cardinality(P) = 1
        /\ W!Begin(r, [kind |-> kind, pc |-> "row", targets |-> P,
                       saw |-> IF kind = "patch" THEN [p \in P |-> pages[p].text] ELSE << >>])
  BY DEF W!Start
<1>2. PICK q : q = [kind |-> kind, pc |-> "row", targets |-> P,
                    saw |-> IF kind = "patch" THEN [p \in P |-> pages[p].text] ELSE << >>]
  OBVIOUS
<1>3. DOMAIN q = {"kind", "pc", "targets", "saw"} /\ q.kind = kind /\ q.pc = "row" /\ q.targets = P
  BY <1>2
<1>4. P \in SUBSET Pages
  BY DEF WInv, DraftsOK
<1>5. kind \notin {"replace", "tag"} => \E p : P = {p}
  <2>1. IsFiniteSet(P)
    BY <1>4, PagesFinite
  <2> QED  BY <1>1, <2>1, CardinalityIs, FS_Singleton DEF W!Slice
<1>6. CarriesOK(q)
  BY <1>3, <1>4, <1>5 DEF CarriesOK, Carried, Editing, Asking
<1>7. W!Begin(r, q) /\ UNCHANGED W!rows /\ W!Rest
  BY <1>1, <1>2 DEF W!Start
<1> QED  BY <1>3, <1>6, <1>7, BeginKeeps

\* What a step adds to an edit leaves what it is about.
LEMMA ReadCarries ==
    ASSUME NEW q, q.kind \in Editing, {"targets", "saw"} \subseteq DOMAIN q, q.targets \subseteq Pages, "kind" \in DOMAIN q, "pc" \in DOMAIN q,
           q.kind \notin {"replace", "tag"} => \E p : q.targets = {p},
           NEW more, {"kind", "targets"} \cap DOMAIN more = {}, "rows" \in DOMAIN more, "pc" \in DOMAIN more, more.pc = "prepare",
           \A p \in q.targets : more.rows[p].text = IF "saw" \in DOMAIN more THEN more.saw[p] ELSE q.saw[p],
           q.kind = "revert" => "version" \in DOMAIN more /\ more.version.page \in q.targets
    PROVE  Carried(W!With(q, more)) /\ W!With(q, more).pc = "prepare"
<1> DEFINE n == W!With(q, more)
<1>1. DOMAIN n = DOMAIN q \cup DOMAIN more /\ \A x \in DOMAIN more : n[x] = more[x]
  BY DEF W!With
<1>2. \A x \in DOMAIN q : x \notin DOMAIN more => n[x] = q[x]
  BY ONLY WithIs
<1> HIDE DEF n
<1>3. {"kind", "pc", "targets", "saw", "rows"} \subseteq DOMAIN n
  BY <1>1
<1>4. n.kind = q.kind /\ n.targets = q.targets
  BY <1>2
<1>5. n.pc = "prepare" /\ n.rows = more.rows
  BY <1>1
<1>6. n.saw = IF "saw" \in DOMAIN more THEN more.saw ELSE q.saw
  BY <1>1, <1>2
<1>7. q.kind = "revert" => "version" \in DOMAIN n /\ n.version = more.version
  BY <1>1
<1>8. \A p \in n.targets : n.rows[p].text = n.saw[p]
  BY <1>4, <1>5, <1>6
<1>9. Carried(n)
  BY <1>3, <1>4, <1>5, <1>7, <1>8 DEF Carried
<1> QED  BY <1>5, <1>9 DEF n

LEMMA EditReads ==
    ASSUME WInv, Still, NEW r \in Requests, write[r].kind \in Editing, NEW more, W!Goto(r, more),
           {"kind", "targets"} \cap DOMAIN more = {}, "rows" \in DOMAIN more, "pc" \in DOMAIN more, more.pc = "prepare",
           \A p \in write[r].targets : more.rows[p].text = IF "saw" \in DOMAIN more THEN more.saw[p] ELSE write[r].saw[p],
           write[r].kind = "revert" => "version" \in DOMAIN more /\ more.version.page \in write[r].targets
    PROVE  Keeps
<1>1. CarriesOK(write[r]) /\ Carried(write[r])
  BY DEF WInv, WritesOK, CarriesOK
<1>2. PICK q : q = write[r]  OBVIOUS
<1>3. Carried(W!With(q, more)) /\ W!With(q, more).pc = "prepare"
  <2>1. {"kind", "pc", "targets", "saw"} \subseteq DOMAIN q /\ q.targets \subseteq Pages /\ q.kind \in Editing
    BY <1>1, <1>2 DEF Carried, CarriesOK
  <2>2. q.kind \notin {"replace", "tag"} => \E p : q.targets = {p}
    BY <1>1, <1>2 DEF Carried
  <2>3. /\ \A p \in q.targets : more.rows[p].text = IF "saw" \in DOMAIN more THEN more.saw[p] ELSE q.saw[p]
        /\ q.kind = "revert" => "version" \in DOMAIN more /\ more.version.page \in q.targets
    BY <1>2
  <2> QED  BY <2>1, <2>2, <2>3, ReadCarries
<1> QED  BY <1>2, <1>3, StillEdit

LEMMA ReadRowsKeeps ==
    ASSUME WInv, NEW r \in Requests, W!ReadRows(r)  PROVE Keeps
<1> DEFINE P == write[r].targets
           read == [pc |-> "prepare", rows |-> [p \in P |-> W!Row(p)], tags |-> [p \in P |-> pages[p].tags],
                    saw |-> [p \in P |-> pages[p].text]]
<1>1. write[r].kind \in W!Forms \cup W!Slice /\ UNCHANGED W!rows /\ W!Rest
  BY DEF W!ReadRows
<1>2. Still /\ write[r].kind \in Editing
  BY <1>1 DEF W!rows, W!Rest, Still, W!Forms, W!Slice, Editing
<1>3. CASE ~ P \subseteq DOMAIN pages
  <2>1. W!Done(r)
    BY <1>3 DEF W!ReadRows
  <2> QED  BY <1>2, <2>1, StillEnds
<1>4. CASE P \subseteq DOMAIN pages
  <2>1. \/ write[r].kind = "revert" /\ \E x \in UNION {W!History(p) : p \in P} : W!Goto(r, W!With(read, [version |-> x]))
        \/ write[r].kind = "remove" /\ \E which : W!Goto(r, W!With(read, [which |-> which]))
        \/ write[r].kind # "revert" /\ W!Goto(r, read)
    BY <1>4 DEF W!ReadRows
  <2>2. PICK more : /\ W!Goto(r, more)
                    /\ \/ write[r].kind # "revert" /\ more = read
                       \/ write[r].kind # "revert" /\ \E which : more = W!With(read, [which |-> which])
                       \/ \E x \in UNION {W!History(p) : p \in P} : more = W!With(read, [version |-> x])
    <3>1. CASE write[r].kind = "revert" /\ \E x \in UNION {W!History(p) : p \in P} : W!Goto(r, W!With(read, [version |-> x]))
      BY <3>1
    <3>2. CASE write[r].kind = "remove" /\ \E which : W!Goto(r, W!With(read, [which |-> which]))
      BY <3>2
    <3>3. CASE write[r].kind # "revert" /\ W!Goto(r, read)
      BY <3>3
    <3> QED  BY <2>1, <3>1, <3>2, <3>3
  <2>3. PICK rd : rd = read  OBVIOUS
  <2>4. /\ DOMAIN rd = {"pc", "rows", "tags", "saw"} /\ rd.pc = "prepare"
        /\ \A p \in P : rd.rows[p].text = rd.saw[p]
    BY <2>3 DEF W!Row
  <2>5. /\ {"kind", "targets"} \cap DOMAIN more = {} /\ {"rows", "pc", "saw"} \subseteq DOMAIN more
        /\ more.pc = rd.pc /\ more.rows = rd.rows /\ more.saw = rd.saw
        /\ write[r].kind = "revert" => "version" \in DOMAIN more /\ more.version.page \in P
    <3>1. CASE write[r].kind # "revert" /\ more = rd
      BY <2>4, <3>1
    <3>2. CASE write[r].kind # "revert" /\ \E which : more = W!With(rd, [which |-> which])
      <4>1. PICK which : more = W!With(rd, [which |-> which])  BY <3>2
      <4>2. PICK g : g = [which |-> which]  OBVIOUS
      <4>3. DOMAIN g = {"which"} /\ more = W!With(rd, g)  BY <4>1, <4>2
      <4>4. DOMAIN more = DOMAIN rd \cup DOMAIN g  BY <4>3, WithIs
      <4>5. \A x \in DOMAIN rd : x \notin DOMAIN g => more[x] = rd[x]  BY <4>3 DEF W!With
      <4> QED  BY <2>4, <3>2, <4>3, <4>4, <4>5
    <3>3. CASE \E x \in UNION {W!History(p) : p \in P} : more = W!With(rd, [version |-> x])
      <4>1. PICK x \in UNION {W!History(p) : p \in P} : more = W!With(rd, [version |-> x])  BY <3>3
      <4>2. PICK g : g = [version |-> x]  OBVIOUS
      <4>3. DOMAIN g = {"version"} /\ more = W!With(rd, g) /\ g.version = x  BY <4>1, <4>2
      <4>4. DOMAIN more = DOMAIN rd \cup DOMAIN g /\ \A y \in DOMAIN g : more[y] = g[y]  BY <4>3 DEF W!With
      <4>5. \A y \in DOMAIN rd : y \notin DOMAIN g => more[y] = rd[y]  BY <4>3 DEF W!With
      <4>6. x.page \in P  BY <4>1 DEF W!History
      <4>7. more.version = x /\ "version" \in DOMAIN more  BY <4>3, <4>4
      <4>8. {"kind", "targets"} \cap DOMAIN more = {} /\ {"rows", "pc", "saw"} \subseteq DOMAIN more
        BY <2>4, <4>3, <4>4
      <4>9. more.pc = rd.pc /\ more.rows = rd.rows /\ more.saw = rd.saw
        BY <2>4, <4>3, <4>5
      <4> QED  BY <4>6, <4>7, <4>8, <4>9
    <3> QED  BY <2>2, <2>3, <3>1, <3>2, <3>3
  <2>6. more.pc = "prepare" /\ \A p \in write[r].targets : more.rows[p].text = more.saw[p]
    BY <2>4, <2>5
  <2> QED  BY <1>2, <2>2, <2>5, <2>6, EditReads
<1> QED  BY <1>3, <1>4

LEMMA ReadPatchKeeps ==
    ASSUME WInv, NEW r \in Requests, W!ReadPatch(r)  PROVE Keeps
<1> DEFINE P == write[r].targets
           may == P \subseteq DOMAIN pages /\ \A p \in P : pages[p].text = write[r].saw[p]
<1>1. write[r].kind = "patch" /\ UNCHANGED W!rows /\ W!Rest
  BY DEF W!ReadPatch, W!At
<1>2. Still /\ write[r].kind \in Editing
  BY <1>1 DEF W!rows, W!Rest, Still, Editing
<1>3. CASE ~ may
  <2>1. W!Done(r)
    BY <1>3 DEF W!ReadPatch
  <2> QED  BY <1>2, <2>1, StillEnds
<1>4. CASE may
  <2>1. W!Goto(r, [pc |-> "prepare", rows |-> [p \in P |-> W!Row(p)]])
    BY <1>4 DEF W!ReadPatch
  <2>2. PICK more : more = [pc |-> "prepare", rows |-> [p \in P |-> W!Row(p)]]  OBVIOUS
  <2>3. DOMAIN more = {"pc", "rows"} /\ more.pc = "prepare" /\ \A p \in P : more.rows[p].text = write[r].saw[p]
    BY <1>4, <2>2 DEF W!Row
  <2> QED  BY <1>1, <1>2, <2>1, <2>2, <2>3, EditReads
<1> QED  BY <1>3, <1>4

LEMMA PrepareKeeps ==
    ASSUME WInv, NEW r \in Requests, W!Prepare(r)  PROVE Keeps
<1> DEFINE P == write[r].targets
<1>1. write[r].kind \in W!Forms \cup W!Slice \cup {"patch"} /\ write[r].pc = "prepare" /\ UNCHANGED W!rows /\ W!Rest
  BY DEF W!Prepare
<1>2. Still /\ write[r].kind \in Editing
  BY <1>1 DEF W!rows, W!Rest, Still, W!Forms, W!Slice, Editing
<1>3. W!Done(r) \/ \E more : /\ W!Goto(r, more) /\ DOMAIN more = {"pc", "ids", "tags", "slug", "listed"} /\ more.pc = "commit"
                              /\ more.listed \subseteq {x \in versions : x.page \in P}
  <2> DEFINE ids == {x.id : x \in UNION {W!History(p) : p \in P}}
             tags == [p \in P |-> IF p \in DOMAIN pages THEN pages[p].tags ELSE 0]
             listed == IF write[r].kind # "remove" \/ write[r].which = 0 THEN ids ELSE ids \cap {write[r].which}
             L == {x \in versions : x.page \in P /\ x.id \in listed}
             may == allowed /\ (write[r].kind = "tag" => tags = write[r].tags) /\ (write[r].kind = "remove" => listed # {})
  <2>1. IF may
        THEN \E slug \in IF write[r].kind \in {"save", "patch"} THEN {W!FreeSlug(p) : p \in P} ELSE {0} :
                 W!Goto(r, [pc |-> "commit", ids |-> ids, tags |-> tags, slug |-> slug, listed |-> L])
        ELSE W!Done(r)
    BY DEF W!Prepare
  <2>2. L \in SUBSET {x \in versions : x.page \in P}
    OBVIOUS
  <2> HIDE DEF ids, tags, listed, L, may
  <2>3. CASE may
    <3>1. PICK slug : W!Goto(r, [pc |-> "commit", ids |-> ids, tags |-> tags, slug |-> slug, listed |-> L])
      BY <2>1, <2>3
    <3>2. PICK more : more = [pc |-> "commit", ids |-> ids, tags |-> tags, slug |-> slug, listed |-> L]  OBVIOUS
    <3>3. DOMAIN more = {"pc", "ids", "tags", "slug", "listed"} /\ more.pc = "commit" /\ more.listed = L
      BY <3>2
    <3> QED  BY <2>2, <3>1, <3>2, <3>3
  <2>4. CASE ~ may  BY <2>1, <2>4
  <2> QED  BY <2>3, <2>4
<1>4. CASE W!Done(r)  BY <1>2, <1>4, StillEnds
<1>5. ASSUME NEW more, W!Goto(r, more), DOMAIN more = {"pc", "ids", "tags", "slug", "listed"}, more.pc = "commit",
             more.listed \subseteq {x \in versions : x.page \in P}
      PROVE  Keeps
  <2>1. PICK L : L = more.listed  OBVIOUS
  <2>4. PICK q : q = write[r]  OBVIOUS
  <2>5. Carried(q) /\ CarriesOK(q) /\ q.kind \in Editing /\ q.pc = "prepare" /\ q.targets = P
    BY <1>1, <1>2, <2>4 DEF WInv, WritesOK, CarriesOK
  <2>6. PICK n : n = W!With(q, more)  OBVIOUS
  <2>7. DOMAIN n = DOMAIN q \cup DOMAIN more /\ \A x \in DOMAIN more : n[x] = more[x]
    BY <2>6 DEF W!With
  <2>8. \A x \in DOMAIN q : x \notin DOMAIN more => n[x] = q[x]
    BY <2>6 DEF W!With
  <2>9. n.pc = "commit" /\ n.listed = L /\ n.kind = q.kind /\ n.targets = P
    BY <1>5, <2>1, <2>5, <2>7, <2>8 DEF CarriesOK, Carried
  <2>10. n.saw = q.saw /\ n.rows = q.rows /\ (q.kind = "revert" => "version" \in DOMAIN n /\ n.version = q.version)
    BY <1>5, <2>5, <2>7, <2>8 DEF Carried
  <2>11. Carried(n)
    BY <2>5, <2>7, <2>9, <2>10 DEF Carried
  <2>12. Listed(n)
    BY <1>5, <2>1, <2>9 DEF Listed, WInv, VersionsOK
  <2>13. W!Goto(r, more) /\ "kind" \notin DOMAIN more
    BY <1>5
  <2> QED  BY <1>2, <2>4, <2>6, <2>11, <2>12, <2>13, StillEdit
<1> QED  BY <1>3, <1>4, <1>5

\* The others start with a record that is no edit's, and go on with one.
LEMMA OtherBegins ==
    ASSUME WInv, NEW r \in Requests, NEW q, W!Begin(r, q), UNCHANGED W!rows, W!Rest,
           {"kind", "pc"} \subseteq DOMAIN q, q.kind \notin Editing, q.pc \notin Planning
    PROVE  Keeps
<1>1. write' = [write EXCEPT ![r] = q]
  BY DEF W!Begin
<1>2. Still
  BY DEF W!Rest, W!rows, Still
<1>3. CarriesOK(q)
  BY DEF CarriesOK
<1> QED  BY <1>1, <1>2, <1>3, StillGoes

LEMMA OtherGoes ==
    ASSUME WInv, Still, NEW r \in Requests, write[r].kind \notin Editing, NEW more, W!Goto(r, more), "kind" \notin DOMAIN more,
           write[r].kind \in Asking => "pc" \in DOMAIN more /\ more.pc \notin Planning
    PROVE  Keeps
<1>1. PICK n : n = W!With(write[r], more)  OBVIOUS
<1>2. \A x \in DOMAIN more : n[x] = more[x]
  BY <1>1 DEF W!With
<1>3. write[r].kind \notin Asking \/ n.pc \notin Planning
  BY <1>2
<1> QED  BY <1>1, <1>3, StillWith

LEMMA StartCreateKeeps == ASSUME WInv, NEW r \in Requests, W!StartCreate(r)  PROVE Keeps
<1>1. PICK q : q = [kind |-> "create", pc |-> "prepare", targets |-> {}]  OBVIOUS
<1>2. DOMAIN q = {"kind", "pc", "targets"} /\ q.kind = "create" /\ q.pc = "prepare"
  BY <1>1
<1>3. W!Begin(r, q) /\ UNCHANGED W!rows /\ W!Rest
  BY <1>1 DEF W!StartCreate
<1> QED  BY <1>2, <1>3, OtherBegins DEF Editing, Planning

LEMMA PrepareCreateKeeps == ASSUME WInv, NEW r \in Requests, W!PrepareCreate(r)  PROVE Keeps
<1>1. write[r].kind = "create" /\ Still
  BY DEF W!PrepareCreate, W!At, W!rows, W!Rest, Still
<1>2. PICK more : more = [pc |-> "commit", slug |-> W!FreeSlug(0), ids |-> {}, rows |-> << >>, tags |-> << >>]  OBVIOUS
<1>3. DOMAIN more = {"pc", "slug", "ids", "rows", "tags"}
  BY <1>2
<1>4. W!Goto(r, more) \/ W!Done(r)
  BY <1>2 DEF W!PrepareCreate
<1> QED  BY <1>1, <1>3, <1>4, OtherGoes, StillEnds DEF Editing, Asking

LEMMA StartReorderKeeps == ASSUME WInv, NEW r \in Requests, W!StartReorder(r)  PROVE Keeps
<1>1. UNCHANGED W!rows /\ W!Rest /\ \E offset, shown, after :
          W!Begin(r, [kind |-> "reorder", pc |-> "row", offset |-> offset, before |-> shown, after |-> after])
  BY DEF W!StartReorder
<1>2. PICK offset, shown, after :
          W!Begin(r, [kind |-> "reorder", pc |-> "row", offset |-> offset, before |-> shown, after |-> after])
  BY <1>1
<1>3. PICK q : q = [kind |-> "reorder", pc |-> "row", offset |-> offset, before |-> shown, after |-> after]  OBVIOUS
<1>4. DOMAIN q = {"kind", "pc", "offset", "before", "after"} /\ q.kind = "reorder" /\ q.pc = "row"
  BY <1>3
<1> QED  BY <1>1, <1>2, <1>3, <1>4, OtherBegins DEF Editing, Planning

LEMMA ReadSequenceKeeps == ASSUME WInv, NEW r \in Requests, W!ReadSequence(r)  PROVE Keeps
<1>1. write[r].kind = "reorder" /\ Still
  BY DEF W!ReadSequence, W!At, W!rows, W!Rest, Still
<1>2. W!Done(r) \/ \E sequence, weights : W!Goto(r, [pc |-> "prepare", sequence |-> sequence, weights |-> weights])
  BY DEF W!ReadSequence
<1>3. CASE W!Done(r)  BY <1>1, <1>3, StillEnds
<1>4. CASE \E sequence, weights : W!Goto(r, [pc |-> "prepare", sequence |-> sequence, weights |-> weights])
  <2>1. PICK sequence, weights : W!Goto(r, [pc |-> "prepare", sequence |-> sequence, weights |-> weights])
    BY <1>4
  <2>2. PICK more : more = [pc |-> "prepare", sequence |-> sequence, weights |-> weights]  OBVIOUS
  <2>3. DOMAIN more = {"pc", "sequence", "weights"}
    BY <2>2
  <2> QED  BY <1>1, <2>1, <2>2, <2>3, OtherGoes DEF Editing, Asking
<1> QED  BY <1>2, <1>3, <1>4

LEMMA StartWeightKeeps == ASSUME WInv, NEW r \in Requests, W!StartWeight(r)  PROVE Keeps
<1>1. UNCHANGED W!rows /\ W!Rest /\ \E p, w : W!Begin(r, [kind |-> "weight", pc |-> "prepare", weights |-> [x \in {p} |-> w]])
  BY DEF W!StartWeight
<1>2. PICK p, w : W!Begin(r, [kind |-> "weight", pc |-> "prepare", weights |-> [x \in {p} |-> w]])
  BY <1>1
<1>3. PICK q : q = [kind |-> "weight", pc |-> "prepare", weights |-> [x \in {p} |-> w]]  OBVIOUS
<1>4. DOMAIN q = {"kind", "pc", "weights"} /\ q.kind = "weight" /\ q.pc = "prepare"
  BY <1>3
<1> QED  BY <1>1, <1>2, <1>3, <1>4, OtherBegins DEF Editing, Planning

LEMMA PrepareWeightsKeeps == ASSUME WInv, NEW r \in Requests, W!PrepareWeights(r)  PROVE Keeps
<1>1. write[r].kind \in {"weight", "reorder"} /\ Still
  BY DEF W!PrepareWeights, W!rows, W!Rest, Still
<1>2. PICK more : more = [pc |-> "commit", meta |-> [p \in DOMAIN write[r].weights |-> W!Meta(p)]]  OBVIOUS
<1>3. DOMAIN more = {"pc", "meta"}
  BY <1>2
<1>4. W!Goto(r, more) \/ W!Done(r)
  BY <1>2 DEF W!PrepareWeights
<1> QED  BY <1>1, <1>3, <1>4, OtherGoes, StillEnds DEF Editing, Asking

LEMMA NextKeeps == ASSUME WInv, W!Next  PROVE Keeps
<1>1. ASSUME NEW r \in Requests, W!Act(r)  PROVE Keeps
  <2>1. ASSUME NEW kind \in W!Forms \cup W!Slice \cup {"patch"}, W!Start(r, kind)  PROVE Keeps
    <3>1. kind \in Editing
      BY DEF W!Forms, W!Slice, Editing
    <3> QED  BY <2>1, <3>1, StartKeeps
  <2>2. CASE W!ReadRows(r)  BY <2>2, ReadRowsKeeps
  <2>3. CASE W!ReadPatch(r)  BY <2>3, ReadPatchKeeps
  <2>4. CASE W!Prepare(r)  BY <2>4, PrepareKeeps
  <2>5. CASE W!SaveDraftContent(r)  BY <2>5, SaveDraftKeeps
  <2>6. CASE W!CommitPluginPageUpdates(r)  BY <2>6, PatchKeeps
  <2>7. CASE W!Revert(r)  BY <2>7, RevertKeeps
  <2>8. CASE W!RemoveDraftHistory(r)  BY <2>8, RemoveKeeps
  <2>9. CASE W!Replace(r)  BY <2>9, ReplaceKeeps
  <2>10. CASE W!ChangeTags(r)  BY <2>10, TagsKeep
  <2>11. CASE W!StartCreate(r)  BY <2>11, StartCreateKeeps
  <2>12. CASE W!PrepareCreate(r)  BY <2>12, PrepareCreateKeeps
  <2>13. CASE W!Create(r)  BY <2>13, CreateKeeps
  <2>14. CASE W!StartReorder(r)  BY <2>14, StartReorderKeeps
  <2>15. CASE W!ReadSequence(r)  BY <2>15, ReadSequenceKeeps
  <2>16. CASE W!StartWeight(r)  BY <2>16, StartWeightKeeps
  <2>17. CASE W!PrepareWeights(r)  BY <2>17, PrepareWeightsKeeps
  <2>18. CASE W!UpdateWeights(r)  BY <2>18, WeightsKeep
  <2> QED  BY <1>1, <2>1, <2>2, <2>3, <2>4, <2>5, <2>6, <2>7, <2>8, <2>9, <2>10, <2>11, <2>12, <2>13, <2>14, <2>15, <2>16,
              <2>17, <2>18 DEF W!Act
<1>2. CASE W!Trash  BY <1>2, TrashKeeps
<1>3. CASE W!Withdraw
  <2>1. Still /\ UNCHANGED write
    BY <1>3 DEF W!Withdraw, W!rows, Still
  <2> QED  BY <2>1, StandStill
<1> QED  BY <1>1, <1>2, <1>3 DEF W!Next

-----------------------------------------------------------------------------
(* Creates that are paid for.  A chunk of a plan is a plan.                 *)
Slots == [id : Pages, slug : Nat]
ChunkOK(c) ==
    /\ c \in Seq(Slots)
    /\ \A i, j \in DOMAIN c : i # j => c[i].id # c[j].id /\ c[i].slug # c[j].slug
LEMMA ChunkIs ==
    ASSUME NEW q, PlanOK(q)
    PROVE  /\ ChunkOK(W!Chunk(q))
           /\ q.kind = "copy" => Len(W!Chunk(q)) = 1
           /\ q.kind # "copy" => W!Chunk(q) = q.plan
<1>1. q.plan \in Seq(Slots) /\ q.written \in Nat /\ q.written + 1 <= Len(q.plan) /\ Len(q.plan) \in Nat
  BY DEF PlanOK, Slots
<1>2. CASE q.kind = "copy"
  <2> DEFINE k == q.written + 1
  <2>1. k \in Int /\ k \in 1..Len(q.plan)
    BY <1>1
  <2>2. \A i \in k..k : q.plan[i] \in Slots
    BY <1>1, <2>1
  <2> HIDE DEF k
  <2>3. SubSeq(q.plan, k, k) \in Seq(Slots) /\ Len(SubSeq(q.plan, k, k)) = 1
    BY <2>1, <2>2, SubSeqProperties
  <2>4. W!Chunk(q) = SubSeq(q.plan, k, k)
    BY <1>2 DEF W!Chunk, k
  <2>5. DOMAIN W!Chunk(q) = {1}
    BY <2>3, <2>4
  <2> QED  BY <1>2, <2>3, <2>4, <2>5 DEF ChunkOK
<1>3. CASE q.kind # "copy"
  BY <1>1, <1>3 DEF W!Chunk, PlanOK, ChunkOK
<1> QED  BY <1>2, <1>3

(* The pages of a chunk are made together, each with its first version.     *)
NewPages(c) == {c[i].id : i \in DOMAIN c}
LEMMA InsertedIs ==
    ASSUME WInv, NEW c, ChunkOK(c), \A i \in DOMAIN c : c[i].id \notin DOMAIN pages,
           W!Inserted(c, edits + 1), edits' = edits + 1
    PROVE  /\ Later /\ DraftsOK' /\ VersionsOK' /\ EditsStep /\ HistoryStep
           /\ DOMAIN pages' = DOMAIN pages \cup NewPages(c)
           /\ \A p \in DOMAIN pages : pages'[p] = pages[p]
           /\ \A i \in DOMAIN c : pages'[c[i].id].slug = c[i].slug
<1> DEFINE at(p) == CHOOSE i \in DOMAIN c : c[i].id = p
           Row(p) == [text |-> edits + 1, tags |-> edits + 1, weight |-> 5, name |-> 1, slug |-> c[at(p)].slug]
           NewOne(p) == [W!Version(p, edits + 1) EXCEPT !.id = @ + at(p)]
           N == {NewOne(p) : p \in NewPages(c)}
           g == [p \in NewPages(c) |-> Row(p)]
<1>1. pages' = W!With(pages, g) /\ versions' = versions \cup N /\ born' = born \cup NewPages(c)
  BY DEF W!Inserted, NewPages
<1>2. DOMAIN c = 1..Len(c) /\ Len(c) \in Nat /\ \A i \in DOMAIN c : c[i] \in Slots
  BY DEF ChunkOK
<1>3. \A i \in DOMAIN c : c[i].id \in Pages
  BY <1>2 DEF Slots
<1>4. \A p \in NewPages(c) : at(p) \in DOMAIN c /\ c[at(p)].id = p
  BY DEF NewPages
<1>5. W!NextId \in Nat
  BY NextIdIs DEF WInv
<1>6. \A p \in NewPages(c) : NewOne(p).page = p /\ NewOne(p).text = edits + 1 /\ NewOne(p).mark = edits + 1 /\ NewOne(p).id = W!NextId + at(p)
  BY DEF W!Version
<1>7. \A p \in NewPages(c) : Row(p).text = edits + 1 /\ Row(p).slug = c[at(p)].slug /\ DOMAIN Row(p) = Fields
  BY DEF Fields
<1>8. DOMAIN g = NewPages(c) /\ \A p \in NewPages(c) : g[p] = Row(p)
  OBVIOUS
<1> HIDE DEF at, Row, NewOne, g
<1>9. VersionsOK' /\ Later /\ N \cap versions = {}
  <2>1. \A x \in N : x.id \in Nat /\ W!NextId <= x.id /\ x.id <= W!NextId + Len(c) /\ x.mark = edits + 1
    <3> SUFFICES ASSUME NEW p \in NewPages(c)
                 PROVE  NewOne(p).id \in Nat /\ W!NextId <= NewOne(p).id /\ NewOne(p).id <= W!NextId + Len(c) /\ NewOne(p).mark = edits + 1
      OBVIOUS
    <3>1. at(p) \in Nat /\ at(p) <= Len(c)
      BY <1>2, <1>4
    <3> QED  BY <1>2, <1>5, <1>6, <3>1
  <2>2. \A x, y \in N : x # y => x.id # y.id
    <3> SUFFICES ASSUME NEW p \in NewPages(c), NEW n \in NewPages(c), NewOne(p) # NewOne(n)
                 PROVE  NewOne(p).id # NewOne(n).id
      OBVIOUS
    <3>1. p # n  OBVIOUS
    <3>2. at(p) # at(n) /\ at(p) \in Nat /\ at(n) \in Nat
      BY <1>2, <1>4, <3>1
    <3> QED  BY <1>5, <1>6, <3>2
  <2>3. W!NextId + Len(c) \in Nat
    BY <1>2, <1>5
  <2>4. versions' = versions \cup N
    BY <1>1
  <2> HIDE DEF N
  <2> QED  BY <2>1, <2>2, <2>3, <2>4, VersionsGrow DEF WInv
<1>10. DOMAIN pages' = DOMAIN pages \cup NewPages(c) /\ pages' = [p \in DOMAIN pages' |-> pages'[p]]
  BY <1>1, <1>8 DEF W!With
<1>11. \A p \in NewPages(c) : pages'[p] = Row(p)
  BY <1>1, <1>8 DEF W!With
<1>12. \A p \in DOMAIN pages : p \notin NewPages(c)
  BY DEF NewPages
<1>13. \A p \in DOMAIN pages : pages'[p] = pages[p]
  BY <1>1, <1>8, <1>12 DEF W!With
<1>14. DraftsOK'
  <2>1. NewPages(c) \subseteq Pages
    BY <1>3 DEF NewPages
  <2>2. \A p \in DOMAIN pages' : Fields \subseteq DOMAIN pages'[p]
    BY <1>7, <1>10, <1>11, <1>13 DEF WInv, DraftsOK
  <2>3. DOMAIN pages' \subseteq born' /\ born' \subseteq Pages
    BY <1>1, <1>10, <2>1 DEF WInv, DraftsOK
  <2> QED  BY <1>10, <2>2, <2>3 DEF DraftsOK
<1>15. EditsStep
  BY <1>13 DEF EditsStep
<1>16. HistoryStep
  <2>1. \A p \in DOMAIN pages' : (p \notin DOMAIN pages \/ pages'[p].text # pages[p].text) => p \in NewPages(c)
    BY <1>10, <1>13
  <2>2. \A p \in NewPages(c) : NewOne(p) \in versions' \ versions /\ NewOne(p).page = p /\ NewOne(p).text = pages'[p].text
    BY <1>1, <1>6, <1>7, <1>9, <1>11
  <2>3. versions \subseteq versions'
    BY <1>1
  <2> QED  BY <1>9, <2>1, <2>2, <2>3 DEF HistoryStep, VersionsOK
<1>17. \A i \in DOMAIN c : pages'[c[i].id].slug = c[i].slug
  <2> SUFFICES ASSUME NEW i \in DOMAIN c  PROVE pages'[c[i].id].slug = c[i].slug
    OBVIOUS
  <2>1. c[i].id \in NewPages(c)
    BY DEF NewPages
  <2>2. at(c[i].id) = i
    BY <1>4, <2>1 DEF ChunkOK
  <2> QED  BY <1>7, <1>11, <2>1, <2>2
<1> QED  BY <1>9, <1>10, <1>13, <1>14, <1>15, <1>16, <1>17

(* The pages of a chunk are no more than it is long.                        *)
LEMMA ChunkBounds ==
    ASSUME NEW c, ChunkOK(c)
    PROVE  IsFiniteSet(NewPages(c)) /\ Cardinality(NewPages(c)) <= Len(c) /\ Cardinality(NewPages(c)) \in Nat
<1>1. DOMAIN c = 1..Len(c) /\ Len(c) \in Nat
  BY DEF ChunkOK
<1> DEFINE f == [i \in 1..Len(c) |-> c[i].id]
<1>2. f \in Surjection(1..Len(c), NewPages(c))
  BY <1>1 DEF Surjection, NewPages
<1>3. IsFiniteSet(1..Len(c)) /\ Cardinality(1..Len(c)) = Len(c)
  <2>1. 1 \in Int /\ Len(c) \in Int  BY <1>1
  <2>2. IsFiniteSet(1..Len(c)) /\ Cardinality(1..Len(c)) = IF 1 > Len(c) THEN 0 ELSE Len(c) - 1 + 1
    BY <2>1, FS_Interval
  <2>3. (IF 1 > Len(c) THEN 0 ELSE Len(c) - 1 + 1) = Len(c)
    BY <1>1
  <2> QED  BY <2>2, <2>3
<1>4. IsFiniteSet(NewPages(c)) /\ Cardinality(NewPages(c)) <= Cardinality(1..Len(c))
  <2> HIDE DEF f
  <2> QED  BY <1>2, <1>3, FS_Surjection
<1>5. Cardinality(NewPages(c)) \in Nat
  BY <1>4, FS_CardinalityType
<1> QED  BY <1>3, <1>4, <1>5

LEMMA OverIs ==
    ASSUME NEW S \in SUBSET Pages, NEW T \in SUBSET Pages, NEW n \in Nat, Cardinality(T) <= n, Cardinality(S) + n <= Limit
    PROVE  Cardinality(S \cup T) <= Limit
<1>1. IsFiniteSet(S) /\ IsFiniteSet(T) /\ Cardinality(S) \in Nat /\ Cardinality(T) \in Nat
  BY PagesFinite
<1>2. S \cap T \in SUBSET Pages
  OBVIOUS
<1>3. Cardinality(S \cap T) \in Nat
  BY <1>2, PagesFinite
<1>4. Cardinality(S \cup T) = Cardinality(S) + Cardinality(T) - Cardinality(S \cap T)
  BY <1>1, FS_Union
<1>5. Limit \in Nat
  BY DraftsAssumption DEF W!CreatesAssumption
<1> QED  BY <1>1, <1>3, <1>4, <1>5

(* A chunk that was admitted lands as admitted.                             *)
LEMMA AdmittedLands ==
    ASSUME WInv, NEW q, PlanOK(q), W!Admitted(q), W!Inserted(W!Chunk(q), edits + 1), edits' = edits + 1
    PROVE  /\ Later /\ DraftsOK' /\ VersionsOK' /\ EditsStep /\ HistoryStep
           /\ Cardinality(DOMAIN pages') <= Limit
           /\ \A x \in W!ToSet(W!Chunk(q)) : {p \in DOMAIN pages' : pages'[p].slug = x.slug} = {x.id}
<1>1. PICK c : c = W!Chunk(q)  OBVIOUS
<1>2. ChunkOK(c) /\ DOMAIN c = 1..Len(c) /\ Len(c) \in Nat
  BY <1>1, ChunkIs DEF ChunkOK
<1>3. \A i \in DOMAIN c : c[i].id \notin DOMAIN pages /\ c[i].slug \notin W!Taken(0)
  BY <1>1 DEF W!Admitted, W!ToSet
<1>4. W!Cardinality(DOMAIN pages) + Len(c) <= Limit
  BY <1>1 DEF W!Admitted, W!Over
<1>5. W!Inserted(c, edits + 1)
  BY <1>1
<1>6. /\ Later /\ DraftsOK' /\ VersionsOK' /\ EditsStep /\ HistoryStep
      /\ DOMAIN pages' = DOMAIN pages \cup NewPages(c)
      /\ \A p \in DOMAIN pages : pages'[p] = pages[p]
      /\ \A i \in DOMAIN c : pages'[c[i].id].slug = c[i].slug
  BY <1>2, <1>3, <1>5, InsertedIs
<1>7. DOMAIN pages \in SUBSET Pages /\ NewPages(c) \in SUBSET Pages
  <2>1. \A i \in DOMAIN c : c[i] \in Slots
    BY <1>2 DEF ChunkOK
  <2>2. \A i \in DOMAIN c : c[i].id \in Pages
    BY <2>1 DEF Slots
  <2> QED  BY <2>2 DEF WInv, DraftsOK, NewPages
<1>8. Cardinality(DOMAIN pages') <= Limit
  <2>1. Cardinality(NewPages(c)) <= Len(c)
    BY <1>2, ChunkBounds
  <2>2. Cardinality(DOMAIN pages) + Len(c) <= Limit
    BY <1>4, CardinalityIs
  <2> QED  BY <1>2, <1>6, <1>7, <2>1, <2>2, OverIs
<1>9. ASSUME NEW i \in DOMAIN c  PROVE {p \in DOMAIN pages' : pages'[p].slug = c[i].slug} = {c[i].id}
  <2>1. c[i].id \in DOMAIN pages' /\ pages'[c[i].id].slug = c[i].slug
    BY <1>6, <1>9 DEF NewPages
  <2>2. ASSUME NEW p \in DOMAIN pages', pages'[p].slug = c[i].slug  PROVE p = c[i].id
    <3>1. CASE p \in DOMAIN pages
      <4>1. p # 0
        BY <1>7, <3>1, PagesFinite
      <4>2. pages[p].slug \in W!Taken(0)
        BY <3>1, <4>1 DEF W!Taken
      <4>3. pages'[p] = pages[p]
        BY <1>6, <3>1
      <4> QED  BY <1>3, <1>9, <2>2, <4>2, <4>3
    <3>2. CASE p \in NewPages(c)
      <4>1. PICK j \in DOMAIN c : p = c[j].id
        BY <3>2 DEF NewPages
      <4>2. c[j].slug = c[i].slug
        BY <1>6, <2>2, <4>1
      <4>3. j = i
        BY <1>2, <1>9, <4>1, <4>2 DEF ChunkOK
      <4> QED  BY <4>1, <4>3
    <3> QED  BY <1>6, <2>2, <3>1, <3>2
  <2> QED  BY <2>1, <2>2
<1>10. \A x \in W!ToSet(c) : {p \in DOMAIN pages' : pages'[p].slug = x.slug} = {x.id}
  BY <1>9 DEF W!ToSet
<1> QED  BY <1>1, <1>6, <1>8, <1>10

LEMMA EndKeeps ==
    ASSUME WInv, Still, NEW r \in Requests, write[r].kind \in W!Asks, W!End(r, write[r])  PROVE Keeps
<1>1. PICK more : more = [pc |-> "answer"]  OBVIOUS
<1>2. DOMAIN more = {"pc"} /\ more.pc = "answer"
  BY <1>1
<1>3. W!Done(r) \/ W!Goto(r, more)
  BY <1>1 DEF W!End
<1> QED  BY <1>2, <1>3, StillEnds, OtherGoes DEF W!Asks, Editing, Planning

(* What the commit of a chunk leaves of the request.                        *)
LEMMA CommitMoves ==
    ASSUME WInv, NEW r \in Requests, write[r].kind \in W!Asks, write[r].pc = "write", W!CommitPluginPageCreates(r)
    PROVE  \E n : write' = [write EXCEPT ![r] = n] /\ CarriesOK(n) /\ n.kind \notin Editing
<1>1. PICK q : q = write[r]  OBVIOUS
<1>2. CarriesOK(q) /\ PlanOK(q) /\ q.kind \notin Editing /\ q.kind \in Asking
  BY <1>1 DEF WInv, WritesOK, CarriesOK, W!Asks, Asking, Planning, Editing
<1>3. PICK more, n : /\ n = q.written + Len(W!Chunk(q)) /\ "kind" \notin DOMAIN more
                     /\ \/ W!Done(r)
                        \/ /\ W!Goto(r, more)
                           /\ \/ DOMAIN more = {"pc"} /\ more.pc \in {"answer", "refund", "withhold"}
                              \/ DOMAIN more = {"written"} /\ more.written = n /\ n # Len(q.plan)
  <2>1. W!End(r, q) => W!Done(r) \/ W!Goto(r, [pc |-> "answer"])
    BY DEF W!End
  <2>2. \E o \in W!Outcomes(W!Admitted(q)) :
            CASE o.seen = "done" -> IF q.written + Len(W!Chunk(q)) = Len(q.plan) THEN W!End(r, q)
                                    ELSE W!Goto(r, [written |-> q.written + Len(W!Chunk(q))])
              [] o.seen = "refused" -> W!Goto(r, [pc |-> "refund"])
              [] OTHER -> W!Goto(r, [pc |-> "withhold"])
    BY <1>1 DEF W!CommitPluginPageCreates
  <2>3. PICK n : n = q.written + Len(W!Chunk(q))  OBVIOUS
  <2>4. \/ W!Done(r) \/ W!Goto(r, [pc |-> "answer"]) \/ W!Goto(r, [pc |-> "refund"]) \/ W!Goto(r, [pc |-> "withhold"])
        \/ W!Goto(r, [written |-> n]) /\ n # Len(q.plan)
    BY <2>1, <2>2, <2>3
  <2>5. PICK x, y, z, w : x = [pc |-> "answer"] /\ y = [pc |-> "refund"] /\ z = [pc |-> "withhold"] /\ w = [written |-> n]
    OBVIOUS
  <2>6. /\ DOMAIN x = {"pc"} /\ x.pc = "answer" /\ DOMAIN y = {"pc"} /\ y.pc = "refund"
        /\ DOMAIN z = {"pc"} /\ z.pc = "withhold" /\ DOMAIN w = {"written"} /\ w.written = n
    BY <2>5
  <2>7. W!Done(r) \/ W!Goto(r, x) \/ W!Goto(r, y) \/ W!Goto(r, z) \/ (W!Goto(r, w) /\ n # Len(q.plan))
    BY <2>4, <2>5
  <2>8. "kind" \notin DOMAIN x /\ "kind" \notin DOMAIN y /\ "kind" \notin DOMAIN z /\ "kind" \notin DOMAIN w
    BY <2>6
  <2> QED  BY <2>3, <2>6, <2>7, <2>8
<1>4. CASE W!Done(r)
  <2>1. write' = [write EXCEPT ![r] = W!Idle]
    BY <1>4, EndsIdle
  <2> QED  BY <2>1, IdleCarries
<1>5. ASSUME W!Goto(r, more),
             \/ DOMAIN more = {"pc"} /\ more.pc \in {"answer", "refund", "withhold"}
             \/ DOMAIN more = {"written"} /\ more.written = n /\ n # Len(q.plan)
      PROVE  \E x : write' = [write EXCEPT ![r] = x] /\ CarriesOK(x) /\ x.kind \notin Editing
  <2>1. PICK m : m = W!With(q, more)  OBVIOUS
  <2>2. write' = [write EXCEPT ![r] = m]
    BY <1>1, <1>5, <2>1 DEF W!Goto, WInv, WritesOK
  <2>3. \A x \in DOMAIN more : m[x] = more[x]
    BY <2>1 DEF W!With
  <2>4. \A x \in DOMAIN q : x \notin DOMAIN more => m[x] = q[x]
    BY <2>1 DEF W!With
  <2>5. DOMAIN m = DOMAIN q \cup DOMAIN more
    BY <2>1 DEF W!With
  <2>6. m.kind = q.kind
    BY <1>2, <1>3, <2>4 DEF CarriesOK
  <2>7. m.pc \in Planning => PlanOK(m)
    <3>1. CASE DOMAIN more = {"pc"} /\ more.pc \in {"answer", "refund", "withhold"}
      BY <2>3, <3>1 DEF Planning
    <3>2. CASE DOMAIN more = {"written"} /\ more.written = n /\ n # Len(q.plan)
      <4>1. m.written = n /\ m.plan = q.plan /\ {"plan", "written"} \subseteq DOMAIN m
        BY <1>2, <2>3, <2>4, <2>5, <3>2 DEF PlanOK
      <4>2. q.written \in Nat /\ q.written < Len(q.plan) /\ Len(q.plan) \in Nat /\ (q.kind # "copy" => q.written = 0)
        BY <1>2 DEF PlanOK
      <4>3. q.kind = "copy" => n = q.written + 1
        BY <1>2, <1>3, ChunkIs
      <4>4. q.kind # "copy" => n = Len(q.plan)
        BY <1>2, <1>3, <4>2, ChunkIs
      <4>5. n \in Nat /\ n < Len(q.plan) /\ q.kind = "copy"
        BY <3>2, <4>2, <4>3, <4>4
      <4> QED  BY <1>2, <2>6, <4>1, <4>5 DEF PlanOK
    <3> QED  BY <1>5, <3>1, <3>2
  <2>8. {"kind", "pc"} \subseteq DOMAIN m
    BY <1>2, <2>5 DEF CarriesOK
  <2>9. CarriesOK(m)
    BY <1>2, <2>6, <2>7, <2>8 DEF CarriesOK
  <2> QED  BY <1>2, <2>2, <2>6, <2>9
<1> QED  BY <1>3, <1>4, <1>5

LEMMA CommitCreatesKeeps ==
    ASSUME WInv, NEW r \in Requests, W!CommitPluginPageCreates(r)  PROVE Keeps
<1>1. write[r].kind \in W!Asks /\ write[r].pc = "write" /\ W!Rest
  BY DEF W!CommitPluginPageCreates
<1>2. PICK n : write' = [write EXCEPT ![r] = n] /\ CarriesOK(n) /\ n.kind \notin Editing
  BY <1>1, CommitMoves
<1>3. PICK q : q = write[r]  OBVIOUS
<1>4. PlanOK(q) /\ UNCHANGED kinds
  BY <1>1, <1>3 DEF WInv, WritesOK, CarriesOK, W!Asks, Asking, Planning, W!Rest
<1>5. \/ UNCHANGED W!rows
      \/ W!Admitted(q) /\ W!Inserted(W!Chunk(q), edits + 1) /\ edits' = edits + 1
  <2>1. PICK o \in W!Outcomes(W!Admitted(q)) :
            IF o.did THEN W!Inserted(W!Chunk(q), edits + 1) /\ edits' = edits + 1 ELSE UNCHANGED W!rows
    BY <1>3 DEF W!CommitPluginPageCreates
  <2>2. o.did => W!Admitted(q)
    BY DEF W!Outcomes
  <2> QED  BY <2>1, <2>2
<1>6. CASE UNCHANGED W!rows
  <2>1. Still
    BY <1>4, <1>6 DEF Still, W!rows
  <2> QED  BY <1>2, <2>1, StillGoes
<1>7. CASE W!Admitted(q) /\ W!Inserted(W!Chunk(q), edits + 1) /\ edits' = edits + 1
  <2>1. /\ Later /\ DraftsOK' /\ VersionsOK' /\ EditsStep /\ HistoryStep
        /\ Cardinality(DOMAIN pages') <= Limit
        /\ \A x \in W!ToSet(W!Chunk(q)) : {p \in DOMAIN pages' : pages'[p].slug = x.slug} = {x.id}
    BY <1>4, <1>7, AdmittedLands
  <2>2. \A d \in Requests \ {r} : write'[d] = write[d]
    BY <1>2 DEF WInv, WritesOK
  <2>3. PlansStep
    BY <1>3, <2>1, <2>2 DEF PlansStep
  <2> QED  BY <1>2, <1>4, <2>1, <2>3, Lands
<1> QED  BY <1>5, <1>6, <1>7

LEMMA WriteNewKeeps ==
    ASSUME WInv, NEW r \in Requests, W!WriteNew(r)  PROVE Keeps
<1>1. write[r].kind = "new" /\ UNCHANGED kinds
  BY DEF W!WriteNew, W!At, W!Rest
<1>2. \/ UNCHANGED W!rows
      \/ \E p \in W!Fresh : W!Created(p, edits + 1, write[r].slug) /\ edits' = edits + 1
  BY DEF W!WriteNew
<1>3. W!Done(r) \/ W!Goto(r, [pc |-> "refund"])
  BY DEF W!WriteNew
<1>4. PICK q : q = write[r]  OBVIOUS
<1>5. PICK n : write' = [write EXCEPT ![r] = n] /\ CarriesOK(n) /\ n.kind \notin Editing
  <2>1. CASE W!Done(r)
    <3>1. write' = [write EXCEPT ![r] = W!Idle]  BY <2>1, EndsIdle
    <3> QED  BY <3>1, IdleCarries
  <2>2. CASE W!Goto(r, [pc |-> "refund"])
    <3>1. PICK more : more = [pc |-> "refund"]  OBVIOUS
    <3>2. DOMAIN more = {"pc"}  BY <3>1
    <3>3. CarriesOK(q)
      BY <1>4 DEF WInv, WritesOK
    <3>4. CarriesOK(W!With(q, more)) /\ W!With(q, more).kind = "new"
      BY <1>1, <1>4, <3>2, <3>3, WithCarries DEF Editing, Asking
    <3>5. write' = [write EXCEPT ![r] = W!With(q, more)]
      BY <1>4, <2>2, <3>1 DEF W!Goto, WInv, WritesOK
    <3> QED  BY <3>4, <3>5 DEF Editing
  <2> QED  BY <1>3, <2>1, <2>2
<1>6. CASE UNCHANGED W!rows
  <2>1. Still  BY <1>1, <1>6 DEF Still, W!rows
  <2> QED  BY <1>5, <2>1, StillGoes
<1>7. CASE \E p \in W!Fresh : W!Created(p, edits + 1, write[r].slug) /\ edits' = edits + 1
  <2>1. Later /\ DraftsOK' /\ VersionsOK' /\ EditsStep /\ HistoryStep
    BY <1>7, CreatedIs
  <2>2. write[r].kind \notin W!Asks
    BY <1>1 DEF W!Asks
  <2> QED  BY <1>1, <1>5, <2>1, <2>2, Lands
<1> QED  BY <1>2, <1>6, <1>7

\* The plan: ids and slugs in order, so none twice.
LEMMA PlannedIs ==
    ASSUME WInv, Still, NEW r \in Requests, write[r].kind \in W!Asks, NEW ids \in SUBSET Pages, W!Cardinality(ids) >= 1,
           NEW sources, W!Planned(r, ids, sources)
    PROVE  Keeps
<1>1. PICK n : n = Cardinality(ids)  OBVIOUS
<1>2. n \in Nat /\ n >= 1
  BY <1>1, PagesFinite, CardinalityIs
<1>3. PICK I \in W!InOrder(ids), S \in W!LowestFree(n) :
        W!Goto(r, [pc |-> "admit", plan |-> [i \in 1..n |-> [id |-> I[i], slug |-> S[i]]],
                   sources |-> sources, written |-> 0, charged |-> 0])
  BY <1>1, CardinalityIs DEF W!Planned
<1>4. I \in [1..n -> ids] /\ \A i, j \in 1..n : i < j => I[i] < I[j]
  BY <1>1, CardinalityIs DEF W!InOrder
<1>5. S \in [1..n -> Nat] /\ \A i, j \in 1..n : i < j => S[i] < S[j]
  BY DEF W!LowestFree
<1>6. PICK P : P = [i \in 1..n |-> [id |-> I[i], slug |-> S[i]]]  OBVIOUS
<1>7. \A i \in 1..n : P[i].id = I[i] /\ P[i].slug = S[i] /\ P[i] \in [id : Pages, slug : Nat]
  <2> SUFFICES ASSUME NEW i \in 1..n  PROVE P[i].id = I[i] /\ P[i].slug = S[i] /\ P[i] \in [id : Pages, slug : Nat]
    OBVIOUS
  <2>1. P[i] = [id |-> I[i], slug |-> S[i]]  BY <1>6
  <2>2. I[i] \in Pages /\ S[i] \in Nat  BY <1>4, <1>5
  <2> QED  BY <2>1, <2>2
<1>8. P \in Seq([id : Pages, slug : Nat]) /\ Len(P) = n /\ DOMAIN P = 1..n
  BY <1>2, <1>6, <1>7
<1>9. \A i, j \in 1..n : i # j => I[i] # I[j] /\ S[i] # S[j]
  <2> SUFFICES ASSUME NEW i \in 1..n, NEW j \in 1..n, i # j  PROVE I[i] # I[j] /\ S[i] # S[j]
    OBVIOUS
  <2>1. i < j \/ j < i  BY <1>2
  <2>2. I[i] \in Nat /\ I[j] \in Nat /\ S[i] \in Nat /\ S[j] \in Nat
    <3>1. \A p \in ids : p \in Nat  BY PagesFinite
    <3> QED  BY <1>4, <1>5, <3>1
  <2>3. CASE i < j
    <3>1. I[i] < I[j] /\ S[i] < S[j]  BY <1>4, <1>5, <2>3
    <3> QED  BY <2>2, <3>1
  <2>4. CASE j < i
    <3>1. I[j] < I[i] /\ S[j] < S[i]  BY <1>4, <1>5, <2>4
    <3> QED  BY <2>2, <3>1
  <2> QED  BY <2>1, <2>3, <2>4
<1>10. PICK more : more = [pc |-> "admit", plan |-> P, sources |-> sources, written |-> 0, charged |-> 0]  OBVIOUS
<1>11. DOMAIN more = {"pc", "plan", "sources", "written", "charged"} /\ more.plan = P /\ more.written = 0
  BY <1>10
<1>12. PICK q : q = write[r]  OBVIOUS
<1>13. CarriesOK(q) /\ q.kind \in Asking
  BY <1>12 DEF WInv, WritesOK, W!Asks, Asking
<1>14. PICK m : m = W!With(q, more)  OBVIOUS
<1>15. \A x \in DOMAIN more : m[x] = more[x]
  BY <1>14 DEF W!With
<1>16. DOMAIN m = DOMAIN q \cup DOMAIN more
  BY <1>14 DEF W!With
<1>17. m.plan = P /\ m.written = 0 /\ {"plan", "written"} \subseteq DOMAIN m
  BY <1>11, <1>15, <1>16
<1>18. PlanOK(m)
  BY <1>2, <1>7, <1>8, <1>9, <1>17 DEF PlanOK
<1>19. W!Goto(r, more)
  BY <1>3, <1>6, <1>10
<1> QED  BY <1>11, <1>12, <1>13, <1>14, <1>18, <1>19, StillWith DEF Asking, Editing

LEMMA PlanKeeps ==
    ASSUME WInv, NEW r \in Requests, W!Plan(r)  PROVE Keeps
<1>1. write[r].kind \in W!Asks /\ Still
  BY DEF W!Plan, W!Apart, W!rows, W!Rest, Still
<1>2. \E n, ids, sources : n >= 1 /\ ids \in W!NewIds(n) /\ W!Planned(r, ids, sources)
  <2>1. MaxPlan \in Nat \ {0}
    BY DraftsAssumption DEF W!CreatesAssumption
  <2>2. CASE write[r].kind = "copy"
    <3>1. PICK n \in {W!Cardinality(DOMAIN pages)} \ {0} :
              \E ids \in W!NewIds(IF n < MaxPlan THEN n ELSE MaxPlan) : W!Planned(r, ids, pages)
      BY <2>2 DEF W!Plan
    <3>2. n \in Nat /\ n # 0
      <4>1. DOMAIN pages \in SUBSET Pages
        BY DEF WInv, DraftsOK
      <4> QED  BY <3>1, <4>1, PagesFinite, CardinalityIs
    <3>3. PICK k : k = IF n < MaxPlan THEN n ELSE MaxPlan  OBVIOUS
    <3>4. k >= 1
      BY <2>1, <3>2, <3>3
    <3> QED  BY <3>1, <3>3, <3>4
  <2>3. CASE write[r].kind # "copy"
    <3>1. PICK n \in 1..(IF write[r].kind = "api" THEN MaxPlan ELSE 1) : \E ids \in W!NewIds(n) : W!Planned(r, ids, << >>)
      BY <2>3 DEF W!Plan
    <3>2. n >= 1
      BY <2>1, <3>1
    <3> QED  BY <3>1, <3>2
  <2> QED  BY <2>2, <2>3
<1>3. PICK n, ids, sources : n >= 1 /\ ids \in W!NewIds(n) /\ W!Planned(r, ids, sources)
  BY <1>2
<1>4. ids \in SUBSET Pages /\ W!Cardinality(ids) >= 1
  BY <1>3 DEF W!NewIds
<1> QED  BY <1>1, <1>3, <1>4, PlannedIs

\* On the way to the write the plan stays what it was.
LEMMA PlanGoes ==
    ASSUME WInv, Still, NEW r \in Requests, write[r].kind \in W!Asks, write[r].pc \in Planning, NEW more, W!Goto(r, more),
           {"kind", "plan", "written"} \cap DOMAIN more = {}
    PROVE  Keeps
<1>1. PICK q : q = write[r]  OBVIOUS
<1>2. CarriesOK(q) /\ PlanOK(q) /\ q.kind \in Asking
  BY <1>1 DEF WInv, WritesOK, CarriesOK, W!Asks, Asking
<1>3. PlanOK(W!With(q, more))
  BY <1>2, PlanStays DEF CarriesOK
<1> QED  BY <1>1, <1>2, <1>3, StillWith DEF Asking, Editing

LEMMA AdmissionKeeps ==
    ASSUME WInv, NEW r \in Requests, W!PreparePluginPageCreates(r)  PROVE Keeps
<1>1. write[r].kind \in W!Asks /\ write[r].pc \in Planning /\ Still
  BY DEF W!PreparePluginPageCreates, W!Apart, W!rows, W!Rest, Still, Planning
<1>2. PICK more : more = [pc |-> "reserve"]  OBVIOUS
<1>3. DOMAIN more = {"pc"}
  BY <1>2
<1>4. W!Goto(r, more) \/ W!End(r, write[r])
  BY <1>2 DEF W!PreparePluginPageCreates
<1> QED  BY <1>1, <1>3, <1>4, PlanGoes, EndKeeps

LEMMA ReservationKeeps ==
    ASSUME WInv, NEW r \in Requests, W!ReservePageCreates(r)  PROVE Keeps
<1>1. write[r].kind \in W!Asks /\ write[r].pc \in Planning /\ Still
  BY DEF W!ReservePageCreates, W!Apart, W!rows, W!Rest, Still, Planning
<1>2. W!End(r, write[r]) \/ W!Goto(r, [pc |-> "write", charged |-> Len(write[r].plan)])
  BY DEF W!ReservePageCreates
<1>3. PICK more : more = [pc |-> "write", charged |-> Len(write[r].plan)]  OBVIOUS
<1>4. DOMAIN more = {"pc", "charged"}
  BY <1>3
<1> QED  BY <1>1, <1>2, <1>3, <1>4, PlanGoes, EndKeeps

LEMMA FormRequestsKeep ==
    ASSUME WInv, NEW r \in Requests,
           W!StartNew(r) \/ W!CheckCreateLimits(r) \/ W!ReserveNew(r) \/ W!PrepareNew(r) \/ W!RefundNew(r)
    PROVE  Keeps
<1>1. CASE W!StartNew(r)
  <2>1. PICK q : q = [kind |-> "new", pc |-> "count", token |-> "none"]  OBVIOUS
  <2>2. DOMAIN q = {"kind", "pc", "token"} /\ q.kind = "new" /\ q.pc = "count"
    BY <2>1
  <2>3. W!Begin(r, q) /\ UNCHANGED W!rows /\ W!Rest
    BY <1>1, <2>1 DEF W!StartNew
  <2> QED  BY <2>2, <2>3, OtherBegins DEF Editing, Planning
<1>2. PICK x, y, z, w : /\ x = [pc |-> "reserve"] /\ y = [pc |-> "prepare"] /\ z = [pc |-> "write", slug |-> W!FreeSlug(0)]
                        /\ w = [pc |-> "refund"]
  OBVIOUS
<1>3. DOMAIN x = {"pc"} /\ DOMAIN y = {"pc"} /\ DOMAIN z = {"pc", "slug"} /\ DOMAIN w = {"pc"}
  BY <1>2
<1>4. ASSUME Still, write[r].kind = "new", W!Done(r) \/ W!Goto(r, x) \/ W!Goto(r, y) \/ W!Goto(r, z) \/ W!Goto(r, w)
      PROVE  Keeps
  <2>1. write[r].kind \notin Editing /\ write[r].kind \notin Asking
    BY <1>4 DEF Editing, Asking
  <2> QED  BY <1>3, <1>4, <2>1, StillEnds, OtherGoes
<1>5. CASE W!CheckCreateLimits(r)
  <2>1. Still /\ write[r].kind = "new" /\ (W!Done(r) \/ W!Goto(r, x))
    BY <1>2, <1>5 DEF W!CheckCreateLimits, W!At, W!Apart, W!rows, W!Rest, Still
  <2> QED  BY <1>4, <2>1
<1>6. CASE W!ReserveNew(r)
  <2>1. Still /\ write[r].kind = "new" /\ (W!Done(r) \/ W!Goto(r, y))
    BY <1>2, <1>6 DEF W!ReserveNew, W!At, W!Apart, W!rows, W!Rest, Still
  <2> QED  BY <1>4, <2>1
<1>7. CASE W!PrepareNew(r)
  <2>1. Still /\ write[r].kind = "new"
    BY <1>7 DEF W!PrepareNew, W!At, W!Apart, W!rows, W!Rest, Still
  <2>2. W!Goto(r, IF allowed THEN z ELSE w)
    BY <1>2, <1>7 DEF W!PrepareNew
  <2>3. W!Goto(r, z) \/ W!Goto(r, w)
    BY <2>2
  <2> QED  BY <1>4, <2>1, <2>3
<1>8. CASE W!RefundNew(r)
  <2>1. Still /\ W!Done(r)
    BY <1>8 DEF W!RefundNew, W!Apart, W!rows, W!Rest, Still
  <2> QED  BY <2>1, StillEnds
<1> QED  BY <1>1, <1>5, <1>6, <1>7, <1>8

LEMMA PluginRequestsKeep ==
    ASSUME WInv, NEW r \in Requests,
           W!StartApi(r) \/ W!Settle(r) \/ W!Submit(r) \/ W!Claim(r) \/ W!Disclose(r) \/ W!Answer(r)
    PROVE  Keeps
<1>1. CASE W!StartApi(r)
  <2>1. PICK kind \in {"api", "copy"} : W!Begin(r, [kind |-> kind, pc |-> "plan", token |-> "none"])
    BY <1>1 DEF W!StartApi
  <2>2. PICK q : q = [kind |-> kind, pc |-> "plan", token |-> "none"]  OBVIOUS
  <2>3. DOMAIN q = {"kind", "pc", "token"} /\ q.kind = kind /\ q.pc = "plan"
    BY <2>2
  <2>4. W!Begin(r, q) /\ UNCHANGED W!rows /\ W!Rest
    BY <1>1, <2>1, <2>2 DEF W!StartApi
  <2>5. q.kind \notin Editing /\ q.pc \notin Planning
    BY <2>3 DEF Editing, Planning
  <2> QED  BY <2>3, <2>4, <2>5, OtherBegins
<1>2. CASE W!Settle(r)
  <2>1. Still /\ write[r].kind \in W!Asks /\ W!End(r, write[r])
    BY <1>2 DEF W!Settle, W!Apart, W!rows, W!Rest, Still
  <2> QED  BY <2>1, EndKeeps
<1>3. CASE W!Submit(r)
  <2>1. PICK t \in Tokens : W!Begin(r, [kind |-> "form", pc |-> "claim", token |-> t, claimed |-> FALSE])
    BY <1>3 DEF W!Submit
  <2>2. PICK q : q = [kind |-> "form", pc |-> "claim", token |-> t, claimed |-> FALSE]  OBVIOUS
  <2>3. DOMAIN q = {"kind", "pc", "token", "claimed"} /\ q.kind = "form" /\ q.pc = "claim"
    BY <2>2
  <2>4. W!Begin(r, q) /\ UNCHANGED W!rows /\ W!Rest
    BY <1>3, <2>1, <2>2 DEF W!Submit
  <2> QED  BY <2>3, <2>4, OtherBegins DEF Editing, Planning
<1>4. PICK x, y, z : x = [pc |-> "disclose"] /\ y = [pc |-> "disclose", claimed |-> TRUE] /\ z = [pc |-> "plan"]
  OBVIOUS
<1>5. /\ DOMAIN x = {"pc"} /\ x.pc = "disclose" /\ DOMAIN y = {"pc", "claimed"} /\ y.pc = "disclose"
      /\ DOMAIN z = {"pc"} /\ z.pc = "plan"
  BY <1>4
<1>6. ASSUME Still, write[r].kind = "form", W!Done(r) \/ W!Goto(r, x) \/ W!Goto(r, y) \/ W!Goto(r, z)  PROVE Keeps
  <2>1. write[r].kind \notin Editing
    BY <1>6 DEF Editing
  <2>2. x.pc \notin Planning /\ y.pc \notin Planning /\ z.pc \notin Planning
    BY <1>5 DEF Planning
  <2> QED  BY <1>5, <1>6, <2>1, <2>2, StillEnds, OtherGoes
<1>7. CASE W!Claim(r)
  <2>1. Still /\ write[r].kind = "form" /\ (W!Done(r) \/ W!Goto(r, x) \/ W!Goto(r, y))
    BY <1>4, <1>7 DEF W!Claim, W!Apart, W!rows, W!Rest, Still
  <2> QED  BY <1>6, <2>1
<1>8. CASE W!Disclose(r)
  <2>1. Still /\ write[r].kind = "form" /\ (W!Done(r) \/ W!Goto(r, z))
    BY <1>4, <1>8 DEF W!Disclose, W!At, W!Apart, W!rows, W!Rest, Still
  <2> QED  BY <1>6, <2>1
<1>9. CASE W!Answer(r)
  <2>1. Still /\ W!Done(r)
    BY <1>9 DEF W!Answer, W!Apart, W!rows, W!Rest, Still
  <2> QED  BY <2>1, StillEnds
<1> QED  BY <1>1, <1>2, <1>3, <1>7, <1>8, <1>9

LEMMA CreatesKeep == ASSUME WInv, W!CreatesNext  PROVE Keeps
<1>1. CASE W!Next  BY <1>1, NextKeeps
<1>2. ASSUME NEW r \in Requests, W!Paying(r)  PROVE Keeps
  <2>1. CASE W!StartNew(r) \/ W!CheckCreateLimits(r) \/ W!ReserveNew(r) \/ W!PrepareNew(r) \/ W!RefundNew(r)
    BY <2>1, FormRequestsKeep
  <2>2. CASE W!StartApi(r) \/ W!Settle(r) \/ W!Submit(r) \/ W!Claim(r) \/ W!Disclose(r) \/ W!Answer(r)
    BY <2>2, PluginRequestsKeep
  <2>3. CASE W!WriteNew(r)  BY <2>3, WriteNewKeeps
  <2>4. CASE W!Plan(r)  BY <2>4, PlanKeeps
  <2>5. CASE W!PreparePluginPageCreates(r)  BY <2>5, AdmissionKeeps
  <2>6. CASE W!ReservePageCreates(r)  BY <2>6, ReservationKeeps
  <2>7. CASE W!CommitPluginPageCreates(r)  BY <2>7, CommitCreatesKeeps
  <2> QED  BY <1>2, <2>1, <2>2, <2>3, <2>4, <2>5, <2>6, <2>7 DEF W!Paying
<1>3. CASE W!Age \/ W!Alarm
  <2>1. Still /\ UNCHANGED write
    BY <1>3 DEF W!Age, W!Alarm, W!rows, W!Rest, Still
  <2> QED  BY <2>1, StandStill
<1> QED  BY <1>1, <1>2, <1>3 DEF W!CreatesNext

LEMMA DraftsStart == ASSUME PartsInit  PROVE WInv
<1>1. kinds \in Plans /\ pages = [p \in kinds.pages |-> W!First(p, kinds.weight)] /\ born = kinds.pages /\ edits = 0
  BY DEF PartsInit, W!CreatesInit, W!Init
<1>2. versions = {[id |-> p, page |-> p, text |-> 0, mark |-> 0] : p \in kinds.pages}
  BY DEF PartsInit, W!CreatesInit, W!Init
<1>3. write = [r \in Requests |-> W!Idle]
  BY DEF PartsInit, W!CreatesInit, W!Init
<1>4. kinds.pages \subseteq Pages
  BY <1>1, DraftsAssumption DEF W!CreatesAssumption, W!PagesAssumption
<1>5. PICK top \in Pages : \A p \in Pages : p <= top
  BY DraftsAssumption DEF W!CreatesAssumption, W!PagesAssumption
<1>6. top \in Nat /\ \A p \in Pages : p \in Nat
  BY PagesFinite
<1>7. DraftsOK
  <2>1. \A p \in kinds.pages : DOMAIN W!First(p, kinds.weight) = Fields
    BY DEF W!First, Fields
  <2> QED  BY <1>1, <1>4, <2>1 DEF DraftsOK
<1>8. \A x \in versions : x.id \in Pages /\ x.id = x.page /\ x.mark = 0
  BY <1>2, <1>4
<1>9. \A x, y \in versions : x # y => x.id # y.id
  BY <1>2
<1>10. VersionsOK
  <2>1. \A x \in versions : x.id \in Nat /\ x.mark \in Nat /\ x.mark <= edits
    <3>1. \A x \in versions : x.id \in Nat  BY <1>6, <1>8
    <3>2. \A x \in versions : x.mark = 0 /\ edits = 0  BY <1>1, <1>8
    <3> QED  BY <3>1, <3>2
  <2>2. \A x \in versions : x.id <= top
    BY <1>5, <1>8
  <2> QED  BY <1>1, <1>6, <1>9, <2>1, <2>2 DEF VersionsOK
<1>11. WritesOK
  BY <1>3, IdleCarries DEF WritesOK
<1> QED  BY <1>1, <1>7, <1>10, <1>11 DEF WInv

LEMMA DraftsStep == ASSUME WInv, [PartsNext]_<<part, vars, writeVars, formVars>>  PROVE WInv' /\ (UNCHANGED writeVars \/ Keeps)
<1>1. CASE W!CreatesNext  BY <1>1, CreatesKeep DEF Keeps
<1>2. CASE UNCHANGED writeVars
  <2>1. Still /\ UNCHANGED write  BY <1>2 DEF writeVars, Still
  <2> QED  BY <1>2, <2>1, StandStill DEF Keeps
<1> QED  BY <1>1, <1>2 DEF PartsNext

LEMMA DraftsInvariance == Parts => []WInv
BY DraftsStart, DraftsStep, PTL DEF Parts

(* No edit is lost and no draft goes unkept, whatever meets on the drafts.  *)
THEOREM DraftsHold == Parts => DraftsAreKept
<1>1. WInv /\ [PartsNext]_<<part, vars, writeVars, formVars>> =>
        [\A p \in DOMAIN pages \cap DOMAIN pages' :
            /\ pages'[p].text # pages[p].text =>
                   \E r \in Requests : W!Commits(r) /\ allowed /\ write[r].saw[p] = pages[p].text
            /\ pages'[p].tags # pages[p].tags => \E r \in Requests : W!Commits(r) /\ allowed /\ write[r].tags[p] = pages[p].tags
            /\ pages'[p].text \in {edits + 1, pages[p].text} \cup {x.text : x \in W!History(p)}]_W!vars
  <2> SUFFICES ASSUME WInv, [PartsNext]_<<part, vars, writeVars, formVars>>, W!vars' # W!vars  PROVE EditsStep
    BY DEF EditsStep
  <2>1. ~ UNCHANGED writeVars
    BY DEF writeVars, W!vars, W!rows
  <2> QED  BY <2>1, DraftsStep DEF Keeps
<1>2. WInv /\ [PartsNext]_<<part, vars, writeVars, formVars>> =>
        [/\ \A p \in DOMAIN pages' : (p \notin DOMAIN pages \/ pages'[p].text # pages[p].text) =>
                \E x \in versions' \ versions : x.page = p /\ x.text = pages'[p].text
         /\ \A x \in versions \ versions' : x.page \in DOMAIN pages' =>
                \E r \in Requests : W!Commits(r) /\ \E w \in write[r].listed :
                    w.page = x.page /\ w.id = x.id /\ (w = x \/ (w \notin versions /\ w.mark < x.mark))
         /\ \A x, w \in versions' : x # w => x.id # w.id]_W!vars
  <2> SUFFICES ASSUME WInv, [PartsNext]_<<part, vars, writeVars, formVars>>, W!vars' # W!vars  PROVE HistoryStep
    BY DEF HistoryStep
  <2>1. ~ UNCHANGED writeVars
    BY DEF writeVars, W!vars, W!rows
  <2> QED  BY <2>1, DraftsStep DEF Keeps
<1>3. Parts => W!EditsBuildOnWhatTheyReplace
  BY <1>1, DraftsInvariance, PTL DEF Parts, W!EditsBuildOnWhatTheyReplace
<1>4. Parts => W!HistoryKeepsEveryDraft
  BY <1>2, DraftsInvariance, PTL DEF Parts, W!HistoryKeepsEveryDraft
<1> QED  BY <1>3, <1>4 DEF DraftsAreKept, W!DraftsAreKept

(* What a create through the plugin API was admitted for holds when it      *)
(* lands.                                                                   *)
THEOREM PlansHold == Parts => PlansLandAsAdmitted
<1>1. WInv /\ [PartsNext]_<<part, vars, writeVars, formVars>> =>
        [\A r \in Requests : write[r].kind \in W!Asks /\ write[r].pc = "write" /\ write'[r] # write[r] /\ W!rows' # W!rows =>
            /\ W!Cardinality(DOMAIN pages') <= Limit
            /\ \A x \in W!ToSet(W!Chunk(write[r])) : {p \in DOMAIN pages' : pages'[p].slug = x.slug} = {x.id}]_W!vars
  <2> SUFFICES ASSUME WInv, [PartsNext]_<<part, vars, writeVars, formVars>>, W!vars' # W!vars  PROVE PlansStep
    BY CardinalityIs DEF PlansStep
  <2>1. ~ UNCHANGED writeVars
    BY DEF writeVars, W!vars, W!rows
  <2> QED  BY <2>1, DraftsStep DEF Keeps
<1> QED
  BY <1>1, DraftsInvariance, PTL DEF Parts, PlansLandAsAdmitted, W!PlansLandAsAdmitted

-----------------------------------------------------------------------------
(* What creates are charged.  A request that has been charged and has not   *)
(* written owes its pages; they are counted as a set of units.              *)
Owing(q) == q.kind \in W!Asks /\ q.pc \in {"write", "refund"}
Units(q) == IF Owing(q) THEN q.charged - q.written ELSE 0
Due == {x \in Requests \X Nat : x[2] \in 1..Units(write[x[1]])}
PayOK(q) ==
    /\ {"kind", "pc"} \subseteq DOMAIN q
    /\ Owing(q) => /\ {"charged", "written"} \subseteq DOMAIN q /\ q.charged \in Nat /\ q.written \in Nat /\ q.written <= q.charged
                   /\ q.pc = "write" => q.charged = Len(q.plan)
    /\ q.kind \in W!Asks /\ q.pc \in {"admit", "reserve"} => "written" \in DOMAIN q /\ q.written = 0
Payers == {"form", "api"}
BooksOK ==
    /\ books \in [Payers -> [net : Int, made : Nat]] /\ doubts \in Nat /\ IsFiniteSet(Due)
    /\ \A r \in Requests : PayOK(write[r])
    /\ books["api"].net >= Price * (books["api"].made + Cardinality(Due))
    /\ doubts = 0 => books["api"].net = Price * (books["api"].made + Cardinality(Due))
    /\ W!Left >= 0

(* The token of a form.  One submission holds its claim until it ends, and  *)
(* has no page made before it writes.                                       *)
Holding(q, t) == q.kind = "form" /\ q.claimed /\ q.token = t
Unwritten == {"disclose", "plan", "admit", "reserve", "write"}
TokenOK(q) ==
    /\ q.kind = "form" => /\ {"token", "claimed"} \subseteq DOMAIN q /\ q.token \in Tokens /\ q.claimed \in BOOLEAN
                          /\ IF q.pc = "claim" THEN ~ q.claimed ELSE q.claimed \/ q.token \in old
                          /\ q.pc \in Planning => Len(q.plan) = 1
    /\ q.kind \in {"api", "copy"} => "token" \in DOMAIN q /\ q.token = "none"
ClaimOK(t) ==
    /\ forms[t].pages <= 1 + forms[t].failures
    /\ t \notin claims => forms[t].pages <= forms[t].failures
    /\ \A r \in Requests : Holding(write[r], t) =>
           /\ t \in claims /\ \A d \in Requests : Holding(write[d], t) => d = r
           /\ write[r].pc \in Unwritten => forms[t].pages <= forms[t].failures
TokensOK == /\ forms \in [Tokens -> [pages : Nat, failures : Nat]]
            /\ \A r \in Requests : TokenOK(write[r])
            /\ \A t \in Tokens \ old : ClaimOK(t)

CInv == WInv /\ BooksOK /\ TokensOK

-----------------------------------------------------------------------------
LEMMA PriceIs == Price \in Nat /\ Funds \in Nat /\ "none" \notin Tokens /\ MaxPlan \in Nat \ {0}
  BY DraftsAssumption DEF W!CreatesAssumption

LEMMA Times ==
    /\ \A a, b \in Int : Price * (a + b) = Price * a + Price * b /\ Price * a \in Int
    /\ \A a, b \in Int : a >= b => Price * a >= Price * b
    /\ Price * 0 = 0
<1>1. Price \in Nat  BY PriceIs
<1>2. \A a, b \in Int : Price * (a + b) = Price * a + Price * b /\ Price * a \in Int
  BY <1>1
<1>3. ASSUME NEW a \in Int, NEW b \in Int, a >= b  PROVE Price * a >= Price * b
  <2>1. a - b \in Nat  BY <1>3
  <2>2. Price * (a - b) \in Nat  BY <1>1, <2>1
  <2>3. Price * (b + (a - b)) = Price * b + Price * (a - b)  BY <1>2, <1>3
  <2>4. b + (a - b) = a  BY <1>3
  <2>5. Price * b \in Int  BY <1>2
  <2> QED  BY <2>2, <2>3, <2>4, <2>5
<1> QED  BY <1>1, <1>2, <1>3

\* The units of one request are as many as it owes.
LEMMA UnitsCount ==
    ASSUME NEW O, IsFiniteSet(O), NEW r, \A x \in O : x[1] # r, NEW n \in Nat
    PROVE  IsFiniteSet(O \cup ({r} \X (1..n))) /\ Cardinality(O \cup ({r} \X (1..n))) = Cardinality(O) + n
<1>1. IsFiniteSet({r}) /\ Cardinality({r}) = 1  BY FS_Singleton
<1>2. IsFiniteSet(1..n) /\ Cardinality(1..n) = n
  <2>1. 1 \in Int /\ n \in Int  OBVIOUS
  <2>2. IsFiniteSet(1..n) /\ Cardinality(1..n) = IF 1 > n THEN 0 ELSE n - 1 + 1
    BY <2>1, FS_Interval
  <2> QED  BY <2>2
<1>9. PICK T : T = {r} \X (1..n)  OBVIOUS
<1>3. IsFiniteSet(T) /\ Cardinality(T) = 1 * n
  <2>1. IsFiniteSet(T) /\ Cardinality(T) = Cardinality({r}) * Cardinality(1..n)
    BY <1>9, <1>1, <1>2, FS_Product
  <2> QED  BY <1>1, <1>2, <2>1
<1>4. O \cap T = {}  BY <1>9
<1>5. IsFiniteSet(O \cup T) /\ Cardinality(O \cup T) = Cardinality(O) + Cardinality(T) - Cardinality(O \cap T)
  BY <1>3, FS_Union
<1>6. Cardinality(O \cap T) = 0  BY <1>4, FS_EmptySet
<1>7. Cardinality(O) \in Nat  BY FS_CardinalityType
<1>8. Cardinality(O \cup T) = Cardinality(O) + n  BY <1>3, <1>5, <1>6, <1>7
<1> QED  BY <1>9, <1>5, <1>8

LEMMA UnitsNat == ASSUME NEW q, PayOK(q)  PROVE Units(q) \in Nat
<1>1. CASE Owing(q)
  <2>1. q.charged \in Nat /\ q.written \in Nat /\ q.written <= q.charged  BY <1>1 DEF PayOK
  <2> QED  BY <1>1, <2>1 DEF Units
<1>2. CASE ~ Owing(q)  BY <1>2 DEF Units
<1> QED  BY <1>1, <1>2

\* One request goes on: its pages were charged for or refunded, made or given up.
LEMMA BooksMove ==
    ASSUME WritesOK, BooksOK, NEW r \in Requests, NEW q, write' = [write EXCEPT ![r] = q], PayOK(q),
           NEW c \in Int, NEW n \in Nat, NEW f \in Int, books' \in [Payers -> [net : Int, made : Nat]],
           books'["api"].net = books["api"].net + Price * c, books'["api"].made = books["api"].made + n,
           books'["form"].net = books["form"].net + Price * f, Price * (c + f) <= W!Left,
           doubts' \in Nat, doubts' = 0 => doubts = 0,
           c + Units(write[r]) >= n + Units(q), doubts' = 0 => c + Units(write[r]) = n + Units(q)
    PROVE  BooksOK'
<1>1. write'[r] = q /\ \A d \in Requests \ {r} : write'[d] = write[d]
  BY DEF WritesOK
<1>2. Units(write[r]) \in Nat /\ Units(q) \in Nat
  BY UnitsNat DEF BooksOK
<1>3. PICK O : O = {x \in Due : x[1] # r}  OBVIOUS
<1>4. Due = O \cup ({r} \X (1..Units(write[r])))
  BY <1>2, <1>3 DEF Due
<1>5. Due' = O \cup ({r} \X (1..Units(q)))
  <2>1. \A x \in Requests \X Nat : x[1] # r => Units(write'[x[1]]) = Units(write[x[1]])
    BY <1>1
  <2>2. Due' = {x \in Requests \X Nat : x[2] \in 1..Units(write'[x[1]])}
    BY DEF Due, Units, Owing
  <2> QED  BY <1>1, <1>2, <1>3, <2>1, <2>2 DEF Due
<1>6. IsFiniteSet(O) /\ Cardinality(O) \in Nat
  BY <1>3, FS_Subset, FS_CardinalityType DEF BooksOK
<1>7. \A x \in O : x[1] # r  BY <1>3
<1>8. Cardinality(Due) = Cardinality(O) + Units(write[r])
  BY <1>2, <1>4, <1>6, <1>7, UnitsCount
<1>9. IsFiniteSet(Due') /\ Cardinality(Due') = Cardinality(O) + Units(q)
  BY <1>2, <1>5, <1>6, <1>7, UnitsCount
<1>10. PICK net, had, due, new, fresh :
          /\ net = books["api"].net /\ had = books["api"].made /\ due = Cardinality(Due)
          /\ new = Cardinality(Due') /\ fresh = books'["api"].net
  OBVIOUS
<1>11. net \in Int /\ had \in Nat /\ due \in Nat /\ new \in Nat /\ fresh = net + Price * c
  BY <1>2, <1>6, <1>8, <1>9, <1>10 DEF BooksOK, Payers
<1>12. c + due >= n + new /\ (doubts' = 0 => c + due = n + new)
  BY <1>2, <1>6, <1>8, <1>9, <1>10
<1>13. net >= Price * (had + due) /\ (doubts = 0 => net = Price * (had + due))
  BY <1>10 DEF BooksOK
<1>14. Price * (had + due) + Price * c = Price * ((had + due) + c) /\ Price * (had + due) \in Int /\ Price * c \in Int
  <2>1. had + due \in Int /\ c \in Int  BY <1>11
  <2> QED  BY <2>1, Times
<1>15. Price * ((had + due) + c) >= Price * (had + n + new)
  <2>1. (had + due) + c \in Int /\ had + n + new \in Int /\ (had + due) + c >= had + n + new
    BY <1>11, <1>12
  <2> QED  BY <2>1, Times
<1>16. doubts' = 0 => (had + due) + c = had + n + new
  BY <1>11, <1>12
<1>17. Price * ((had + due) + c) \in Int /\ Price * (had + n + new) \in Int
  <2>1. (had + due) + c \in Int /\ had + n + new \in Int  BY <1>11
  <2> QED  BY <2>1, Times
<1>18. fresh >= Price * (had + n + new) /\ (doubts' = 0 => fresh = Price * (had + n + new))
  <2>1. net + Price * c >= Price * ((had + due) + c)  BY <1>11, <1>13, <1>14, <1>17
  <2>2. doubts' = 0 => net + Price * c = Price * (had + n + new)
    BY <1>13, <1>14, <1>16
  <2> QED  BY <1>11, <1>14, <1>15, <1>17, <2>1, <2>2
<1>19. W!Left' >= 0
  <2>1. Price * (c + f) = Price * c + Price * f /\ Price * c \in Int /\ Price * f \in Int  BY Times
  <2>2. books["form"].net \in Int /\ books["api"].net \in Int /\ Funds \in Int
    BY PriceIs DEF BooksOK, Payers
  <2>3. W!Left' = W!Left - Price * (c + f) /\ W!Left \in Int
    BY <2>1, <2>2 DEF W!Left
  <2> QED  BY <2>1, <2>3
<1>20. \A d \in Requests : PayOK(write'[d])
  BY <1>1 DEF BooksOK
<1>21. (\A d \in Requests : PayOK(write[d]))'
  BY <1>20 DEF PayOK, Owing
<1>22. books["api"].made + n = books'["api"].made  OBVIOUS
<1> QED  BY <1>9, <1>10, <1>18, <1>19, <1>21, <1>22 DEF BooksOK

\* The money stays as it is.
LEMMA BooksRest ==
    ASSUME WritesOK, BooksOK, NEW r \in Requests, NEW q, write' = [write EXCEPT ![r] = q], PayOK(q), UNCHANGED books,
           doubts' \in Nat, doubts' = 0 => doubts = 0,
           Units(write[r]) >= Units(q), doubts' = 0 => Units(write[r]) = Units(q)
    PROVE  BooksOK'
<1>1. 0 \in Int /\ 0 \in Nat /\ Price * 0 = 0 /\ Price * (0 + 0) <= W!Left
  BY Times DEF BooksOK
<1>2. Units(write[r]) \in Nat /\ Units(q) \in Nat
  BY UnitsNat DEF BooksOK
<1>3. books["api"].net \in Int /\ books["form"].net \in Int /\ books["api"].made \in Nat
  BY DEF BooksOK, Payers
<1>4. /\ books'["api"].net = books["api"].net + Price * 0 /\ books'["api"].made = books["api"].made + 0
      /\ books'["form"].net = books["form"].net + Price * 0 /\ books' \in [Payers -> [net : Int, made : Nat]]
  BY <1>1, <1>3 DEF BooksOK
<1>5. 0 + Units(write[r]) >= 0 + Units(q) /\ (doubts' = 0 => 0 + Units(write[r]) = 0 + Units(q))
  BY <1>2
<1> QED  BY <1>1, <1>4, <1>5, BooksMove

\* The claim of one token changes hands, or its books.
LEMMA TokensMove ==
    ASSUME WritesOK, TokensOK, NEW r \in Requests, NEW q, write' = [write EXCEPT ![r] = q], TokenOK(q), UNCHANGED old,
           forms' \in [Tokens -> [pages : Nat, failures : Nat]], NEW t,
           \A x \in Tokens \ {t} : forms'[x] = forms[x] /\ (x \in claims <=> x \in claims') /\ ~ Holding(q, x) /\ ~ Holding(write[r], x),
           t \in Tokens \ old =>
              /\ forms'[t].pages <= 1 + forms'[t].failures
              /\ t \notin claims' => forms'[t].pages <= forms'[t].failures
              /\ Holding(q, t) => t \in claims' /\ (q.pc \in Unwritten => forms'[t].pages <= forms'[t].failures)
              /\ \A d \in Requests \ {r} : ~ Holding(write[d], t)
    PROVE  TokensOK'
<1>1. write'[r] = q /\ \A d \in Requests \ {r} : write'[d] = write[d]
  BY DEF WritesOK
<1>2. (\A d \in Requests : TokenOK(write[d]))'
  <2>1. \A d \in Requests : TokenOK(write'[d])
    BY <1>1 DEF TokensOK
  <2> QED  BY <2>1 DEF TokenOK
<1>3. ASSUME NEW x \in Tokens \ old  PROVE ClaimOK(x)'
  <2>1. CASE x = t
    <3>1. \A d \in Requests : Holding(write'[d], t) => d = r
      BY <1>1, <1>3, <2>1
    <3>2. /\ forms'[t].pages <= 1 + forms'[t].failures
          /\ t \notin claims' => forms'[t].pages <= forms'[t].failures
          /\ \A d \in Requests : Holding(write'[d], t) =>
                 /\ t \in claims' /\ \A e \in Requests : Holding(write'[e], t) => e = d
                 /\ write'[d].pc \in Unwritten => forms'[t].pages <= forms'[t].failures
      BY <1>1, <1>3, <2>1, <3>1
    <3> QED  BY <2>1, <3>2 DEF ClaimOK, Holding
  <2>2. CASE x # t
    <3>1. forms'[x] = forms[x] /\ (x \in claims <=> x \in claims') /\ ~ Holding(q, x) /\ ~ Holding(write[r], x) /\ ClaimOK(x)
      BY <1>3, <2>2 DEF TokensOK
    <3>2. \A d \in Requests : Holding(write'[d], x) => d # r /\ write'[d] = write[d]
      BY <1>1, <3>1
    <3>3. \A d \in Requests : Holding(write'[d], x) =>
                 /\ x \in claims' /\ \A e \in Requests : Holding(write'[e], x) => e = d
                 /\ write'[d].pc \in Unwritten => forms'[x].pages <= forms'[x].failures
      BY <3>1, <3>2 DEF ClaimOK
    <3> QED  BY <3>1, <3>3 DEF ClaimOK, Holding
  <2> QED  BY <2>1, <2>2
<1> QED  BY <1>2, <1>3 DEF TokensOK

\* No claim changes hands.
LEMMA TokensRest ==
    ASSUME WritesOK, TokensOK, NEW r \in Requests, NEW q, write' = [write EXCEPT ![r] = q], TokenOK(q), UNCHANGED W!once,
           \A x : Holding(q, x) => Holding(write[r], x) /\ (q.pc \in Unwritten => write[r].pc \in Unwritten)
    PROVE  TokensOK'
<1>1. write'[r] = q /\ \A d \in Requests \ {r} : write'[d] = write[d]
  BY DEF WritesOK
<1>2. UNCHANGED <<claims, old, forms>>
  BY DEF W!once
<1>3. (\A d \in Requests : TokenOK(write[d]))'
  <2>1. \A d \in Requests : TokenOK(write'[d])
    BY <1>1 DEF TokensOK
  <2> QED  BY <1>2, <2>1 DEF TokenOK
<1>4. ASSUME NEW x \in Tokens \ old  PROVE ClaimOK(x)'
  <2>1. ClaimOK(x)  BY <1>4 DEF TokensOK
  <2>2. \A d \in Requests : Holding(write'[d], x) => Holding(write[d], x) /\ (write'[d].pc \in Unwritten => write[d].pc \in Unwritten)
    BY <1>1
  <2>3. \A d \in Requests : Holding(write'[d], x) =>
                 /\ x \in claims /\ \A e \in Requests : Holding(write'[e], x) => e = d
                 /\ write'[d].pc \in Unwritten => forms[x].pages <= forms[x].failures
    BY <2>1, <2>2 DEF ClaimOK
  <2> QED  BY <1>2, <2>1, <2>3 DEF ClaimOK, Holding
<1> QED  BY <1>2, <1>3, <1>4 DEF TokensOK

-----------------------------------------------------------------------------
(* A request that asks for no pages through the plugin API stays one.       *)
Other(r) == /\ write[r].kind \notin W!Asks
            /\ \E q : write' = [write EXCEPT ![r] = q] /\ q.kind \notin W!Asks /\ {"kind", "pc"} \subseteq DOMAIN q
LEMMA OtherIs ==
    ASSUME WInv, NEW r \in Requests
    PROVE  /\ write[r].kind \notin W!Asks /\ W!Done(r) => Other(r)
           /\ \A more : write[r].kind \notin W!Asks /\ W!Goto(r, more) /\ "kind" \notin DOMAIN more => Other(r)
           /\ \A q : W!Begin(r, q) /\ q.kind \notin W!Asks /\ {"kind", "pc"} \subseteq DOMAIN q => Other(r)
<1>1. DOMAIN W!Idle = {"kind", "pc"} /\ W!Idle.kind \notin W!Asks
  BY DEF W!Idle, W!Asks
<1>2. write[r].kind \notin W!Asks /\ W!Done(r) => Other(r)
  BY <1>1 DEF Other, W!Done
<1>3. ASSUME NEW more, write[r].kind \notin W!Asks, W!Goto(r, more), "kind" \notin DOMAIN more  PROVE Other(r)
  <2>1. PICK q : q = write[r]  OBVIOUS
  <2>2. PICK n : n = W!With(q, more)  OBVIOUS
  <2>3. {"kind", "pc"} \subseteq DOMAIN q  BY <2>1 DEF WInv, WritesOK, CarriesOK
  <2>4. DOMAIN n = DOMAIN q \cup DOMAIN more  BY <2>2 DEF W!With
  <2>5. \A x \in DOMAIN q : x \notin DOMAIN more => n[x] = q[x]  BY <2>2 DEF W!With
  <2>6. n.kind = q.kind  BY <1>3, <2>3, <2>5
  <2>7. write' = [write EXCEPT ![r] = n]  BY <1>3, <2>1, <2>2 DEF W!Goto, WInv, WritesOK
  <2> QED  BY <1>3, <2>1, <2>3, <2>4, <2>6, <2>7 DEF Other
<1>4. ASSUME NEW q, W!Begin(r, q), q.kind \notin W!Asks, {"kind", "pc"} \subseteq DOMAIN q  PROVE Other(r)
  BY <1>1, <1>4 DEF Other, W!Begin
<1> QED  BY <1>2, <1>3, <1>4

LEMMA ActIsOther == ASSUME WInv, NEW r \in Requests, W!Act(r)  PROVE Other(r)
<1>1. ASSUME NEW kind \in W!Forms \cup W!Slice \cup {"patch"}, W!Start(r, kind)  PROVE Other(r)
  <2>1. kind \notin W!Asks  BY DEF W!Forms, W!Slice, W!Asks
  <2>2. PICK P, saw : W!Begin(r, [kind |-> kind, pc |-> "row", targets |-> P, saw |-> saw])
    BY <1>1 DEF W!Start
  <2>3. PICK q : q = [kind |-> kind, pc |-> "row", targets |-> P, saw |-> saw]  OBVIOUS
  <2>4. q.kind = kind /\ DOMAIN q = {"kind", "pc", "targets", "saw"}  BY <2>3
  <2> QED  BY <2>1, <2>2, <2>3, <2>4, OtherIs
<1>2. CASE W!ReadRows(r)
  <2>1. write[r].kind \notin W!Asks  BY <1>2 DEF W!ReadRows, W!Forms, W!Slice, W!Asks
  <2>2. W!Done(r) \/ \E more : W!Goto(r, more) /\ "kind" \notin DOMAIN more
    <3>1. PICK read : /\ DOMAIN read = {"pc", "rows", "tags", "saw"}
                      /\ \/ W!Done(r) \/ W!Goto(r, read)
                         \/ \E x : W!Goto(r, W!With(read, [version |-> x]))
                         \/ \E x : W!Goto(r, W!With(read, [which |-> x]))
      <4> DEFINE P == write[r].targets
                 read == [pc |-> "prepare", rows |-> [p \in P |-> W!Row(p)], tags |-> [p \in P |-> pages[p].tags],
                          saw |-> [p \in P |-> pages[p].text]]
      <4>1. DOMAIN read = {"pc", "rows", "tags", "saw"}  OBVIOUS
      <4>2. \/ W!Done(r) \/ W!Goto(r, read)
            \/ \E x : W!Goto(r, W!With(read, [version |-> x]))
            \/ \E x : W!Goto(r, W!With(read, [which |-> x]))
        BY <1>2 DEF W!ReadRows
      <4> HIDE DEF read
      <4> QED  BY <4>1, <4>2
    <3>2. ASSUME NEW x, W!Goto(r, W!With(read, [version |-> x]))  PROVE \E more : W!Goto(r, more) /\ "kind" \notin DOMAIN more
      <4>1. DOMAIN W!With(read, [version |-> x]) = {"pc", "rows", "tags", "saw"} \cup {"version"}
        BY <3>1 DEF W!With
      <4> QED  BY <3>2, <4>1
    <3>3. ASSUME NEW x, W!Goto(r, W!With(read, [which |-> x]))  PROVE \E more : W!Goto(r, more) /\ "kind" \notin DOMAIN more
      <4>1. DOMAIN W!With(read, [which |-> x]) = {"pc", "rows", "tags", "saw"} \cup {"which"}
        BY <3>1 DEF W!With
      <4> QED  BY <3>3, <4>1
    <3>4. "kind" \notin DOMAIN read  BY <3>1
    <3>5. W!Goto(r, read) => \E more : W!Goto(r, more) /\ "kind" \notin DOMAIN more
      BY <3>4, Zenon
    <3>6. \/ W!Done(r) \/ W!Goto(r, read)
          \/ \E x : W!Goto(r, W!With(read, [version |-> x]))
          \/ \E x : W!Goto(r, W!With(read, [which |-> x]))
      BY <3>1
    <3> QED  BY <3>2, <3>3, <3>5, <3>6, Zenon
  <2> QED  BY <2>1, <2>2, OtherIs
<1>3. CASE W!ReadPatch(r)
  <2>1. write[r].kind \notin W!Asks  BY <1>3 DEF W!ReadPatch, W!At, W!Asks
  <2>2. W!Done(r) \/ \E x : W!Goto(r, [pc |-> "prepare", rows |-> x])  BY <1>3 DEF W!ReadPatch
  <2>3. \A x : "kind" \notin DOMAIN [pc |-> "prepare", rows |-> x]  OBVIOUS
  <2> QED  BY <2>1, <2>2, <2>3, OtherIs
<1>4. CASE W!Prepare(r)
  <2>1. write[r].kind \notin W!Asks  BY <1>4 DEF W!Prepare, W!Forms, W!Slice, W!Asks
  <2>2. W!Done(r) \/ \E x, y, z, w : W!Goto(r, [pc |-> "commit", ids |-> x, tags |-> y, slug |-> z, listed |-> w])
    BY <1>4 DEF W!Prepare
  <2>3. \A x, y, z, w : "kind" \notin DOMAIN [pc |-> "commit", ids |-> x, tags |-> y, slug |-> z, listed |-> w]  OBVIOUS
  <2> QED  BY <2>1, <2>2, <2>3, OtherIs
<1>5. CASE \/ W!SaveDraftContent(r) \/ W!CommitPluginPageUpdates(r) \/ W!Revert(r) \/ W!RemoveDraftHistory(r)
           \/ W!Replace(r) \/ W!ChangeTags(r) \/ W!Create(r) \/ W!UpdateWeights(r)
  <2>1. write[r].kind \notin W!Asks /\ W!Done(r)
    BY <1>5 DEF W!SaveDraftContent, W!CommitPluginPageUpdates, W!Revert, W!RemoveDraftHistory, W!Replace, W!ChangeTags,
                W!Create, W!UpdateWeights, W!Commit, W!Asks
  <2> QED  BY <2>1, OtherIs
<1>6. CASE W!StartCreate(r)
  <2>1. PICK q : q = [kind |-> "create", pc |-> "prepare", targets |-> {}]  OBVIOUS
  <2>2. DOMAIN q = {"kind", "pc", "targets"} /\ q.kind \notin W!Asks  BY <2>1 DEF W!Asks
  <2>3. W!Begin(r, q)  BY <1>6, <2>1 DEF W!StartCreate
  <2> QED  BY <2>2, <2>3, OtherIs
<1>7. CASE W!PrepareCreate(r)
  <2>1. write[r].kind \notin W!Asks  BY <1>7 DEF W!PrepareCreate, W!At, W!Asks
  <2>2. W!Done(r) \/ \E x, y, z, w : W!Goto(r, [pc |-> "commit", slug |-> x, ids |-> y, rows |-> z, tags |-> w])
    BY <1>7 DEF W!PrepareCreate
  <2>3. \A x, y, z, w : "kind" \notin DOMAIN [pc |-> "commit", slug |-> x, ids |-> y, rows |-> z, tags |-> w]  OBVIOUS
  <2> QED  BY <2>1, <2>2, <2>3, OtherIs
<1>8. CASE W!StartReorder(r)
  <2>1. \E x, y, z : W!Begin(r, [kind |-> "reorder", pc |-> "row", offset |-> x, before |-> y, after |-> z])
    BY <1>8 DEF W!StartReorder
  <2>2. PICK x, y, z : W!Begin(r, [kind |-> "reorder", pc |-> "row", offset |-> x, before |-> y, after |-> z])
    BY <2>1
  <2>3. PICK q : q = [kind |-> "reorder", pc |-> "row", offset |-> x, before |-> y, after |-> z]  OBVIOUS
  <2>4. DOMAIN q = {"kind", "pc", "offset", "before", "after"} /\ q.kind \notin W!Asks  BY <2>3 DEF W!Asks
  <2> QED  BY <2>2, <2>3, <2>4, OtherIs
<1>9. CASE W!ReadSequence(r)
  <2>1. write[r].kind \notin W!Asks  BY <1>9 DEF W!ReadSequence, W!At, W!Asks
  <2>2. W!Done(r) \/ \E x, y : W!Goto(r, [pc |-> "prepare", sequence |-> x, weights |-> y])
    BY <1>9 DEF W!ReadSequence
  <2>3. \A x, y : "kind" \notin DOMAIN [pc |-> "prepare", sequence |-> x, weights |-> y]  OBVIOUS
  <2> QED  BY <2>1, <2>2, <2>3, OtherIs
<1>10. CASE W!StartWeight(r)
  <2>1. \E x : W!Begin(r, [kind |-> "weight", pc |-> "prepare", weights |-> x])
    BY <1>10 DEF W!StartWeight
  <2>2. PICK x : W!Begin(r, [kind |-> "weight", pc |-> "prepare", weights |-> x])
    BY <2>1
  <2>3. PICK q : q = [kind |-> "weight", pc |-> "prepare", weights |-> x]  OBVIOUS
  <2>4. DOMAIN q = {"kind", "pc", "weights"} /\ q.kind \notin W!Asks  BY <2>3 DEF W!Asks
  <2> QED  BY <2>2, <2>3, <2>4, OtherIs
<1>11. CASE W!PrepareWeights(r)
  <2>1. write[r].kind \notin W!Asks  BY <1>11 DEF W!PrepareWeights, W!Asks
  <2>2. W!Done(r) \/ \E x : W!Goto(r, [pc |-> "commit", meta |-> x])
    BY <1>11 DEF W!PrepareWeights
  <2>3. \A x : "kind" \notin DOMAIN [pc |-> "commit", meta |-> x]  OBVIOUS
  <2> QED  BY <2>1, <2>2, <2>3, OtherIs
<1> QED  BY <1>1, <1>2, <1>3, <1>4, <1>5, <1>6, <1>7, <1>8, <1>9, <1>10, <1>11 DEF W!Act

(* What a call leaves of the books.                                         *)
LEMMA ChargeIs ==
    ASSUME BooksOK, NEW who \in Payers, NEW n \in Int, W!Charge(who, n)
    PROVE  /\ books' \in [Payers -> [net : Int, made : Nat]] /\ books'[who].net = books[who].net + Price * n
           /\ books'[who].made = books[who].made /\ \A x \in Payers \ {who} : books'[x] = books[x]
<1>1. books \in [Payers -> [net : Int, made : Nat]] /\ Price * n \in Int
  BY Times DEF BooksOK
<1>2. books' = [books EXCEPT ![who] = [books[who] EXCEPT !.net = books[who].net + Price * n]]
  BY DEF W!Charge
<1>3. books[who].net \in Int /\ books[who] \in [net : Int, made : Nat]  BY <1>1
<1>4. PICK b : b = [books[who] EXCEPT !.net = books[who].net + Price * n]  OBVIOUS
<1>5. b \in [net : Int, made : Nat] /\ b.net = books[who].net + Price * n /\ b.made = books[who].made
  BY <1>1, <1>3, <1>4
<1> QED  BY <1>1, <1>2, <1>4, <1>5
LEMMA DoubtIs ==
    ASSUME BooksOK, NEW o, W!Doubt(o)
    PROVE  doubts' \in Nat /\ (doubts' = 0 => doubts = 0 /\ o.seen # "unknown")
  BY DEF BooksOK, W!Doubt
LEMMA OutcomeIs ==
    ASSUME NEW may \in BOOLEAN, NEW o \in W!Outcomes(may)
    PROVE  /\ o.did \in BOOLEAN /\ (o.did => may)
           /\ o.seen = "done" => o.did
           /\ o.seen = "refused" => ~ o.did
           /\ o.seen \in {"done", "refused", "unknown"}
<1>1. CASE o = [did |-> may, seen |-> IF may THEN "done" ELSE "refused"]
  <2>1. o.did = may /\ o.seen = IF may THEN "done" ELSE "refused"  BY <1>1
  <2>2. CASE may  BY <2>1, <2>2
  <2>3. CASE ~ may  BY <2>1, <2>3
  <2> QED  BY <2>2, <2>3
<1>2. CASE o = [did |-> may, seen |-> "unknown"]
  <2>1. o.did = may /\ o.seen = "unknown"  BY <1>2
  <2> QED  BY <2>1
<1>3. CASE o = [did |-> FALSE, seen |-> "unknown"]
  <2>1. o.did = FALSE /\ o.seen = "unknown"  BY <1>3
  <2> QED  BY <2>1
<1> QED  BY <1>1, <1>2, <1>3 DEF W!Outcomes

LEMMA OtherKeeps ==
    ASSUME CInv, NEW r \in Requests, Other(r), NEW f \in Int, books' \in [Payers -> [net : Int, made : Nat]],
           books'["api"] = books["api"], books'["form"].net = books["form"].net + Price * f, Price * f <= W!Left,
           doubts' \in Nat, doubts' = 0 => doubts = 0, UNCHANGED W!once
    PROVE  BooksOK' /\ TokensOK'
<1>1. PICK q : write' = [write EXCEPT ![r] = q] /\ q.kind \notin W!Asks /\ {"kind", "pc"} \subseteq DOMAIN q
  BY DEF Other
<1>2. PayOK(q) /\ Units(q) = 0 /\ Units(write[r]) = 0
  BY <1>1 DEF PayOK, Owing, Units, Other
<1>3. TokenOK(q) /\ \A x : ~ Holding(q, x)
  BY <1>1 DEF TokenOK, W!Asks, Holding
<1>4. BooksOK'
  <2>1. books["api"].net \in Int /\ books["api"].made \in Nat  BY DEF CInv, BooksOK, Payers
  <2>2. Price * 0 = 0 /\ Price * (0 + f) = Price * f  BY Times
  <2>3. /\ books'["api"].net = books["api"].net + Price * 0 /\ books'["api"].made = books["api"].made + 0
        /\ Price * (0 + f) <= W!Left /\ 0 + Units(write[r]) = 0 + Units(q) /\ 0 + Units(write[r]) >= 0 + Units(q)
    BY <1>2, <2>1, <2>2
  <2>4. 0 \in Int /\ 0 \in Nat  OBVIOUS
  <2> QED  BY <1>1, <1>2, <2>3, <2>4, BooksMove DEF CInv, WInv
<1>5. TokensOK'
  BY <1>1, <1>3, TokensRest DEF CInv, WInv
<1> QED  BY <1>4, <1>5

LEMMA OtherStill ==
    ASSUME CInv, NEW r \in Requests, Other(r), UNCHANGED W!money, UNCHANGED W!once  PROVE BooksOK' /\ TokensOK'
<1>1. 0 \in Int /\ books["form"].net \in Int /\ Price * 0 = 0 /\ W!Left >= 0 /\ doubts \in Nat
  BY Times DEF CInv, BooksOK, Payers
<1>2. UNCHANGED <<books, doubts>>  BY DEF W!money
<1> QED  BY <1>1, <1>2, OtherKeeps DEF CInv, BooksOK

(* The admin form.                                                          *)
LEMMA NewKeeps ==
    ASSUME CInv, NEW r \in Requests,
           \/ W!StartNew(r) \/ W!CheckCreateLimits(r) \/ W!ReserveNew(r) \/ W!PrepareNew(r) \/ W!WriteNew(r) \/ W!RefundNew(r)
    PROVE  BooksOK' /\ TokensOK'
<1>1. WInv  BY DEF CInv
<1>2. "form" \in Payers /\ 1 \in Int /\ -1 \in Int /\ 0 \in Int /\ Price \in Nat /\ W!Left \in Int /\ W!Left >= 0
  BY PriceIs DEF CInv, BooksOK, Payers, W!Left
<1>3. ASSUME NEW more, "kind" \notin DOMAIN more, write[r].kind = "new", W!Done(r) \/ W!Goto(r, more)  PROVE Other(r)
  <2>1. write[r].kind \notin W!Asks  BY <1>3 DEF W!Asks
  <2> QED  BY <1>1, <1>3, <2>1, OtherIs
<1>4. PICK x, y, w : x = [pc |-> "reserve"] /\ y = [pc |-> "prepare"] /\ w = [pc |-> "refund"]
  OBVIOUS
<1>5. "kind" \notin DOMAIN x /\ "kind" \notin DOMAIN y /\ "kind" \notin DOMAIN w
  BY <1>4
<1>6. CASE W!StartNew(r)
  <2>1. PICK q : q = [kind |-> "new", pc |-> "count", token |-> "none"]  OBVIOUS
  <2>2. DOMAIN q = {"kind", "pc", "token"} /\ q.kind \notin W!Asks  BY <2>1 DEF W!Asks
  <2>3. W!Begin(r, q) /\ W!Still  BY <1>6, <2>1 DEF W!StartNew
  <2> QED  BY <1>1, <2>2, <2>3, OtherIs, OtherStill DEF W!Still, W!creates
<1>7. CASE W!CheckCreateLimits(r)
  <2>1. write[r].kind = "new" /\ W!Still /\ (W!Done(r) \/ W!Goto(r, x))
    BY <1>4, <1>7 DEF W!CheckCreateLimits, W!At
  <2> QED  BY <1>3, <1>5, <2>1, OtherStill DEF W!Still, W!creates
<1>8. CASE W!PrepareNew(r)
  <2>1. write[r].kind = "new" /\ W!Still  BY <1>8 DEF W!PrepareNew, W!At
  <2>2. PICK z : z = [pc |-> "write", slug |-> W!FreeSlug(0)]  OBVIOUS
  <2>3. "kind" \notin DOMAIN z  BY <2>2
  <2>4. W!Goto(r, IF allowed THEN z ELSE w)  BY <1>4, <1>8, <2>2 DEF W!PrepareNew
  <2>5. W!Goto(r, z) \/ W!Goto(r, w)  BY <2>4
  <2> QED  BY <1>3, <1>5, <2>1, <2>3, <2>5, OtherStill DEF W!Still, W!creates
<1>9. CASE W!ReserveNew(r)
  <2>1. write[r].kind = "new" /\ UNCHANGED W!once  BY <1>9 DEF W!ReserveNew, W!At
  <2>2. PICK o \in W!Outcomes(Price <= W!Left) :
          /\ IF o.did THEN W!Charge("form", 1) ELSE UNCHANGED books
          /\ W!Done(r) \/ W!Goto(r, y)
          /\ W!Doubt(o)
    BY <1>4, <1>9 DEF W!ReserveNew
  <2>3. Other(r)  BY <1>3, <1>5, <2>1, <2>2
  <2>4. (Price <= W!Left) \in BOOLEAN  OBVIOUS
  <2>5. o.did \in BOOLEAN /\ (o.did => Price <= W!Left)  BY <2>2, <2>4, OutcomeIs
  <2>6. doubts' \in Nat /\ (doubts' = 0 => doubts = 0)  BY <2>2, DoubtIs DEF CInv
  <2>7. CASE o.did
    <3>1. /\ books' \in [Payers -> [net : Int, made : Nat]] /\ books'["form"].net = books["form"].net + Price * 1
          /\ \A z \in Payers \ {"form"} : books'[z] = books[z]
      BY <1>2, <2>2, <2>7, ChargeIs DEF CInv
    <3>2. books'["api"] = books["api"]  BY <3>1 DEF Payers
    <3>3. Price * 1 <= W!Left  BY <1>2, <2>5, <2>7
    <3> QED  BY <1>2, <2>1, <2>3, <2>6, <3>1, <3>2, <3>3, OtherKeeps
  <2>8. CASE ~ o.did
    <3>1. UNCHANGED books  BY <2>2, <2>8
    <3>2. books["form"].net = books["form"].net + Price * 0 /\ Price * 0 <= W!Left
      BY <1>2, Times DEF CInv, BooksOK, Payers
    <3> QED  BY <1>2, <2>1, <2>3, <2>6, <3>1, <3>2, OtherKeeps DEF CInv, BooksOK
  <2> QED  BY <2>7, <2>8
<1>10. CASE W!WriteNew(r)
  <2>1. write[r].kind = "new" /\ UNCHANGED W!once  BY <1>10 DEF W!WriteNew, W!At
  <2>2. PICK o : /\ books' = [books EXCEPT !["form"].made = @ + 1] \/ UNCHANGED books
                 /\ W!Done(r) \/ W!Goto(r, w)
                 /\ W!Doubt(o)
    <3>1. PICK o \in W!Outcomes(allowed), p \in W!Fresh :
             /\ IF o.did THEN /\ W!Created(p, edits + 1, write[r].slug) /\ edits' = edits + 1
                              /\ books' = [books EXCEPT !["form"].made = @ + 1]
                         ELSE UNCHANGED <<W!rows, books>>
             /\ IF o.seen = "done" THEN W!Done(r) ELSE W!Goto(r, [pc |-> "refund"])
             /\ W!Faulty(o) /\ W!Doubt(o)
      BY <1>10 DEF W!WriteNew
    <3> QED  BY <1>4, <3>1
  <2>3. Other(r)  BY <1>3, <1>5, <2>1, <2>2
  <2>4. doubts' \in Nat /\ (doubts' = 0 => doubts = 0)  BY <2>2, DoubtIs DEF CInv
  <2>5. books \in [Payers -> [net : Int, made : Nat]] /\ Price * 0 = 0  BY Times DEF CInv, BooksOK
  <2>6. books' \in [Payers -> [net : Int, made : Nat]] /\ books'["api"] = books["api"] /\ books'["form"].net = books["form"].net
    BY <2>2, <2>5 DEF Payers
  <2>7. books'["form"].net = books["form"].net + Price * 0 /\ Price * 0 <= W!Left
    BY <1>2, <2>5, <2>6 DEF Payers
  <2> QED  BY <1>2, <2>1, <2>3, <2>4, <2>6, <2>7, OtherKeeps
<1>11. CASE W!RefundNew(r)
  <2>1. write[r].kind = "new" /\ W!Charge("form", -1) /\ W!Done(r) /\ UNCHANGED doubts /\ UNCHANGED W!once
    BY <1>11 DEF W!RefundNew, W!At
  <2>2. Other(r)  BY <1>3, <1>5, <2>1
  <2>3. /\ books' \in [Payers -> [net : Int, made : Nat]] /\ books'["form"].net = books["form"].net + Price * (-1)
        /\ \A z \in Payers \ {"form"} : books'[z] = books[z]
    BY <1>2, <2>1, ChargeIs DEF CInv
  <2>4. books'["api"] = books["api"]  BY <2>3 DEF Payers
  <2>5. Price * (-1) <= W!Left  BY <1>2
  <2>6. doubts' \in Nat /\ (doubts' = 0 => doubts = 0)  BY <2>1 DEF CInv, BooksOK
  <2> QED  BY <1>2, <2>1, <2>2, <2>3, <2>4, <2>5, <2>6, OtherKeeps
<1> QED  BY <1>6, <1>7, <1>8, <1>9, <1>10, <1>11

-----------------------------------------------------------------------------
(* A request for pages goes on with its token, or ends.                     *)
Onward(q, n) ==
    \/ n = W!Idle
    \/ /\ n.kind = q.kind /\ {"kind", "pc", "token"} \subseteq DOMAIN n /\ n.token = q.token
       /\ q.kind = "form" => /\ "claimed" \in DOMAIN n /\ n.claimed = q.claimed /\ n.pc # "claim" /\ q.pc # "claim"
                             /\ n.pc \in Planning => Len(n.plan) = 1
                             /\ n.pc \in Unwritten => q.pc \in Unwritten
LEMMA IdleIs == PayOK(W!Idle) /\ Units(W!Idle) = 0 /\ TokenOK(W!Idle) /\ \A x : ~ Holding(W!Idle, x)
<1>1. DOMAIN W!Idle = {"kind", "pc"} /\ W!Idle.kind = "none"
  BY DEF W!Idle
<1> QED  BY <1>1 DEF PayOK, Units, Owing, TokenOK, Holding, W!Asks

LEMMA OnwardTokens ==
    ASSUME CInv, NEW r \in Requests, write[r].kind \in W!Asks, NEW n, write' = [write EXCEPT ![r] = n], Onward(write[r], n),
           UNCHANGED W!once
    PROVE  TokensOK'
<1>1. TokenOK(write[r])  BY DEF CInv, TokensOK
<1>2. TokenOK(n)
  <2>1. CASE n = W!Idle  BY <2>1, IdleIs
  <2>2. CASE n # W!Idle  BY <1>1, <2>2 DEF TokenOK, Onward
  <2> QED  BY <2>1, <2>2
<1>3. \A x : Holding(n, x) => Holding(write[r], x) /\ (n.pc \in Unwritten => write[r].pc \in Unwritten)
  <2>1. CASE n = W!Idle  BY <2>1, IdleIs
  <2>2. CASE n # W!Idle  BY <2>2 DEF Holding, Onward
  <2> QED  BY <2>1, <2>2
<1> QED  BY <1>2, <1>3, TokensRest DEF CInv, WInv

LEMMA AskGoes ==
    ASSUME CInv, NEW r \in Requests, write[r].kind \in W!Asks, NEW more, W!Goto(r, more),
           {"kind", "token", "claimed"} \cap DOMAIN more = {}
    PROVE  \E n : /\ write' = [write EXCEPT ![r] = n] /\ DOMAIN n = DOMAIN write[r] \cup DOMAIN more
                  /\ n.kind = write[r].kind /\ {"kind", "pc", "token"} \subseteq DOMAIN n /\ n.token = write[r].token
                  /\ write[r].kind = "form" => "claimed" \in DOMAIN n /\ n.claimed = write[r].claimed
                  /\ \A x \in DOMAIN more : n[x] = more[x]
                  /\ \A x \in DOMAIN write[r] : x \notin DOMAIN more => n[x] = write[r][x]
<1>1. PICK q : q = write[r]  OBVIOUS
<1>2. PICK n : n = W!With(q, more)  OBVIOUS
<1>3. {"kind", "pc", "token"} \subseteq DOMAIN q /\ (q.kind = "form" => "claimed" \in DOMAIN q)
  BY <1>1 DEF CInv, TokensOK, TokenOK, BooksOK, PayOK, W!Asks
<1>4. DOMAIN n = DOMAIN q \cup DOMAIN more  BY <1>2 DEF W!With
<1>5. \A x \in DOMAIN more : n[x] = more[x]  BY <1>2 DEF W!With
<1>6. \A x \in DOMAIN q : x \notin DOMAIN more => n[x] = q[x]  BY <1>2 DEF W!With
<1>7. write' = [write EXCEPT ![r] = n]  BY <1>1, <1>2 DEF W!Goto, CInv, WInv, WritesOK
<1>8. n.kind = q.kind /\ n.token = q.token /\ (q.kind = "form" => n.claimed = q.claimed)
  BY <1>3, <1>6
<1>9. {"kind", "pc", "token"} \subseteq DOMAIN n /\ (q.kind = "form" => "claimed" \in DOMAIN n)
  BY <1>3, <1>4
<1> WITNESS n
<1> QED  BY <1>1, <1>4, <1>5, <1>6, <1>7, <1>8, <1>9

\* Nothing is owed by what went on.
Settled(r) == \E n : write' = [write EXCEPT ![r] = n] /\ PayOK(n) /\ Units(n) = 0 /\ Onward(write[r], n)
LEMMA PcGoes ==
    ASSUME CInv, NEW r \in Requests, write[r].kind \in W!Asks, NEW p, W!Goto(r, [pc |-> p]), write[r].pc # "claim",
           p \notin {"claim", "write", "refund"}, p \in Unwritten => write[r].pc \in Unwritten,
           p \in Planning => p = "reserve" /\ write[r].pc = "admit"
    PROVE  Settled(r) /\ write'[r].pc = p
<1>1. PICK more : more = [pc |-> p]  OBVIOUS
<1>2. DOMAIN more = {"pc"} /\ more.pc = p  BY <1>1
<1>3. W!Goto(r, more) /\ {"kind", "token", "claimed"} \cap DOMAIN more = {}  BY <1>1, <1>2
<1>4. PICK n : /\ write' = [write EXCEPT ![r] = n] /\ DOMAIN n = DOMAIN write[r] \cup DOMAIN more
               /\ n.kind = write[r].kind /\ {"kind", "pc", "token"} \subseteq DOMAIN n /\ n.token = write[r].token
               /\ write[r].kind = "form" => "claimed" \in DOMAIN n /\ n.claimed = write[r].claimed
               /\ \A x \in DOMAIN more : n[x] = more[x]
               /\ \A x \in DOMAIN write[r] : x \notin DOMAIN more => n[x] = write[r][x]
  BY <1>2, <1>3, AskGoes
<1>5. n.pc = p  BY <1>2, <1>4
<1>6. PayOK(n) /\ Units(n) = 0
  <2>1. PayOK(write[r])  BY DEF CInv, BooksOK
  <2>2. p \in {"admit", "reserve"} => write[r].pc = "admit"  BY DEF Planning
  <2>3. p \in {"admit", "reserve"} => "written" \in DOMAIN n /\ n.written = 0
    BY <1>2, <1>4, <2>1, <2>2 DEF PayOK
  <2> QED  BY <1>4, <1>5, <2>3 DEF PayOK, Units, Owing
<1>7. write[r].kind = "form" /\ p \in Planning => Len(n.plan) = 1
  <2> SUFFICES ASSUME write[r].kind = "form", p \in Planning  PROVE Len(n.plan) = 1  OBVIOUS
  <2>1. write[r].pc \in Planning  BY DEF Planning
  <2>2. PlanOK(write[r])  BY <2>1 DEF CInv, WInv, WritesOK, CarriesOK, Asking
  <2>3. Len(write[r].plan) = 1  BY <2>1 DEF CInv, TokensOK, TokenOK
  <2>4. n.plan = write[r].plan  BY <1>2, <1>4, <2>2 DEF PlanOK
  <2> QED  BY <2>3, <2>4
<1>8. Onward(write[r], n)  BY <1>4, <1>5, <1>7 DEF Onward
<1>9. write'[r].pc = p  BY <1>4, <1>5 DEF CInv, WInv, WritesOK
<1> QED  BY <1>4, <1>6, <1>8, <1>9 DEF Settled

LEMMA EndIs ==
    ASSUME CInv, NEW r \in Requests, write[r].kind \in W!Asks, write[r].pc # "claim", W!End(r, write[r])
    PROVE  Settled(r) /\ write'[r].pc \notin Unwritten
<1>1. CASE W!Done(r)
  <2>1. write' = [write EXCEPT ![r] = W!Idle]  BY <1>1 DEF W!Done
  <2>2. write'[r].pc \notin Unwritten  BY <2>1 DEF CInv, WInv, WritesOK, W!Idle, Unwritten
  <2> QED  BY <2>1, <2>2, IdleIs DEF Settled, Onward
<1>2. CASE W!Goto(r, [pc |-> "answer"])
  <2>1. PICK p : p = "answer"  OBVIOUS
  <2>2. W!Goto(r, [pc |-> p])  BY <1>2, <2>1
  <2>3. p \notin {"claim", "write", "refund"} /\ p \notin Unwritten /\ p \notin Planning
    BY <2>1 DEF Unwritten, Planning
  <2> QED  BY <2>2, <2>3, PcGoes
<1> QED  BY <1>1, <1>2 DEF W!End

\* What was owed is made, refunded, or given up.
LEMMA SettledBooks ==
    ASSUME CInv, NEW r \in Requests, Settled(r), NEW c \in Int, NEW n \in Nat, books' \in [Payers -> [net : Int, made : Nat]],
           books'["api"].net = books["api"].net + Price * c, books'["api"].made = books["api"].made + n,
           books'["form"] = books["form"], Price * c <= W!Left, doubts' \in Nat, doubts' = 0 => doubts = 0,
           c + Units(write[r]) >= n, doubts' = 0 => c + Units(write[r]) = n
    PROVE  BooksOK'
<1>1. PICK q : write' = [write EXCEPT ![r] = q] /\ PayOK(q) /\ Units(q) = 0  BY DEF Settled
<1>2. books["form"].net \in Int /\ Units(write[r]) \in Nat  BY UnitsNat DEF CInv, BooksOK, Payers
<1>3. books'["form"].net = books["form"].net + Price * 0
  <2>1. Price * 0 = 0  BY Times
  <2> QED  BY <1>2, <2>1
<1>4. c + 0 = c /\ n + Units(q) = n /\ Price * (c + 0) <= W!Left /\ 0 \in Int  BY <1>1
<1>5. c + Units(write[r]) >= n + Units(q) /\ (doubts' = 0 => c + Units(write[r]) = n + Units(q))
  BY <1>4
<1> QED  BY <1>1, <1>3, <1>4, <1>5, BooksMove DEF CInv, WInv

LEMMA SettledRest ==
    ASSUME CInv, NEW r \in Requests, Settled(r), UNCHANGED books, doubts' \in Nat, doubts' = 0 => doubts = 0,
           doubts' = 0 => Units(write[r]) = 0
    PROVE  BooksOK'
<1>1. books["api"].net \in Int /\ books["api"].made \in Nat /\ Units(write[r]) \in Nat /\ W!Left >= 0
  BY UnitsNat DEF CInv, BooksOK, Payers
<1>2. Price * 0 = 0 /\ 0 \in Int /\ 0 \in Nat  BY Times
<1>3. /\ books'["api"].net = books["api"].net + Price * 0 /\ books'["api"].made = books["api"].made + 0
      /\ books'["form"] = books["form"] /\ Price * 0 <= W!Left
      /\ 0 + Units(write[r]) >= 0 /\ (doubts' = 0 => 0 + Units(write[r]) = 0)
  BY <1>1, <1>2
<1> QED  BY <1>2, <1>3, SettledBooks DEF CInv, BooksOK

LEMMA SettledTokens ==
    ASSUME CInv, NEW r \in Requests, write[r].kind \in W!Asks, Settled(r), UNCHANGED W!once  PROVE TokensOK'
  BY OnwardTokens DEF Settled

\* The books are untouched, and nobody owed anything.
LEMMA QuietKeeps ==
    ASSUME CInv, NEW r \in Requests, write[r].kind \in W!Asks, Settled(r), Units(write[r]) = 0, UNCHANGED W!money, UNCHANGED W!once
    PROVE  BooksOK' /\ TokensOK'
<1>1. UNCHANGED <<books, doubts>> /\ doubts \in Nat  BY DEF W!money, CInv, BooksOK
<1> QED  BY <1>1, SettledRest, SettledTokens

LEMMA StartApiKeeps == ASSUME CInv, NEW r \in Requests, W!StartApi(r)  PROVE BooksOK' /\ TokensOK'
<1>1. PICK kind \in {"api", "copy"} : W!Begin(r, [kind |-> kind, pc |-> "plan", token |-> "none"])
  BY DEF W!StartApi
<1>2. PICK q : q = [kind |-> kind, pc |-> "plan", token |-> "none"]  OBVIOUS
<1>3. DOMAIN q = {"kind", "pc", "token"} /\ q.kind = kind /\ q.pc = "plan" /\ q.token = "none"  BY <1>2
<1>4. write' = [write EXCEPT ![r] = q] /\ write[r] = W!Idle  BY <1>1, <1>2 DEF W!Begin
<1>5. UNCHANGED <<books, doubts>> /\ UNCHANGED W!once  BY DEF W!StartApi, W!Still, W!creates, W!money
<1>6. PayOK(q) /\ Units(q) = 0 /\ Units(write[r]) = 0  BY <1>3, <1>4, IdleIs DEF PayOK, Units, Owing
<1>7. TokenOK(q) /\ \A x : ~ Holding(q, x)  BY <1>3 DEF TokenOK, Holding
<1>8. BooksOK'
  <2>1. doubts' \in Nat /\ Units(write[r]) >= Units(q)  BY <1>5, <1>6 DEF CInv, BooksOK
  <2> QED  BY <1>4, <1>5, <1>6, <2>1, BooksRest DEF CInv, WInv
<1>9. TokensOK'  BY <1>4, <1>5, <1>7, TokensRest DEF CInv, WInv
<1> QED  BY <1>8, <1>9

LEMMA SubmitKeeps == ASSUME CInv, NEW r \in Requests, W!Submit(r)  PROVE BooksOK' /\ TokensOK'
<1>1. PICK t \in Tokens : W!Begin(r, [kind |-> "form", pc |-> "claim", token |-> t, claimed |-> FALSE])
  BY DEF W!Submit
<1>2. PICK q : q = [kind |-> "form", pc |-> "claim", token |-> t, claimed |-> FALSE]  OBVIOUS
<1>3. /\ DOMAIN q = {"kind", "pc", "token", "claimed"} /\ q.kind = "form" /\ q.pc = "claim" /\ q.token = t
      /\ q.claimed = FALSE
  BY <1>2
<1>4. write' = [write EXCEPT ![r] = q] /\ write[r] = W!Idle  BY <1>1, <1>2 DEF W!Begin
<1>5. UNCHANGED <<books, doubts>> /\ UNCHANGED W!once  BY DEF W!Submit, W!Still, W!creates, W!money
<1>6. PayOK(q) /\ Units(q) = 0 /\ Units(write[r]) = 0  BY <1>3, <1>4, IdleIs DEF PayOK, Units, Owing
<1>7. TokenOK(q) /\ \A x : ~ Holding(q, x)  BY <1>3 DEF TokenOK, Holding, Planning
<1>8. BooksOK'
  <2>1. doubts' \in Nat /\ Units(write[r]) >= Units(q)  BY <1>5, <1>6 DEF CInv, BooksOK
  <2> QED  BY <1>4, <1>5, <1>6, <2>1, BooksRest DEF CInv, WInv
<1>9. TokensOK'  BY <1>4, <1>5, <1>7, TokensRest DEF CInv, WInv
<1> QED  BY <1>8, <1>9

LEMMA PlanSettles == ASSUME CInv, NEW r \in Requests, W!Plan(r)  PROVE BooksOK' /\ TokensOK'
<1>1. write[r].kind \in W!Asks /\ write[r].pc = "plan" /\ UNCHANGED W!money /\ UNCHANGED W!once
  BY DEF W!Plan, W!Still, W!creates
<1>2. Units(write[r]) = 0  BY <1>1 DEF Units, Owing
<1>3. PICK n, ids, sources : /\ write[r].kind = "form" => n = 1
                             /\ ids \in W!NewIds(n) /\ W!Planned(r, ids, sources)
  <2>1. CASE write[r].kind = "copy"
    <3>1. \E n, ids : ids \in W!NewIds(n) /\ W!Planned(r, ids, pages)  BY <2>1 DEF W!Plan
    <3> QED  BY <2>1, <3>1
  <2>2. CASE write[r].kind = "form"
    <3>1. \E n \in 1..1 : \E ids \in W!NewIds(n) : W!Planned(r, ids, << >>)  BY <2>2 DEF W!Plan
    <3>2. \A n \in 1..1 : n = 1  OBVIOUS
    <3> QED  BY <3>1, <3>2
  <2>3. CASE write[r].kind = "api"
    <3>1. \E n, ids : ids \in W!NewIds(n) /\ W!Planned(r, ids, << >>)  BY <2>3 DEF W!Plan
    <3> QED  BY <2>3, <3>1
  <2> QED  BY <1>1, <2>1, <2>2, <2>3 DEF W!Asks
<1>4. PICK I, S : W!Goto(r, [pc |-> "admit", plan |-> [i \in 1..W!Cardinality(ids) |-> [id |-> I[i], slug |-> S[i]]],
                             sources |-> sources, written |-> 0, charged |-> 0])
  BY <1>3 DEF W!Planned
<1>5. PICK P : P = [i \in 1..W!Cardinality(ids) |-> [id |-> I[i], slug |-> S[i]]]  OBVIOUS
<1>6. write[r].kind = "form" => Len(P) = 1
  <2>1. W!Cardinality(ids) = n  BY <1>3 DEF W!NewIds
  <2>2. ASSUME n = 1  PROVE Len(P) = 1
    <3>1. P = [i \in 1..1 |-> [id |-> I[i], slug |-> S[i]]]  BY <1>5, <2>1, <2>2
    <3> QED  BY <3>1
  <2> QED  BY <1>3, <2>2
<1>7. PICK more : more = [pc |-> "admit", plan |-> P, sources |-> sources, written |-> 0, charged |-> 0]  OBVIOUS
<1>8. DOMAIN more = {"pc", "plan", "sources", "written", "charged"} /\ more.plan = P /\ more.pc = "admit"
  BY <1>7
<1>9. W!Goto(r, more) /\ {"kind", "token", "claimed"} \cap DOMAIN more = {}  BY <1>4, <1>5, <1>7, <1>8
<1>10. PICK m : /\ write' = [write EXCEPT ![r] = m] /\ DOMAIN m = DOMAIN write[r] \cup DOMAIN more
                /\ m.kind = write[r].kind /\ {"kind", "pc", "token"} \subseteq DOMAIN m /\ m.token = write[r].token
                /\ write[r].kind = "form" => "claimed" \in DOMAIN m /\ m.claimed = write[r].claimed
                /\ \A x \in DOMAIN more : m[x] = more[x]
                /\ \A x \in DOMAIN write[r] : x \notin DOMAIN more => m[x] = write[r][x]
  BY <1>1, <1>9, AskGoes
<1>11. m.pc = "admit" /\ m.plan = P  BY <1>8, <1>10
<1>12. PayOK(m) /\ Units(m) = 0
  <2>1. "written" \in DOMAIN m /\ m.written = 0  BY <1>7, <1>8, <1>10
  <2> QED  BY <1>10, <1>11, <2>1 DEF PayOK, Units, Owing
<1>13. Onward(write[r], m)  BY <1>1, <1>6, <1>10, <1>11 DEF Onward, Unwritten
<1>14. Settled(r)  BY <1>10, <1>12, <1>13 DEF Settled
<1> QED  BY <1>1, <1>2, <1>14, QuietKeeps

LEMMA AdmissionSettles == ASSUME CInv, NEW r \in Requests, W!PreparePluginPageCreates(r)  PROVE BooksOK' /\ TokensOK'
<1>1. write[r].kind \in W!Asks /\ write[r].pc = "admit" /\ UNCHANGED W!money /\ UNCHANGED W!once
  BY DEF W!PreparePluginPageCreates, W!Still, W!creates
<1>2. Units(write[r]) = 0  BY <1>1 DEF Units, Owing
<1>3. Settled(r)
  <2>1. PICK p : p = "reserve"  OBVIOUS
  <2>2. W!Goto(r, [pc |-> p]) \/ W!End(r, write[r])  BY <2>1 DEF W!PreparePluginPageCreates
  <2>3. p \notin {"claim", "write", "refund"} /\ write[r].pc \in Unwritten /\ write[r].pc \in Planning
    BY <1>1, <2>1 DEF Unwritten, Planning
  <2> QED  BY <1>1, <2>1, <2>2, <2>3, PcGoes, EndIs
<1> QED  BY <1>1, <1>2, <1>3, QuietKeeps

\* The price of the whole plan is taken, or not, and the answer seen, or not.
LEMMA ReserveKeeps == ASSUME CInv, NEW r \in Requests, W!ReservePageCreates(r)  PROVE BooksOK' /\ TokensOK'
<1>1. write[r].kind \in W!Asks /\ write[r].pc = "reserve" /\ UNCHANGED W!once
  BY DEF W!ReservePageCreates
<1>2. Units(write[r]) = 0  BY <1>1 DEF Units, Owing
<1>3. PICK n : n = Len(write[r].plan)  OBVIOUS
<1>4. PICK o \in W!Outcomes(Price * n <= W!Left) :
        /\ IF o.did THEN W!Charge("api", n) ELSE UNCHANGED books
        /\ IF o.seen = "done" THEN W!Goto(r, [pc |-> "write", charged |-> n]) ELSE W!End(r, write[r])
        /\ W!Doubt(o)
  BY <1>3 DEF W!ReservePageCreates
<1>5. PlanOK(write[r])
  BY <1>1 DEF CInv, WInv, WritesOK, CarriesOK, Planning, Asking, W!Asks
<1>6. n \in Nat /\ write[r].written \in Nat /\ write[r].written < n
  BY <1>3, <1>5 DEF PlanOK
<1>7. (Price * n <= W!Left) \in BOOLEAN  OBVIOUS
<1>8. /\ o.did \in BOOLEAN /\ (o.did => Price * n <= W!Left)
      /\ o.seen = "done" => o.did
      /\ o.seen = "refused" => ~ o.did
      /\ o.seen \in {"done", "refused", "unknown"}
  BY <1>4, <1>7, OutcomeIs
<1>9. doubts' \in Nat /\ (doubts' = 0 => doubts = 0 /\ o.seen # "unknown")
  BY <1>4, DoubtIs DEF CInv
<1>10. o.did => /\ books' \in [Payers -> [net : Int, made : Nat]] /\ books'["api"].net = books["api"].net + Price * n
                /\ books'["api"].made = books["api"].made /\ books'["form"] = books["form"]
  <2>1. "api" \in Payers /\ n \in Int  BY <1>6 DEF Payers
  <2> SUFFICES ASSUME o.did
               PROVE  /\ books' \in [Payers -> [net : Int, made : Nat]] /\ books'["api"].net = books["api"].net + Price * n
                      /\ books'["api"].made = books["api"].made /\ books'["form"] = books["form"]
    OBVIOUS
  <2>2. W!Charge("api", n)  BY <1>4
  <2>3. /\ books' \in [Payers -> [net : Int, made : Nat]] /\ books'["api"].net = books["api"].net + Price * n
        /\ books'["api"].made = books["api"].made /\ \A x \in Payers \ {"api"} : books'[x] = books[x]
    BY <2>1, <2>2, ChargeIs DEF CInv
  <2> QED  BY <2>3 DEF Payers
<1>11. books["api"].made \in Nat /\ books["form"].net \in Int  BY DEF CInv, BooksOK, Payers
<1>12. CASE o.seen = "done"
  <2>1. PICK more : more = [pc |-> "write", charged |-> n]  OBVIOUS
  <2>2. DOMAIN more = {"pc", "charged"} /\ more.pc = "write" /\ more.charged = n  BY <2>1
  <2>3. W!Goto(r, more) /\ {"kind", "token", "claimed"} \cap DOMAIN more = {}  BY <1>4, <1>12, <2>1, <2>2
  <2>4. PICK m : /\ write' = [write EXCEPT ![r] = m] /\ DOMAIN m = DOMAIN write[r] \cup DOMAIN more
                 /\ m.kind = write[r].kind /\ {"kind", "pc", "token"} \subseteq DOMAIN m /\ m.token = write[r].token
                 /\ write[r].kind = "form" => "claimed" \in DOMAIN m /\ m.claimed = write[r].claimed
                 /\ \A x \in DOMAIN more : m[x] = more[x]
                 /\ \A x \in DOMAIN write[r] : x \notin DOMAIN more => m[x] = write[r][x]
    BY <1>1, <2>3, AskGoes
  <2>5. m.pc = "write" /\ m.charged = n /\ m.plan = write[r].plan /\ m.written = write[r].written
        /\ {"charged", "written"} \subseteq DOMAIN m
    BY <1>5, <2>2, <2>4 DEF PlanOK
  <2>6. write[r].written = 0  BY <1>1 DEF CInv, BooksOK, PayOK
  <2>7. PayOK(m)  BY <1>3, <1>6, <2>4, <2>5 DEF PayOK
  <2>8. Units(m) = n  BY <1>1, <1>6, <2>4, <2>5, <2>6 DEF Units, Owing
  <2>9. write[r].kind = "form" => Len(m.plan) = 1
    <3> SUFFICES ASSUME write[r].kind = "form"  PROVE Len(m.plan) = 1  OBVIOUS
    <3>1. TokenOK(write[r]) /\ write[r].pc \in Planning  BY <1>1 DEF CInv, TokensOK, Planning
    <3> QED  BY <2>5, <3>1 DEF TokenOK
  <2>10. Onward(write[r], m)  BY <1>1, <2>4, <2>5, <2>9 DEF Onward, Unwritten
  <2>11. TokensOK'  BY <1>1, <2>4, <2>10, OnwardTokens
  <2>12. BooksOK'
    <3>1. /\ books' \in [Payers -> [net : Int, made : Nat]] /\ books'["api"].net = books["api"].net + Price * n
          /\ books'["api"].made = books["api"].made + 0 /\ books'["form"].net = books["form"].net + Price * 0
      <4>1. Price * 0 = 0  BY Times
      <4>2. o.did  BY <1>8, <1>12
      <4> QED  BY <1>10, <1>11, <4>1, <4>2
    <3>2. Price * (n + 0) <= W!Left  BY <1>6, <1>8, <1>12
    <3>3. n + Units(write[r]) = 0 + Units(m) /\ n + Units(write[r]) >= 0 + Units(m) /\ n \in Int /\ 0 \in Int /\ 0 \in Nat
      BY <1>2, <1>6, <2>8
    <3> QED  BY <1>9, <2>4, <2>7, <3>1, <3>2, <3>3, BooksMove DEF CInv, WInv
  <2> QED  BY <2>11, <2>12
<1>13. CASE o.seen # "done"
  <2>1. Settled(r)  BY <1>1, <1>4, <1>13, EndIs
  <2>2. TokensOK'  BY <1>1, <2>1, SettledTokens
  <2>3. CASE o.did
    <3>1. doubts' # 0  BY <1>8, <1>9, <1>13, <2>3
    <3>2. books'["api"].made = books["api"].made + 0  BY <1>10, <1>11, <2>3
    <3>3. n + Units(write[r]) >= 0 /\ n \in Int /\ 0 \in Nat  BY <1>2, <1>6
    <3>4. BooksOK'  BY <1>8, <1>9, <1>10, <2>1, <2>3, <3>1, <3>2, <3>3, SettledBooks
    <3> QED  BY <2>2, <3>4
  <2>4. CASE ~ o.did
    <3>1. UNCHANGED books  BY <1>4, <2>4
    <3>2. BooksOK'  BY <1>2, <1>9, <2>1, <3>1, SettledRest
    <3> QED  BY <2>2, <3>2
  <2> QED  BY <2>3, <2>4
<1> QED  BY <1>8, <1>12, <1>13

\* A form makes its page.
LEMMA FormWrites ==
    ASSUME CInv, NEW r \in Requests, write[r].kind = "form", write[r].pc = "write", NEW m, write' = [write EXCEPT ![r] = m],
           Onward(write[r], m), m.pc \notin Unwritten, UNCHANGED <<claims, old>>,
           forms' = [forms EXCEPT ![write[r].token].pages = @ + 1]
    PROVE  TokensOK'
<1>1. PICK t : t = write[r].token  OBVIOUS
<1>2. TokenOK(write[r]) /\ t \in Tokens /\ (write[r].claimed \/ t \in old)
  BY <1>1 DEF CInv, TokensOK, TokenOK
<1>3. TokenOK(m) /\ \A x \in Tokens \ {t} : ~ Holding(m, x) /\ ~ Holding(write[r], x)
  <2>1. CASE m = W!Idle  BY <1>1, <2>1, IdleIs DEF Holding
  <2>2. CASE m # W!Idle  BY <1>1, <1>2, <2>2 DEF TokenOK, Holding, Onward, W!Asks
  <2> QED  BY <2>1, <2>2
<1>4. forms \in [Tokens -> [pages : Nat, failures : Nat]]  BY DEF CInv, TokensOK
<1>5. PICK f : f = [forms[t] EXCEPT !.pages = forms[t].pages + 1]  OBVIOUS
<1>6. forms[t] \in [pages : Nat, failures : Nat]  BY <1>2, <1>4
<1>7. f \in [pages : Nat, failures : Nat] /\ f.pages = forms[t].pages + 1 /\ f.failures = forms[t].failures
  BY <1>5, <1>6
<1>8. forms' = [forms EXCEPT ![t] = f]  BY <1>1, <1>5
<1>9. forms' \in [Tokens -> [pages : Nat, failures : Nat]] /\ forms'[t] = f /\ \A x \in Tokens \ {t} : forms'[x] = forms[x]
  BY <1>2, <1>4, <1>7, <1>8
<1>10. ASSUME t \notin old
       PROVE  /\ forms'[t].pages <= 1 + forms'[t].failures /\ t \in claims /\ \A d \in Requests \ {r} : ~ Holding(write[d], t)
  <2>1. Holding(write[r], t) /\ ClaimOK(t) /\ write[r].pc \in Unwritten
    BY <1>1, <1>2, <1>10 DEF Holding, CInv, TokensOK, Unwritten
  <2>2. forms[t].pages <= forms[t].failures /\ t \in claims /\ \A d \in Requests : Holding(write[d], t) => d = r
    BY <2>1 DEF ClaimOK
  <2> QED  BY <1>6, <1>7, <1>9, <2>2
<1> QED  BY <1>3, <1>9, <1>10, TokensMove DEF CInv, WInv

\* A submission ends; its claim may be given back, if no page was made or a failure is reported.
LEMMA FormEnds ==
    ASSUME CInv, NEW r \in Requests, write[r].kind = "form", write[r].pc # "claim", W!Done(r), UNCHANGED old,
           claims' = claims \/ (write[r].claimed /\ claims' = claims \ {write[r].token}),
           \/ UNCHANGED forms /\ (write[r].pc \in Unwritten \/ UNCHANGED claims)
           \/ forms' = [forms EXCEPT ![write[r].token].failures = @ + 1]
    PROVE  TokensOK'
<1>1. PICK t : t = write[r].token  OBVIOUS
<1>2. t \in Tokens /\ (write[r].claimed \/ t \in old)
  BY <1>1 DEF CInv, TokensOK, TokenOK
<1>3. write' = [write EXCEPT ![r] = W!Idle] /\ TokenOK(W!Idle) /\ \A x : ~ Holding(W!Idle, x)
  BY IdleIs DEF W!Done
<1>4. \A x \in Tokens \ {t} : ~ Holding(write[r], x) /\ (x \in claims <=> x \in claims')
  BY <1>1 DEF Holding
<1>5. forms \in [Tokens -> [pages : Nat, failures : Nat]] /\ forms[t] \in [pages : Nat, failures : Nat]
  BY <1>2 DEF CInv, TokensOK
<1>6. PICK f : f = [forms[t] EXCEPT !.failures = forms[t].failures + 1]  OBVIOUS
<1>7. f \in [pages : Nat, failures : Nat] /\ f.pages = forms[t].pages /\ f.failures = forms[t].failures + 1
  BY <1>5, <1>6
<1>8. UNCHANGED forms \/ forms' = [forms EXCEPT ![t] = f]  BY <1>1, <1>6
<1>9. /\ forms' \in [Tokens -> [pages : Nat, failures : Nat]] /\ \A x \in Tokens \ {t} : forms'[x] = forms[x]
      /\ forms'[t].pages = forms[t].pages
      /\ \/ forms'[t].failures = forms[t].failures /\ (write[r].pc \in Unwritten \/ UNCHANGED claims)
         \/ forms'[t].failures = forms[t].failures + 1
  <2>1. CASE UNCHANGED forms /\ (write[r].pc \in Unwritten \/ UNCHANGED claims)  BY <1>5, <2>1
  <2>2. CASE forms' = [forms EXCEPT ![write[r].token].failures = @ + 1]
    <3>1. forms' = [forms EXCEPT ![t] = f]  BY <1>1, <1>6, <2>2
    <3> QED  BY <1>2, <1>5, <1>7, <3>1
  <2> QED  BY <2>1, <2>2
<1>10. ASSUME t \notin old
       PROVE  /\ forms'[t].pages <= 1 + forms'[t].failures
              /\ t \notin claims' => forms'[t].pages <= forms'[t].failures
              /\ \A d \in Requests \ {r} : ~ Holding(write[d], t)
  <2>1. Holding(write[r], t) /\ ClaimOK(t)
    BY <1>1, <1>2, <1>10 DEF Holding, CInv, TokensOK
  <2>2. /\ forms[t].pages <= 1 + forms[t].failures /\ t \in claims /\ \A d \in Requests : Holding(write[d], t) => d = r
        /\ write[r].pc \in Unwritten => forms[t].pages <= forms[t].failures
    BY <2>1 DEF ClaimOK
  <2>3. forms[t].pages \in Nat /\ forms[t].failures \in Nat  BY <1>5
  <2> QED  BY <1>9, <2>2, <2>3
<1> QED  BY <1>3, <1>4, <1>9, <1>10, TokensMove DEF CInv, WInv

\* A token is claimed.
LEMMA ClaimTakes ==
    ASSUME CInv, NEW r \in Requests, write[r].kind = "form", write[r].pc = "claim", NEW m, write' = [write EXCEPT ![r] = m],
           TokenOK(m), \A x : Holding(m, x) => x = write[r].token, UNCHANGED <<old, forms>>,
           write[r].token \notin claims, claims' = claims \cup {write[r].token}
    PROVE  TokensOK'
<1>1. PICK t : t = write[r].token  OBVIOUS
<1>2. t \in Tokens /\ \A x : ~ Holding(write[r], x)
  BY <1>1 DEF CInv, TokensOK, TokenOK, Holding
<1>3. forms \in [Tokens -> [pages : Nat, failures : Nat]] /\ forms[t] \in [pages : Nat, failures : Nat]
  BY <1>2 DEF CInv, TokensOK
<1>4. ASSUME t \notin old
      PROVE  /\ forms[t].pages <= 1 + forms[t].failures /\ forms[t].pages <= forms[t].failures
             /\ \A d \in Requests : ~ Holding(write[d], t)
  <2>1. ClaimOK(t) /\ t \notin claims  BY <1>1, <1>2, <1>4 DEF CInv, TokensOK
  <2> QED  BY <1>3, <2>1 DEF ClaimOK
<1>5. \A x \in Tokens \ {t} : forms'[x] = forms[x] /\ (x \in claims <=> x \in claims') /\ ~ Holding(m, x) /\ ~ Holding(write[r], x)
  BY <1>1, <1>2
<1>6. t \in claims'  BY <1>1
<1> QED  BY <1>1, <1>3, <1>4, <1>5, <1>6, TokensMove DEF CInv, WInv

LEMMA ClaimSettles == ASSUME CInv, NEW r \in Requests, W!Claim(r)  PROVE BooksOK' /\ TokensOK'
<1>1. write[r].kind = "form" /\ write[r].pc = "claim" /\ UNCHANGED W!money /\ UNCHANGED <<old, forms>> /\ write[r].kind \in W!Asks
  BY DEF W!Claim, W!Asks
<1>2. PICK x, y : x = [pc |-> "disclose"] /\ y = [pc |-> "disclose", claimed |-> TRUE]  OBVIOUS
<1>3. /\ DOMAIN x = {"pc"} /\ x.pc = "disclose"
      /\ DOMAIN y = {"pc", "claimed"} /\ y.pc = "disclose" /\ y.claimed = TRUE
  BY <1>2
<1>4. PICK q : q = write[r]  OBVIOUS
<1>5. TokenOK(q) /\ q.kind = "form" /\ q.pc = "claim" /\ {"kind", "pc", "token", "claimed"} \subseteq DOMAIN q
  BY <1>1, <1>4 DEF CInv, TokensOK, TokenOK, BooksOK, PayOK
<1>6. Units(q) = 0  BY <1>5 DEF Units, Owing
<1>7. ASSUME NEW m, write' = [write EXCEPT ![r] = m], PayOK(m), Units(m) = 0  PROVE BooksOK'
  <2>1. UNCHANGED books /\ doubts' \in Nat /\ doubts' = doubts  BY <1>1 DEF W!money, CInv, BooksOK
  <2>2. Units(write[r]) >= Units(m) /\ Units(write[r]) = Units(m)  BY <1>4, <1>6, <1>7
  <2> QED  BY <1>7, <2>1, <2>2, BooksRest DEF CInv, WInv
<1>8. ASSUME NEW more, more = x \/ more = y, W!Goto(r, more)
      PROVE  \E m : /\ write' = [write EXCEPT ![r] = m] /\ PayOK(m) /\ Units(m) = 0
                    /\ m.kind = "form" /\ m.token = q.token /\ m.pc = "disclose" /\ {"token", "claimed"} \subseteq DOMAIN m
                    /\ (more = x => m.claimed = q.claimed) /\ (more = y => m.claimed = TRUE)
  <2>1. PICK m : m = W!With(q, more)  OBVIOUS
  <2>2. DOMAIN m = DOMAIN q \cup DOMAIN more  BY <2>1 DEF W!With
  <2>3. \A z \in DOMAIN more : m[z] = more[z]  BY <2>1 DEF W!With
  <2>4. \A z \in DOMAIN q : z \notin DOMAIN more => m[z] = q[z]  BY <2>1 DEF W!With
  <2>5. write' = [write EXCEPT ![r] = m]  BY <1>4, <1>8, <2>1 DEF W!Goto, CInv, WInv, WritesOK
  <2>6. m.kind = "form" /\ m.token = q.token /\ m.pc = "disclose" /\ {"kind", "pc", "token", "claimed"} \subseteq DOMAIN m
    BY <1>3, <1>5, <1>8, <2>2, <2>3, <2>4
  <2>7. (more = x => m.claimed = q.claimed) /\ (more = y => m.claimed = TRUE)
    BY <1>3, <1>5, <2>3, <2>4
  <2>8. PayOK(m) /\ Units(m) = 0  BY <2>6 DEF PayOK, Units, Owing
  <2> QED  BY <2>5, <2>6, <2>7, <2>8
<1>9. CASE q.token \in old /\ W!Goto(r, x) /\ UNCHANGED claims
  <2>1. PICK m : /\ write' = [write EXCEPT ![r] = m] /\ PayOK(m) /\ Units(m) = 0
                 /\ m.kind = "form" /\ m.token = q.token /\ m.pc = "disclose" /\ {"token", "claimed"} \subseteq DOMAIN m
                 /\ m.claimed = q.claimed
    BY <1>8, <1>9
  <2>2. TokenOK(m) /\ \A z : ~ Holding(m, z)  BY <1>5, <1>9, <2>1 DEF TokenOK, Holding, Planning
  <2>3. UNCHANGED W!once  BY <1>1, <1>9 DEF W!once
  <2>4. TokensOK'  BY <2>1, <2>2, <2>3, TokensRest DEF CInv, WInv
  <2> QED  BY <1>7, <2>1, <2>4
<1>10. CASE W!Done(r) /\ UNCHANGED claims
  <2>1. write' = [write EXCEPT ![r] = W!Idle]  BY <1>10 DEF W!Done
  <2>2. UNCHANGED W!once  BY <1>1, <1>10 DEF W!once
  <2>3. TokensOK'  BY <2>1, <2>2, IdleIs, TokensRest DEF CInv, WInv
  <2> QED  BY <1>7, <2>1, <2>3, IdleIs
<1>11. CASE q.token \notin claims /\ claims' = claims \cup {q.token} /\ W!Goto(r, y)
  <2>1. PICK m : /\ write' = [write EXCEPT ![r] = m] /\ PayOK(m) /\ Units(m) = 0
                 /\ m.kind = "form" /\ m.token = q.token /\ m.pc = "disclose" /\ {"token", "claimed"} \subseteq DOMAIN m
                 /\ m.claimed = TRUE
    BY <1>8, <1>11
  <2>2. TokenOK(m) /\ \A z : Holding(m, z) => z = q.token  BY <1>5, <2>1 DEF TokenOK, Holding, Planning
  <2>3. TokensOK'  BY <1>1, <1>4, <1>11, <2>1, <2>2, ClaimTakes
  <2> QED  BY <1>7, <2>1, <2>3
<1>12. CASE q.token \notin claims /\ claims' = claims \cup {q.token} /\ W!Done(r)
  <2>1. write' = [write EXCEPT ![r] = W!Idle]  BY <1>12 DEF W!Done
  <2>2. TokensOK'  BY <1>1, <1>4, <1>12, <2>1, IdleIs, ClaimTakes
  <2> QED  BY <1>7, <2>1, <2>2, IdleIs
<1>13. \/ q.token \in old /\ W!Goto(r, x) /\ UNCHANGED claims
       \/ W!Done(r) /\ UNCHANGED claims
       \/ q.token \notin claims /\ claims' = claims \cup {q.token} /\ W!Goto(r, y)
       \/ q.token \notin claims /\ claims' = claims \cup {q.token} /\ W!Done(r)
  BY <1>2, <1>4 DEF W!Claim, W!Used
<1> QED  BY <1>9, <1>10, <1>11, <1>12, <1>13

\* A request that owes nothing ends.
LEMMA DoneBooks ==
    ASSUME CInv, NEW r \in Requests, W!Done(r), Units(write[r]) = 0, UNCHANGED W!money  PROVE BooksOK'
<1>1. write' = [write EXCEPT ![r] = W!Idle]  BY DEF W!Done
<1>2. UNCHANGED books /\ doubts' \in Nat /\ doubts' = doubts  BY DEF W!money, CInv, BooksOK
<1>3. Units(write[r]) >= Units(W!Idle) /\ Units(write[r]) = Units(W!Idle)  BY IdleIs
<1> QED  BY <1>1, <1>2, <1>3, IdleIs, BooksRest DEF CInv, WInv

LEMMA DiscloseKeeps == ASSUME CInv, NEW r \in Requests, W!Disclose(r)  PROVE BooksOK' /\ TokensOK'
<1>1. write[r].kind = "form" /\ write[r].pc = "disclose" /\ UNCHANGED W!money /\ UNCHANGED <<old, forms>> /\ write[r].kind \in W!Asks
  BY DEF W!Disclose, W!At, W!Asks
<1>2. Units(write[r]) = 0  BY <1>1 DEF Units, Owing
<1>3. CASE W!Goto(r, [pc |-> "plan"]) /\ UNCHANGED claims
  <2>1. PICK p : p = "plan"  OBVIOUS
  <2>2. W!Goto(r, [pc |-> p])  BY <1>3, <2>1
  <2>3. p \notin {"claim", "write", "refund"} /\ p \notin Planning /\ write[r].pc \in Unwritten
    BY <1>1, <2>1 DEF Unwritten, Planning
  <2>4. Settled(r)  BY <1>1, <2>2, <2>3, PcGoes
  <2>5. UNCHANGED W!once  BY <1>1, <1>3 DEF W!once
  <2> QED  BY <1>1, <1>2, <2>4, <2>5, QuietKeeps
<1>4. CASE W!Done(r) /\ W!Release(write[r])
  <2>1. claims' = claims \/ (write[r].claimed /\ claims' = claims \ {write[r].token})
    BY <1>4 DEF W!Release
  <2>2. write[r].pc \in Unwritten /\ write[r].pc # "claim"  BY <1>1 DEF Unwritten
  <2>3. TokensOK'  BY <1>1, <1>4, <2>1, <2>2, FormEnds
  <2> QED  BY <1>1, <1>2, <1>4, <2>3, DoneBooks
<1> QED  BY <1>3, <1>4 DEF W!Disclose

LEMMA AnswerKeeps == ASSUME CInv, NEW r \in Requests, W!Answer(r)  PROVE BooksOK' /\ TokensOK'
<1>1. write[r].kind = "form" /\ write[r].pc = "answer" /\ UNCHANGED W!money /\ UNCHANGED old /\ W!Done(r)
  BY DEF W!Answer, W!At
<1>2. Units(write[r]) = 0  BY <1>1 DEF Units, Owing
<1>3. BooksOK'  BY <1>1, <1>2, DoneBooks
<1>4. CASE UNCHANGED <<claims, forms>>
  BY <1>1, <1>3, <1>4, FormEnds
<1>5. CASE W!Release(write[r]) /\ forms' = [forms EXCEPT ![write[r].token].failures = @ + 1]
  <2>1. claims' = claims \/ (write[r].claimed /\ claims' = claims \ {write[r].token})
    BY <1>5 DEF W!Release
  <2> QED  BY <1>1, <1>3, <1>5, <2>1, FormEnds
<1> QED  BY <1>4, <1>5 DEF W!Answer

\* What was not written is refunded, unless the refund fails or nobody knows what was.
LEMMA SettleKeeps == ASSUME CInv, NEW r \in Requests, W!Settle(r)  PROVE BooksOK' /\ TokensOK'
<1>1. write[r].kind \in W!Asks /\ write[r].pc \in {"refund", "withhold"} /\ UNCHANGED W!once /\ W!End(r, write[r])
  BY DEF W!Settle
<1>2. Settled(r)  BY <1>1, EndIs
<1>3. TokensOK'  BY <1>1, <1>2, SettledTokens
<1>4. PayOK(write[r]) /\ doubts \in Nat /\ W!Left >= 0 /\ W!Left \in Int /\ books["api"].made \in Nat
  BY PriceIs DEF CInv, BooksOK, Payers, W!Left
<1>5. CASE write[r].pc = "withhold"
  <2>1. Units(write[r]) = 0 /\ UNCHANGED <<books, doubts>>
    BY <1>5 DEF Units, Owing, W!Settle, W!Refundable, W!money
  <2>2. BooksOK'  BY <1>2, <1>4, <2>1, SettledRest
  <2> QED  BY <1>3, <2>2
<1>6. CASE write[r].pc = "refund"
  <2>1. \/ W!Charge("api", write[r].written - write[r].charged) /\ UNCHANGED doubts
        \/ doubts' = doubts + 1 /\ UNCHANGED books
    BY <1>6 DEF W!Settle, W!Refundable
  <2>2. PICK k : k = Units(write[r])  OBVIOUS
  <2>3. k \in Nat /\ write[r].written - write[r].charged = -k
    BY <1>1, <1>4, <1>6, <2>2 DEF PayOK, Owing, Units
  <2>4. CASE doubts' = doubts + 1 /\ UNCHANGED books
    <3>1. doubts' \in Nat /\ doubts' # 0  BY <1>4, <2>4
    <3>2. BooksOK'  BY <1>2, <2>4, <3>1, SettledRest
    <3> QED  BY <1>3, <3>2
  <2>5. CASE W!Charge("api", write[r].written - write[r].charged) /\ UNCHANGED doubts
    <3>1. -k \in Int /\ "api" \in Payers  BY <2>3 DEF Payers
    <3>2. W!Charge("api", -k)  BY <2>3, <2>5
    <3>3. /\ books' \in [Payers -> [net : Int, made : Nat]] /\ books'["api"].net = books["api"].net + Price * (-k)
          /\ books'["api"].made = books["api"].made /\ \A x \in Payers \ {"api"} : books'[x] = books[x]
      BY <3>1, <3>2, ChargeIs DEF CInv
    <3>4. books'["form"] = books["form"] /\ books'["api"].made = books["api"].made + 0  BY <1>4, <3>3 DEF Payers
    <3>5. Price * (-k) <= W!Left
      <4>1. 0 >= -k /\ 0 \in Int  BY <2>3
      <4>2. Price * 0 >= Price * (-k) /\ Price * 0 = 0  BY <3>1, <4>1, Times
      <4>3. Price * (-k) \in Int  BY <3>1, Times
      <4> QED  BY <1>4, <4>2, <4>3
    <3>6. -k + Units(write[r]) = 0 /\ 0 \in Nat  BY <2>2, <2>3
    <3>7. BooksOK'  BY <1>2, <1>4, <2>5, <3>1, <3>3, <3>4, <3>5, <3>6, SettledBooks
    <3> QED  BY <1>3, <3>7
  <2> QED  BY <2>1, <2>4, <2>5
<1> QED  BY <1>1, <1>5, <1>6

\* A chunk of the plan is made, or not, and the answer seen, or not.
LEMMA CommitSettles == ASSUME CInv, NEW r \in Requests, W!CommitPluginPageCreates(r)  PROVE BooksOK' /\ TokensOK'
<1>1. write[r].kind \in W!Asks /\ write[r].pc = "write" /\ UNCHANGED <<claims, old>>
  BY DEF W!CommitPluginPageCreates
<1>2. PICK q : q = write[r]  OBVIOUS
<1>3. PICK n : n = Len(W!Chunk(q))  OBVIOUS
<1>4. PICK o \in W!Outcomes(W!Admitted(q)) :
        /\ IF o.did THEN /\ books' = [books EXCEPT !["api"].made = @ + n]
                         /\ forms' = IF q.token = "none" THEN forms ELSE [forms EXCEPT ![q.token].pages = @ + n]
                    ELSE UNCHANGED <<books, forms>>
        /\ CASE o.seen = "done" -> IF q.written + n = Len(q.plan) THEN W!End(r, q) ELSE W!Goto(r, [written |-> q.written + n])
             [] o.seen = "refused" -> W!Goto(r, [pc |-> "refund"])
             [] OTHER -> W!Goto(r, [pc |-> "withhold"])
        /\ W!Doubt(o)
  BY <1>2, <1>3 DEF W!CommitPluginPageCreates
<1>5. PlanOK(q) /\ PayOK(q) /\ TokenOK(q)
  BY <1>1, <1>2 DEF CInv, WInv, WritesOK, CarriesOK, Planning, Asking, W!Asks, BooksOK, TokensOK
<1>6. PICK k, w : k = Len(q.plan) /\ w = q.written  OBVIOUS
<1>7. /\ k \in Nat /\ w \in Nat /\ w < k /\ (q.kind # "copy" => w = 0 /\ n = k) /\ (q.kind = "copy" => n = 1)
      /\ q.kind = "form" => k = 1
  <2>1. k \in Nat /\ w \in Nat /\ w < k /\ (q.kind # "copy" => w = 0)  BY <1>5, <1>6 DEF PlanOK
  <2>2. (q.kind = "copy" => n = 1) /\ (q.kind # "copy" => n = k)  BY <1>3, <1>5, <1>6, ChunkIs
  <2>3. q.kind = "form" => k = 1  BY <1>1, <1>2, <1>5, <1>6 DEF TokenOK, Planning
  <2> QED  BY <2>1, <2>2, <2>3
<1>8. q.charged = k /\ {"charged", "written"} \subseteq DOMAIN q /\ Units(q) = k - w
  BY <1>1, <1>2, <1>5, <1>6 DEF PayOK, Owing, Units
<1>9. /\ o.did \in BOOLEAN /\ (o.seen = "done" => o.did) /\ (o.seen = "refused" => ~ o.did)
      /\ o.seen \in {"done", "refused", "unknown"}
  <2>1. W!Admitted(q) \in BOOLEAN  BY DEF W!Admitted
  <2> QED  BY <1>4, <2>1, OutcomeIs
<1>10. doubts' \in Nat /\ (doubts' = 0 => doubts = 0 /\ o.seen # "unknown")
  BY <1>4, DoubtIs DEF CInv
<1>11. books \in [Payers -> [net : Int, made : Nat]] /\ Price * 0 = 0 /\ W!Left >= 0 /\ n \in Nat
  <2>1. Price * 0 = 0  BY Times
  <2>2. n \in Nat  BY <1>7
  <2> QED  BY <2>1, <2>2 DEF CInv, BooksOK
<1>12. o.did => /\ books' \in [Payers -> [net : Int, made : Nat]] /\ books'["api"].net = books["api"].net + Price * 0
                /\ books'["api"].made = books["api"].made + n /\ books'["form"] = books["form"]
  <2> SUFFICES ASSUME o.did
               PROVE  /\ books' \in [Payers -> [net : Int, made : Nat]] /\ books'["api"].net = books["api"].net + Price * 0
                      /\ books'["api"].made = books["api"].made + n /\ books'["form"] = books["form"]
    OBVIOUS
  <2>1. PICK b : b = [books["api"] EXCEPT !.made = books["api"].made + n]  OBVIOUS
  <2>2. books["api"] \in [net : Int, made : Nat]  BY <1>11 DEF Payers
  <2>3. b \in [net : Int, made : Nat] /\ b.net = books["api"].net /\ b.made = books["api"].made + n
    BY <1>11, <2>1, <2>2
  <2>4. books' = [books EXCEPT !["api"] = b]  BY <1>4, <2>1
  <2>5. b.net = books["api"].net + Price * 0  BY <1>11, <2>2, <2>3
  <2> QED  BY <1>11, <2>3, <2>4, <2>5 DEF Payers
<1>13. ASSUME NEW m, write' = [write EXCEPT ![r] = m], Onward(write[r], m), o.did /\ q.kind = "form" => m.pc \notin Unwritten
       PROVE  TokensOK'
  <2>1. CASE o.did /\ q.kind = "form"
    <3>1. q.token \in Tokens /\ q.token # "none"  BY <1>5, <2>1, PriceIs DEF TokenOK
    <3>2. forms' = [forms EXCEPT ![write[r].token].pages = @ + 1]  BY <1>2, <1>4, <1>7, <2>1, <3>1
    <3> QED  BY <1>1, <1>2, <1>13, <2>1, <3>2, FormWrites
  <2>2. CASE ~ (o.did /\ q.kind = "form")
    <3>1. UNCHANGED forms
      <4>1. CASE ~ o.did  BY <1>4, <4>1
      <4>2. CASE o.did
        <5>1. q.token = "none"  BY <1>1, <1>2, <1>5, <2>2, <4>2 DEF TokenOK, W!Asks
        <5> QED  BY <1>4, <4>2, <5>1
      <4> QED  BY <4>1, <4>2
    <3>2. UNCHANGED W!once  BY <1>1, <3>1 DEF W!once
    <3> QED  BY <1>1, <1>13, <3>2, OnwardTokens
  <2> QED  BY <1>9, <2>1, <2>2
<1>14. ASSUME Settled(r), write'[r].pc \notin Unwritten, o.did \/ (~ o.did /\ o.seen = "unknown"),
              o.did /\ o.seen # "unknown" => w + n = k
       PROVE  BooksOK' /\ TokensOK'
  <2>1. TokensOK'
    <3>1. PICK m : write' = [write EXCEPT ![r] = m] /\ Onward(write[r], m)  BY <1>14 DEF Settled
    <3>2. m.pc \notin Unwritten  BY <1>14, <3>1 DEF CInv, WInv, WritesOK
    <3> QED  BY <1>13, <3>1, <3>2
  <2>2. CASE o.did
    <3>1. 0 + Units(write[r]) >= n /\ (doubts' = 0 => 0 + Units(write[r]) = n) /\ 0 \in Int /\ Price * 0 <= W!Left
      BY <1>2, <1>7, <1>8, <1>10, <1>11, <1>14, <2>2
    <3>2. BooksOK'  BY <1>10, <1>11, <1>12, <1>14, <2>2, <3>1, SettledBooks
    <3> QED  BY <2>1, <3>2
  <2>3. CASE ~ o.did
    <3>1. UNCHANGED books  BY <1>4, <2>3
    <3>2. BooksOK'  BY <1>10, <1>14, <2>3, <3>1, SettledRest
    <3> QED  BY <2>1, <3>2
  <2> QED  BY <2>2, <2>3
<1>15. CASE o.seen = "unknown"
  <2>1. PICK p : p = "withhold"  OBVIOUS
  <2>2. W!Goto(r, [pc |-> p])  BY <1>4, <1>15, <2>1
  <2>3. p \notin {"claim", "write", "refund"} /\ p \notin Unwritten /\ p \notin Planning
    BY <2>1 DEF Unwritten, Planning
  <2>4. Settled(r) /\ write'[r].pc = p  BY <1>1, <2>2, <2>3, PcGoes
  <2> QED  BY <1>9, <1>14, <1>15, <2>3, <2>4
<1>16. CASE o.seen = "done" /\ w + n = k
  <2>1. W!End(r, write[r])  BY <1>2, <1>4, <1>6, <1>16
  <2>2. Settled(r) /\ write'[r].pc \notin Unwritten  BY <1>1, <2>1, EndIs
  <2> QED  BY <1>9, <1>14, <1>16, <2>2
<1>17. CASE o.seen = "done" /\ w + n # k
  <2>1. q.kind = "copy" /\ n = 1 /\ w + 1 < k  BY <1>7, <1>17
  <2>2. PICK more : more = [written |-> w + n]  OBVIOUS
  <2>3. DOMAIN more = {"written"} /\ more.written = w + 1  BY <2>1, <2>2
  <2>4. W!Goto(r, more) /\ {"kind", "token", "claimed"} \cap DOMAIN more = {}  BY <1>4, <1>6, <1>17, <2>2, <2>3
  <2>5. PICK m : /\ write' = [write EXCEPT ![r] = m] /\ DOMAIN m = DOMAIN write[r] \cup DOMAIN more
                 /\ m.kind = write[r].kind /\ {"kind", "pc", "token"} \subseteq DOMAIN m /\ m.token = write[r].token
                 /\ write[r].kind = "form" => "claimed" \in DOMAIN m /\ m.claimed = write[r].claimed
                 /\ \A x \in DOMAIN more : m[x] = more[x]
                 /\ \A x \in DOMAIN write[r] : x \notin DOMAIN more => m[x] = write[r][x]
    BY <1>1, <2>4, AskGoes
  <2>6. m.written = w + 1 /\ m.charged = k /\ m.pc = "write" /\ m.plan = q.plan /\ {"charged", "written"} \subseteq DOMAIN m
    BY <1>1, <1>2, <1>5, <1>8, <2>3, <2>5 DEF PayOK, PlanOK
  <2>7. PayOK(m)  BY <1>2, <1>6, <1>7, <2>1, <2>5, <2>6 DEF PayOK
  <2>8. Units(m) = k - (w + 1)  BY <1>1, <1>2, <2>5, <2>6 DEF Units, Owing
  <2>9. Onward(write[r], m)  BY <1>2, <2>1, <2>5 DEF Onward
  <2>10. TokensOK'  BY <1>13, <2>1, <2>5, <2>9
  <2>11. BooksOK'
    <3>1. 0 + Units(write[r]) >= n + Units(m) /\ 0 + Units(write[r]) = n + Units(m) /\ 0 \in Int /\ Price * (0 + 0) <= W!Left
      BY <1>2, <1>7, <1>8, <1>11, <2>1, <2>8
    <3>2. books'["form"].net = books["form"].net + Price * 0
      <4>1. books["form"].net \in Int  BY <1>11 DEF Payers
      <4> QED  BY <1>9, <1>11, <1>12, <1>17, <4>1
    <3> QED  BY <1>9, <1>10, <1>11, <1>12, <1>17, <2>5, <2>7, <3>1, <3>2, BooksMove DEF CInv, WInv
  <2> QED  BY <2>10, <2>11
<1>18. CASE o.seen = "refused"
  <2>1. PICK more : more = [pc |-> "refund"]  OBVIOUS
  <2>2. DOMAIN more = {"pc"} /\ more.pc = "refund"  BY <2>1
  <2>3. W!Goto(r, more) /\ {"kind", "token", "claimed"} \cap DOMAIN more = {}  BY <1>4, <1>18, <2>1, <2>2
  <2>4. PICK m : /\ write' = [write EXCEPT ![r] = m] /\ DOMAIN m = DOMAIN write[r] \cup DOMAIN more
                 /\ m.kind = write[r].kind /\ {"kind", "pc", "token"} \subseteq DOMAIN m /\ m.token = write[r].token
                 /\ write[r].kind = "form" => "claimed" \in DOMAIN m /\ m.claimed = write[r].claimed
                 /\ \A x \in DOMAIN more : m[x] = more[x]
                 /\ \A x \in DOMAIN write[r] : x \notin DOMAIN more => m[x] = write[r][x]
    BY <1>1, <2>3, AskGoes
  <2>5. m.written = w /\ m.charged = k /\ m.pc = "refund" /\ {"charged", "written"} \subseteq DOMAIN m
    BY <1>2, <1>6, <1>8, <2>2, <2>4
  <2>6. PayOK(m)  BY <1>2, <1>7, <2>4, <2>5 DEF PayOK
  <2>7. Units(m) = k - w  BY <1>1, <1>2, <2>4, <2>5 DEF Units, Owing
  <2>8. Onward(write[r], m)  BY <1>1, <1>2, <2>4, <2>5 DEF Onward, Unwritten, Planning
  <2>9. ~ o.did  BY <1>9, <1>18
  <2>10. TokensOK'  BY <1>13, <2>4, <2>8, <2>9
  <2>11. BooksOK'
    <3>1. UNCHANGED books  BY <1>4, <2>9
    <3>2. Units(write[r]) >= Units(m) /\ Units(write[r]) = Units(m)  BY <1>2, <1>7, <1>8, <2>7
    <3> QED  BY <1>10, <2>4, <2>6, <3>1, <3>2, BooksRest DEF CInv, WInv
  <2> QED  BY <2>10, <2>11
<1> QED  BY <1>9, <1>15, <1>16, <1>17, <1>18

\* No request goes on; a token may age, and its claim go.
LEMMA NoneGoes ==
    ASSUME CInv, UNCHANGED <<write, books, doubts, forms>>, old \subseteq old', \A x \in Tokens \ old' : x \in claims <=> x \in claims'
    PROVE  BooksOK' /\ TokensOK'
<1>1. \A x \in Requests \X Nat : Units(write'[x[1]]) = Units(write[x[1]])  OBVIOUS
<1>2. Due' = Due  BY <1>1 DEF Due, Units, Owing
<1>3. (\A r \in Requests : PayOK(write[r]))'
  <2>1. \A r \in Requests : PayOK(write'[r])  BY DEF CInv, BooksOK
  <2> QED  BY <2>1 DEF PayOK, Owing
<1>4. W!Left' = W!Left  BY DEF W!Left
<1>5. BooksOK'  BY <1>2, <1>3, <1>4 DEF CInv, BooksOK
<1>6. (\A r \in Requests : TokenOK(write[r]))'
  <2>1. \A r \in Requests : TokenOK(write[r])  BY DEF CInv, TokensOK
  <2> QED  BY <2>1 DEF TokenOK
<1>7. ASSUME NEW x \in Tokens \ old'  PROVE ClaimOK(x)'
  <2>1. ClaimOK(x) /\ (x \in claims <=> x \in claims')  BY <1>7 DEF CInv, TokensOK
  <2> QED  BY <2>1 DEF ClaimOK, Holding
<1>8. TokensOK'  BY <1>6, <1>7 DEF CInv, TokensOK
<1> QED  BY <1>5, <1>8

LEMMA CreatesStep == ASSUME CInv, [PartsNext]_<<part, vars, writeVars, formVars>>  PROVE CInv'
<1>1. WInv'  BY DraftsStep DEF CInv
<1> SUFFICES BooksOK' /\ TokensOK'
  BY <1>1 DEF CInv
<1>2. ASSUME UNCHANGED write, W!Still  PROVE BooksOK' /\ TokensOK'
  <2>1. UNCHANGED <<write, books, doubts, forms, claims, old>>  BY <1>2 DEF W!Still, W!creates, W!money, W!once
  <2> QED  BY <2>1, NoneGoes
<1>3. CASE W!Next /\ W!Still
  <2>1. ASSUME NEW r \in Requests, W!Act(r)  PROVE BooksOK' /\ TokensOK'
    <3>1. Other(r)  BY <2>1, ActIsOther DEF CInv
    <3> QED  BY <1>3, <3>1, OtherStill DEF W!Still, W!creates
  <2>2. CASE W!Trash \/ W!Withdraw
    <3>1. UNCHANGED write  BY <2>2 DEF W!Trash, W!Withdraw
    <3> QED  BY <1>2, <1>3, <3>1
  <2> QED  BY <1>3, <2>1, <2>2 DEF W!Next
<1>4. ASSUME NEW r \in Requests, W!Paying(r)  PROVE BooksOK' /\ TokensOK'
  <2>1. CASE W!StartNew(r) \/ W!CheckCreateLimits(r) \/ W!ReserveNew(r) \/ W!PrepareNew(r) \/ W!WriteNew(r) \/ W!RefundNew(r)
    BY <2>1, NewKeeps
  <2>2. CASE W!StartApi(r)  BY <2>2, StartApiKeeps
  <2>3. CASE W!Plan(r)  BY <2>3, PlanSettles
  <2>4. CASE W!PreparePluginPageCreates(r)  BY <2>4, AdmissionSettles
  <2>5. CASE W!ReservePageCreates(r)  BY <2>5, ReserveKeeps
  <2>6. CASE W!CommitPluginPageCreates(r)  BY <2>6, CommitSettles
  <2>7. CASE W!Settle(r)  BY <2>7, SettleKeeps
  <2>8. CASE W!Submit(r)  BY <2>8, SubmitKeeps
  <2>9. CASE W!Claim(r)  BY <2>9, ClaimSettles
  <2>10. CASE W!Disclose(r)  BY <2>10, DiscloseKeeps
  <2>11. CASE W!Answer(r)  BY <2>11, AnswerKeeps
  <2> QED  BY <1>4, <2>1, <2>2, <2>3, <2>4, <2>5, <2>6, <2>7, <2>8, <2>9, <2>10, <2>11 DEF W!Paying
<1>5. CASE W!Age
  <2>1. PICK t \in Tokens : old' = old \cup {t}  BY <1>5 DEF W!Age
  <2>2. UNCHANGED <<write, books, doubts, forms, claims>>  BY <1>5 DEF W!Age, W!money
  <2> QED  BY <2>1, <2>2, NoneGoes
<1>6. CASE W!Alarm
  <2>1. claims' = claims \ old /\ UNCHANGED <<write, books, doubts, forms, old>>  BY <1>6 DEF W!Alarm, W!money
  <2> QED  BY <2>1, NoneGoes
<1>7. CASE UNCHANGED writeVars
  <2>1. UNCHANGED <<write, books, doubts, forms, claims, old>>  BY <1>7 DEF writeVars
  <2> QED  BY <2>1, NoneGoes
<1> QED  BY <1>3, <1>4, <1>5, <1>6, <1>7 DEF PartsNext, W!CreatesNext

LEMMA CreatesStart == ASSUME PartsInit  PROVE CInv
<1>1. WInv  BY DraftsStart
<1>2. /\ books = [who \in Payers |-> [net |-> 0, made |-> 0]] /\ doubts = 0
      /\ claims = {} /\ forms = [t \in Tokens |-> [pages |-> 0, failures |-> 0]]
      /\ write = [r \in Requests |-> W!Idle]
  BY DEF PartsInit, W!CreatesInit, W!Init, Payers
<1>3. Due = {}
  <2>1. \A x \in Requests \X Nat : Units(write[x[1]]) = 0  BY <1>2, IdleIs
  <2> QED  BY <2>1 DEF Due
<1>4. IsFiniteSet(Due) /\ Cardinality(Due) = 0  BY <1>3, FS_EmptySet
<1>5. books \in [Payers -> [net : Int, made : Nat]] /\ books["api"].net = 0 /\ books["api"].made = 0 /\ books["form"].net = 0
  <2>1. PICK b : b = [net |-> 0, made |-> 0]  OBVIOUS
  <2>2. b \in [net : Int, made : Nat] /\ b.net = 0 /\ b.made = 0  BY <2>1
  <2> QED  BY <1>2, <2>1, <2>2 DEF Payers
<1>6. W!Left >= 0  BY <1>5, PriceIs DEF W!Left
<1>7. BooksOK
  <2>1. Price * (books["api"].made + Cardinality(Due)) = 0
    <3>1. books["api"].made + Cardinality(Due) = 0  BY <1>4, <1>5
    <3> QED  BY <3>1, Times
  <2>2. \A r \in Requests : PayOK(write[r])  BY <1>2, IdleIs
  <2> QED  BY <1>2, <1>4, <1>5, <1>6, <2>1, <2>2 DEF BooksOK
<1>8. TokensOK
  <2>1. PICK f : f = [pages |-> 0, failures |-> 0]  OBVIOUS
  <2>2. f \in [pages : Nat, failures : Nat] /\ f.pages = 0 /\ f.failures = 0  BY <2>1
  <2>3. \A r \in Requests : TokenOK(write[r]) /\ \A x : ~ Holding(write[r], x)  BY <1>2, IdleIs
  <2>4. \A t \in Tokens : ClaimOK(t)  BY <1>2, <2>1, <2>2, <2>3 DEF ClaimOK
  <2> QED  BY <1>2, <2>1, <2>2, <2>3, <2>4 DEF TokensOK
<1> QED  BY <1>1, <1>7, <1>8 DEF CInv

LEMMA CreatesInvariance == Parts => []CInv
BY CreatesStart, CreatesStep, PTL DEF Parts

(* A page made through the plugin API is paid for, whatever answers are     *)
(* lost; when nothing was in doubt nobody has paid for more; and a form     *)
(* makes one page, however often and concurrently it is submitted.          *)
THEOREM CreatesHold == Parts => []CreatesSound
<1>1. ASSUME CInv  PROVE CreatesSound
  <2>1. PICK net, had, due : net = books["api"].net /\ had = books["api"].made /\ due = Cardinality(Due)  OBVIOUS
  <2>2. net \in Int /\ had \in Nat /\ due \in Nat
    BY <1>1, <2>1, FS_CardinalityType DEF CInv, BooksOK, Payers
  <2>3. net >= Price * (had + due) /\ (doubts = 0 => net = Price * (had + due))
    BY <1>1, <2>1 DEF CInv, BooksOK
  <2>4. Price * (had + due) >= Price * had /\ Price * (had + due) \in Int /\ Price * had \in Int
    <3>1. had + due \in Int /\ had \in Int /\ had + due >= had  BY <2>2
    <3> QED  BY <3>1, Times
  <2>5. W!PaidFor("api")  BY <2>1, <2>2, <2>3, <2>4 DEF W!PaidFor
  <2>6. ASSUME W!Quiet, doubts = 0  PROVE net = Price * had
    <3>1. \A x \in Requests \X Nat : Units(write[x[1]]) = 0  BY <2>6, IdleIs DEF W!Quiet
    <3>2. Due = {}  BY <3>1 DEF Due
    <3>3. due = 0  BY <2>1, <3>2, FS_EmptySet
    <3> QED  BY <2>2, <2>3, <2>6, <3>3
  <2>7. W!ApiPagesArePaid  BY <1>1, <2>1, <2>5, <2>6 DEF W!ApiPagesArePaid, CInv, BooksOK
  <2>8. W!FormMakesOnePage  BY <1>1 DEF W!FormMakesOnePage, CInv, TokensOK, ClaimOK
  <2> QED  BY <2>7, <2>8 DEF CreatesSound, W!CreatesSound
<1> QED  BY <1>1, CreatesInvariance, PTL
-----------------------------------------------------------------------------
(* The order of the list.  Rows whose weights and names are numbers are one *)
(* before another, so each has its rank, and each rank its row.             *)
Listable(ps) == /\ DOMAIN ps \subseteq Nat /\ IsFiniteSet(DOMAIN ps)
                /\ \A p \in DOMAIN ps : ps[p].weight \in Int /\ ps[p].name \in Nat

LEMMA BeforeOrders ==
    ASSUME NEW ps, Listable(ps)
    PROVE  /\ \A a \in DOMAIN ps : ~ W!Before(a, a, ps)
           /\ \A a, b \in DOMAIN ps : a # b => W!Before(a, b, ps) \/ W!Before(b, a, ps)
           /\ \A a, b, c \in DOMAIN ps : W!Before(a, b, ps) /\ W!Before(b, c, ps) => W!Before(a, c, ps)
<1>1. \A p \in DOMAIN ps : p \in Nat /\ ps[p].weight \in Int /\ ps[p].name \in Nat
  BY DEF Listable
<1>2. \A a \in DOMAIN ps : ~ W!Before(a, a, ps)
  BY <1>1 DEF W!Before
<1>3. \A a, b \in DOMAIN ps : a # b => W!Before(a, b, ps) \/ W!Before(b, a, ps)
  BY <1>1 DEF W!Before
<1>4. \A a, b, c \in DOMAIN ps : W!Before(a, b, ps) /\ W!Before(b, c, ps) => W!Before(a, c, ps)
  BY <1>1 DEF W!Before
<1> QED  BY <1>2, <1>3, <1>4

LEMMA RankIs ==
    ASSUME NEW ps, Listable(ps)
    PROVE  /\ Cardinality(DOMAIN ps) \in Nat
           /\ \A p \in DOMAIN ps : W!Rank(p, ps) \in Nat /\ W!Rank(p, ps) < Cardinality(DOMAIN ps)
           /\ \A a, b \in DOMAIN ps : W!Before(a, b, ps) => W!Rank(a, ps) < W!Rank(b, ps)
           /\ \A a, b \in DOMAIN ps : a # b => W!Rank(a, ps) # W!Rank(b, ps)
<1> DEFINE Rs == DOMAIN ps
           Ahead(p) == {x \in Rs : W!Before(x, p, ps)}
<1>1. IsFiniteSet(Rs) /\ Cardinality(Rs) \in Nat
  BY FS_CardinalityType DEF Listable
<1>2. \A p : W!Rank(p, ps) = Cardinality(Ahead(p))
  BY CardinalityIs DEF W!Rank
<1>3. /\ \A a \in Rs : ~ W!Before(a, a, ps)
      /\ \A a, b \in Rs : a # b => W!Before(a, b, ps) \/ W!Before(b, a, ps)
      /\ \A a, b, c \in Rs : W!Before(a, b, ps) /\ W!Before(b, c, ps) => W!Before(a, c, ps)
  BY BeforeOrders
<1>4. ASSUME NEW S, NEW T, S \subseteq T, T \subseteq Rs, S # T
      PROVE  Cardinality(S) \in Nat /\ Cardinality(T) \in Nat /\ Cardinality(S) < Cardinality(T)
  <2>1. IsFiniteSet(T) /\ Cardinality(T) \in Nat
    BY <1>1, <1>4, FS_Subset, FS_CardinalityType
  <2>2. IsFiniteSet(S) /\ Cardinality(S) \in Nat /\ Cardinality(S) <= Cardinality(T) /\ Cardinality(S) # Cardinality(T)
    BY <1>4, <2>1, FS_Subset, FS_CardinalityType
  <2> QED  BY <2>1, <2>2
<1>5. ASSUME NEW p \in Rs  PROVE Cardinality(Ahead(p)) \in Nat /\ Cardinality(Ahead(p)) < Cardinality(Rs)
  <2>1. Ahead(p) \subseteq Rs /\ p \notin Ahead(p)
    BY <1>3
  <2> HIDE DEF Ahead, Rs
  <2> QED  BY <1>4, <1>5, <2>1
<1>6. ASSUME NEW a \in Rs, NEW b \in Rs, W!Before(a, b, ps)  PROVE Cardinality(Ahead(a)) < Cardinality(Ahead(b))
  <2>1. Ahead(a) \subseteq Ahead(b) /\ Ahead(b) \subseteq Rs
    BY <1>3, <1>6
  <2>2. a \in Ahead(b) /\ a \notin Ahead(a)
    BY <1>3, <1>6
  <2> HIDE DEF Ahead, Rs
  <2> QED  BY <1>4, <2>1, <2>2
<1>7. ASSUME NEW a \in Rs, NEW b \in Rs, a # b  PROVE Cardinality(Ahead(a)) # Cardinality(Ahead(b))
  <2>1. Cardinality(Ahead(a)) \in Nat /\ Cardinality(Ahead(b)) \in Nat
    BY <1>5
  <2>2. Cardinality(Ahead(a)) < Cardinality(Ahead(b)) \/ Cardinality(Ahead(b)) < Cardinality(Ahead(a))
    BY <1>3, <1>6, <1>7
  <2> HIDE DEF Ahead
  <2> QED  BY <2>1, <2>2
<1> HIDE DEF Ahead
<1> QED  BY <1>1, <1>2, <1>5, <1>6, <1>7

LEMMA OrderIs ==
    ASSUME NEW ps, Listable(ps), NEW n, n = Cardinality(DOMAIN ps)
    PROVE  /\ n \in Nat /\ W!Order(ps) \in [1..n -> DOMAIN ps]
           /\ \A i \in 1..n : W!Rank(W!Order(ps)[i], ps) = i - 1
           /\ \A i, j \in 1..n : i # j => W!Order(ps)[i] # W!Order(ps)[j]
           /\ \A p \in DOMAIN ps : \E i \in 1..n : W!Order(ps)[i] = p
<1> DEFINE Rs == DOMAIN ps
           f == [p \in Rs |-> W!Rank(p, ps) + 1]
<1>1. /\ n \in Nat
      /\ \A p \in Rs : W!Rank(p, ps) \in Nat /\ W!Rank(p, ps) < n
      /\ \A a, b \in Rs : a # b => W!Rank(a, ps) # W!Rank(b, ps)
  BY RankIs
<1>2. f \in Injection(Rs, 1..n)
  <2>1. f \in [Rs -> 1..n]  BY <1>1
  <2>2. \A a, b \in Rs : f[a] = f[b] => a = b
    BY <1>1
  <2> HIDE DEF f, Rs
  <2> QED  BY <2>1, <2>2 DEF Injection, IsInjective
<1>3. IsFiniteSet(1..n) /\ Cardinality(1..n) = n
  BY <1>1, FS_Interval
<1>4. f \in Surjection(Rs, 1..n)
  <2> HIDE DEF f
  <2> QED  BY <1>2, <1>3, FS_Injection
<1>5. \A i \in 1..n : \E p \in Rs : W!Rank(p, ps) = i - 1
  <2> TAKE i \in 1..n
  <2>1. PICK p \in Rs : f[p] = i
    <3> HIDE DEF f, Rs
    <3> QED  BY <1>4 DEF Surjection
  <2>2. W!Rank(p, ps) + 1 = i /\ W!Rank(p, ps) \in Nat
    BY <1>1, <2>1
  <2> QED  BY <2>2
<1>6. W!Order(ps) = [i \in 1..n |-> CHOOSE p \in Rs : W!Rank(p, ps) = i - 1]
  BY CardinalityIs DEF W!Order
<1>7. \A i \in 1..n : W!Order(ps)[i] \in Rs /\ W!Rank(W!Order(ps)[i], ps) = i - 1
  BY <1>5, <1>6
<1>8. W!Order(ps) \in [1..n -> Rs]
  BY <1>6, <1>7
<1>9. \A p \in Rs : \E i \in 1..n : W!Order(ps)[i] = p
  <2> TAKE p \in Rs
  <2>1. PICK i : i = W!Rank(p, ps) + 1 /\ i \in 1..n
    BY <1>1
  <2>2. W!Rank(W!Order(ps)[i], ps) = W!Rank(p, ps) /\ W!Order(ps)[i] \in Rs
    BY <1>1, <1>7, <2>1
  <2>3. W!Order(ps)[i] = p
    BY <1>1, <2>2
  <2> QED  BY <2>1, <2>3
<1>10. \A i, j \in 1..n : i # j => W!Order(ps)[i] # W!Order(ps)[j]
  <2> SUFFICES ASSUME NEW i \in 1..n, NEW j \in 1..n, i # j, W!Order(ps)[i] = W!Order(ps)[j]  PROVE FALSE
    OBVIOUS
  <2>1. i - 1 = j - 1  BY <1>7
  <2> QED  BY <1>1, <2>1
<1> QED  BY <1>1, <1>7, <1>8, <1>9, <1>10

(* An ascending list of all the rows is the order.                          *)
LEMMA AscendingIs ==
    ASSUME NEW ps, Listable(ps), NEW n, n = Cardinality(DOMAIN ps), NEW s \in [1..n -> DOMAIN ps],
           \A i, j \in 1..n : i < j => W!Before(s[i], s[j], ps)
    PROVE  s = W!Order(ps)
<1> DEFINE Rs == DOMAIN ps
<1>1. n \in Nat /\ W!Order(ps) \in [1..n -> Rs] /\ \A i \in 1..n : W!Rank(W!Order(ps)[i], ps) = i - 1
  BY OrderIs
<1>2. /\ \A a \in Rs : ~ W!Before(a, a, ps)
      /\ \A a, b, c \in Rs : W!Before(a, b, ps) /\ W!Before(b, c, ps) => W!Before(a, c, ps)
  BY BeforeOrders
<1>3. \A i, j \in 1..n : s[i] = s[j] => i = j
  <2> SUFFICES ASSUME NEW i \in 1..n, NEW j \in 1..n, s[i] = s[j], i # j  PROVE FALSE
    OBVIOUS
  <2>1. i < j \/ j < i  BY <1>1
  <2>2. s[i] \in Rs /\ s[j] \in Rs  OBVIOUS
  <2> QED  BY <1>2, <2>1, <2>2
<1>4. s \in Injection(1..n, Rs)
  BY <1>3 DEF Injection, IsInjective
<1>5. IsFiniteSet(1..n) /\ Cardinality(1..n) = n /\ IsFiniteSet(Rs)
  BY <1>1, FS_Interval DEF Listable
<1>6. s \in Surjection(1..n, Rs)
  BY <1>4, <1>5, FS_Injection
<1>7. ASSUME NEW i \in 1..n  PROVE W!Rank(s[i], ps) = i - 1
  <2> DEFINE Ahead == {x \in Rs : W!Before(x, s[i], ps)}
             g == [j \in 1..(i - 1) |-> s[j]]
  <2>1. i \in Nat /\ i - 1 \in Nat /\ \A j \in 1..(i - 1) : j \in 1..n /\ j < i
    BY <1>1
  <2>2. \A j \in 1..(i - 1) : s[j] \in Ahead
    BY <2>1
  <2>3. g \in Injection(1..(i - 1), Ahead)
    <3>1. g \in [1..(i - 1) -> Ahead]  BY <2>2
    <3>2. \A j, k \in 1..(i - 1) : g[j] = g[k] => j = k  BY <1>3, <2>1
    <3> HIDE DEF g, Ahead
    <3> QED  BY <3>1, <3>2 DEF Injection, IsInjective
  <2>4. IsFiniteSet(Ahead)
    BY <1>5, FS_Subset
  <2>5. \A x \in Ahead : \E j \in 1..(i - 1) : g[j] = x
    <3> TAKE x \in Ahead
    <3>1. x \in Rs /\ W!Before(x, s[i], ps)  OBVIOUS
    <3>2. PICK j \in 1..n : s[j] = x
      BY <1>6, <3>1 DEF Surjection
    <3>3. ~ (j = i)  BY <1>2, <3>1, <3>2
    <3>4. ~ (i < j)
      <4> SUFFICES ASSUME i < j  PROVE FALSE  OBVIOUS
      <4>1. W!Before(s[i], x, ps) /\ s[i] \in Rs  BY <3>2
      <4>2. W!Before(x, x, ps)
        BY <1>2, <3>1, <4>1
      <4> QED  BY <1>2, <3>1, <4>2
    <3>5. j \in 1..(i - 1)  BY <1>1, <3>3, <3>4
    <3> QED  BY <3>2, <3>5
  <2>6. g \in Surjection(1..(i - 1), Ahead)
    <3>1. g \in [1..(i - 1) -> Ahead]  BY <2>2
    <3> HIDE DEF g, Ahead
    <3> QED  BY <2>5, <3>1 DEF Surjection
  <2>7. IsFiniteSet(1..(i - 1)) /\ Cardinality(1..(i - 1)) = i - 1
    BY <2>1, FS_Interval
  <2>8. Cardinality(Ahead) = i - 1
    <3> HIDE DEF g, Ahead
    <3> QED  BY <2>3, <2>4, <2>6, <2>7, FS_Injection
  <2> QED  BY <2>8, CardinalityIs DEF W!Rank
<1>8. \A a, b \in Rs : W!Rank(a, ps) = W!Rank(b, ps) => a = b
  BY RankIs
<1>9. \A i \in 1..n : s[i] = W!Order(ps)[i]
  <2> TAKE i \in 1..n
  <2>1. s[i] \in Rs /\ W!Order(ps)[i] \in Rs  BY <1>1
  <2>2. W!Rank(s[i], ps) = W!Rank(W!Order(ps)[i], ps)  BY <1>1, <1>7
  <2> QED  BY <1>8, <2>1, <2>2
<1> QED  BY <1>1, <1>9

(* Weights and names decide it.                                             *)
LEMMA OrderDepends ==
    ASSUME NEW ps, NEW qs, DOMAIN ps = DOMAIN qs, \A p \in DOMAIN ps : ps[p].weight = qs[p].weight /\ ps[p].name = qs[p].name
    PROVE  W!Order(ps) = W!Order(qs)
<1>1. \A a, b \in DOMAIN ps : W!Before(a, b, ps) = W!Before(a, b, qs)
  BY DEF W!Before
<1>2. \A p \in DOMAIN ps : W!Rank(p, ps) = W!Rank(p, qs)
  <2> TAKE p \in DOMAIN ps
  <2>1. {x \in DOMAIN ps : W!Before(x, p, ps)} = {x \in DOMAIN qs : W!Before(x, p, qs)}
    BY <1>1
  <2> QED  BY <2>1 DEF W!Rank
<1>3. \A i : (CHOOSE p \in DOMAIN ps : W!Rank(p, ps) = i - 1) = (CHOOSE p \in DOMAIN qs : W!Rank(p, qs) = i - 1)
  BY <1>2
<1> QED  BY <1>3 DEF W!Order
-----------------------------------------------------------------------------
(* A client drops the rows it was shown in another order: as many, none      *)
(* twice, and none that was not shown.                                       *)
Dropped(q) ==
    /\ q.offset \in Nat /\ q.before \in Seq(Nat) /\ q.after \in Seq(Nat)
    /\ Len(q.before) > 0 /\ Len(q.after) = Len(q.before)
    /\ \A i, j \in 1..Len(q.after) : i # j => q.after[i] # q.after[j]
    /\ \A i \in 1..Len(q.after) : \E j \in 1..Len(q.before) : q.after[i] = q.before[j]

(* Spliced into the order it was shown from, that is all the rows, once.     *)
LEMMA SpliceIs ==
    ASSUME NEW ps, Listable(ps), NEW q, Dropped(q), NEW n, n = Cardinality(DOMAIN ps),
           W!Slots(W!Order(ps), q.offset, Len(q.before)) = q.before
    PROVE  /\ n \in Nat /\ W!Splice(W!Order(ps), q.offset, q.after) \in [1..n -> DOMAIN ps]
           /\ \A i, j \in 1..n : i # j => W!Splice(W!Order(ps), q.offset, q.after)[i] # W!Splice(W!Order(ps), q.offset, q.after)[j]
           /\ \A p \in DOMAIN ps : \E i \in 1..n : W!Splice(W!Order(ps), q.offset, q.after)[i] = p
<1> DEFINE Rs == DOMAIN ps
<1>1. PICK s, k, m, after, before : s = W!Order(ps) /\ k = q.offset /\ after = q.after /\ before = q.before /\ m = Len(after)
  OBVIOUS
<1>2. /\ n \in Nat /\ s \in [1..n -> Rs]
      /\ \A i, j \in 1..n : i # j => s[i] # s[j]
      /\ \A p \in Rs : \E i \in 1..n : s[i] = p
  BY <1>1, OrderIs
<1>3. /\ k \in Nat /\ before \in Seq(Nat) /\ after \in Seq(Nat) /\ m \in Nat /\ m > 0 /\ Len(before) = m
      /\ \A i, j \in 1..m : i # j => after[i] # after[j]
      /\ \A i \in 1..m : \E j \in 1..m : after[i] = before[j]
  BY <1>1 DEF Dropped
<1>4. s \in Seq(Rs) /\ Len(s) = n
  BY <1>2
<1>5. n \in Nat /\ k \in Nat /\ m \in Nat /\ m > 0
  BY <1>2, <1>3
\* a part of s
<1>6. ASSUME NEW i \in Nat, NEW j \in Nat, i >= 1, j <= n, i <= j + 1
      PROVE  /\ SubSeq(s, i, j) \in Seq(Rs) /\ Len(SubSeq(s, i, j)) = j - i + 1
             /\ \A x \in 1..(j - i + 1) : SubSeq(s, i, j)[x] = s[i + x - 1]
  <2>1. \A x \in i..j : s[x] \in Rs
    BY <1>2, <1>6
  <2>2. i \in Int /\ j \in Int /\ (IF i <= j THEN j - i + 1 ELSE 0) = j - i + 1
    BY <1>6
  <2> HIDE DEF Rs
  <2>3. /\ SubSeq(s, i, j) \in Seq(Rs) /\ Len(SubSeq(s, i, j)) = IF i <= j THEN j - i + 1 ELSE 0
        /\ \A x \in 1..(j - i + 1) : SubSeq(s, i, j)[x] = s[i + x - 1]
    BY <2>1, <2>2, SubSeqProperties
  <2> QED  BY <2>2, <2>3
<1>7. before = SubSeq(s, k + 1, IF k + m < n THEN k + m ELSE n)
  BY <1>1, <1>3, <1>4 DEF W!Slots
<1>8. k + m <= n
  <2> SUFFICES ASSUME k + m > n  PROVE FALSE
    BY <1>5
  <2>1. (IF k + m < n THEN k + m ELSE n) = n
    BY <1>2, <1>3
  <2>2. before = SubSeq(s, k + 1, n)
    BY <1>7, <2>1
  <2>3. CASE k + 1 <= n
    <3>1. k + 1 \in Nat /\ k + 1 >= 1 /\ n <= n /\ k + 1 <= n + 1
      BY <1>5, <2>3
    <3>2. Len(SubSeq(s, k + 1, n)) = n - (k + 1) + 1
      BY <1>2, <1>6, <3>1
    <3>3. m = n - (k + 1) + 1
      BY <1>3, <2>2, <3>2
    <3> QED  BY <1>2, <1>3, <3>3
  <2>4. CASE ~ (k + 1 <= n)
    <3>1. k + 1 \in Int /\ n \in Int /\ n < k + 1
      BY <1>5, <2>4
    <3>2. before = << >>
      BY <2>2, <3>1, SubSeqEmpty
    <3> QED  BY <1>3, <3>2
  <2> QED  BY <2>3, <2>4
<1>9. before = SubSeq(s, k + 1, k + m)
  <2>1. (IF k + m < n THEN k + m ELSE n) = k + m
    BY <1>5, <1>8
  <2> QED  BY <1>7, <2>1
<1>10. \A j \in 1..m : before[j] = s[k + j]
  <2>1. k + 1 \in Nat /\ k + m \in Nat /\ k + 1 >= 1 /\ k + 1 <= k + m + 1 /\ k + m <= n
    BY <1>8, <1>5
  <2>2. PICK a, b : a = k + 1 /\ b = k + m  OBVIOUS
  <2>3. \A x \in 1..(b - a + 1) : SubSeq(s, a, b)[x] = s[a + x - 1]
    BY <1>6, <2>1, <2>2
  <2>4. b - a + 1 = m /\ \A x \in 1..m : a + x - 1 = k + x
    BY <1>5, <2>2
  <2>5. before = SubSeq(s, a, b)
    BY <1>9, <2>2
  <2>6. \A x \in 1..m : SubSeq(s, a, b)[x] = s[a + x - 1]
    BY <2>3, <2>4
  <2> QED  BY <2>4, <2>5, <2>6
<1>11. \A i \in 1..m : \E j \in (k + 1)..(k + m) : after[i] = s[j]
  <2> TAKE i \in 1..m
  <2>1. PICK j \in 1..m : after[i] = before[j]  BY <1>3
  <2>2. k + j \in (k + 1)..(k + m)  BY <1>3
  <2> QED  BY <1>10, <2>1, <2>2
<1>12. PICK next : next = W!Splice(s, k, after)  OBVIOUS
<1>13. next = SubSeq(s, 1, k) \o after \o SubSeq(s, k + m + 1, n)
  BY <1>1, <1>4, <1>12 DEF W!Splice
<1>14. PICK head, tail : head = SubSeq(s, 1, k) /\ tail = SubSeq(s, k + m + 1, n)  OBVIOUS
<1>15. head \in Seq(Rs) /\ Len(head) = k /\ \A i \in 1..k : head[i] = s[i]
  <2>1. 1 \in Nat /\ 1 >= 1 /\ k <= n /\ 1 <= k + 1 /\ k - 1 + 1 = k
    BY <1>5, <1>8
  <2>2. /\ SubSeq(s, 1, k) \in Seq(Rs) /\ Len(SubSeq(s, 1, k)) = k - 1 + 1
        /\ \A x \in 1..(k - 1 + 1) : SubSeq(s, 1, k)[x] = s[1 + x - 1]
    BY <1>3, <1>6, <2>1
  <2>3. \A x \in 1..k : 1 + x - 1 = x
    BY <1>3
  <2> QED  BY <1>14, <2>1, <2>2, <2>3
<1>16. tail \in Seq(Rs) /\ Len(tail) = n - (k + m) /\ \A i \in 1..(n - (k + m)) : tail[i] = s[k + m + i]
  <2>1. k + m + 1 \in Nat /\ k + m + 1 >= 1 /\ n <= n /\ k + m + 1 <= n + 1 /\ n - (k + m + 1) + 1 = n - (k + m)
    BY <1>5, <1>8
  <2>2. /\ SubSeq(s, k + m + 1, n) \in Seq(Rs) /\ Len(SubSeq(s, k + m + 1, n)) = n - (k + m + 1) + 1
        /\ \A x \in 1..(n - (k + m + 1) + 1) : SubSeq(s, k + m + 1, n)[x] = s[k + m + 1 + x - 1]
    BY <1>2, <1>6, <2>1
  <2>3. \A x \in 1..(n - (k + m)) : k + m + 1 + x - 1 = k + m + x
    BY <1>5, <1>8
  <2> QED  BY <1>14, <2>1, <2>2, <2>3
<1>17. after \in Seq(Rs)
  <2>1. \A i \in 1..m : after[i] \in Rs
    <3> TAKE i \in 1..m
    <3>1. PICK j \in (k + 1)..(k + m) : after[i] = s[j]  BY <1>11
    <3>2. j \in 1..n  BY <1>5, <1>8
    <3> QED  BY <1>2, <3>1, <3>2
  <2>2. after = [i \in 1..m |-> after[i]]
    BY <1>1, <1>3
  <2>3. after \in [1..m -> Rs]
    BY <2>1, <2>2
  <2> HIDE DEF Rs
  <2> QED  BY <1>3, <2>3
<1>18. /\ next \in Seq(Rs) /\ Len(next) = n
       /\ \A i \in 1..k : next[i] = s[i]
       /\ \A i \in (k + 1)..(k + m) : next[i] = after[i - k]
       /\ \A i \in (k + m + 1)..n : next[i] = s[i]
  <2>1. PICK front : front = head \o after  OBVIOUS
  <2>2. /\ front \in Seq(Rs) /\ Len(front) = k + m
        /\ \A i \in 1..(k + m) : front[i] = IF i <= k THEN head[i] ELSE after[i - k]
    <3>1. Len(head) = k /\ Len(after) = m
      BY <1>1, <1>15
    <3> HIDE DEF Rs
    <3> QED  BY <1>15, <1>17, <2>1, <3>1, ConcatProperties
  <2>3. next = front \o tail
    BY <1>13, <1>14, <2>1
  <2>4. k + m + (n - (k + m)) = n
    BY <1>2, <1>3
  <2>5. /\ next \in Seq(Rs) /\ Len(next) = n
        /\ \A i \in 1..n : next[i] = IF i <= k + m THEN front[i] ELSE tail[i - (k + m)]
    <3> HIDE DEF Rs
    <3>1. /\ front \o tail \in Seq(Rs) /\ Len(front \o tail) = Len(front) + Len(tail)
          /\ \A i \in 1..Len(front) + Len(tail) : (front \o tail)[i] = IF i <= Len(front) THEN front[i] ELSE tail[i - Len(front)]
      BY <1>16, <2>2, ConcatProperties
    <3>2. Len(front) = k + m /\ Len(front) + Len(tail) = n
      BY <1>16, <2>2, <2>4
    <3> QED  BY <2>3, <3>1, <3>2
  <2>6. \A i \in (k + m + 1)..n : next[i] = tail[i - (k + m)]
    <3> TAKE i \in (k + m + 1)..n
    <3>1. i \in 1..n /\ ~ (i <= k + m)  BY <1>5
    <3> QED  BY <2>5, <3>1
  <2>7. \A i \in 1..k : next[i] = s[i]
    <3> TAKE i \in 1..k
    <3>1. i \in 1..n /\ i \in 1..(k + m) /\ i <= k /\ i <= k + m
      BY <1>5, <1>8
    <3>2. next[i] = front[i]  BY <2>5, <3>1
    <3>3. front[i] = head[i]  BY <2>2, <3>1
    <3> QED  BY <1>15, <3>2, <3>3
  <2>8. \A i \in (k + 1)..(k + m) : next[i] = after[i - k]
    <3> TAKE i \in (k + 1)..(k + m)
    <3>1. i \in 1..n /\ i \in 1..(k + m) /\ ~ (i <= k) /\ i <= k + m
      BY <1>5, <1>8
    <3>2. next[i] = front[i]  BY <2>5, <3>1
    <3>3. front[i] = after[i - k]  BY <2>2, <3>1
    <3> QED  BY <3>2, <3>3
  <2>9. \A i \in (k + m + 1)..n : next[i] = s[i]
    <3> TAKE i \in (k + m + 1)..n
    <3>1. i - (k + m) \in 1..(n - (k + m)) /\ k + m + (i - (k + m)) = i
      BY <1>5, <1>8
    <3> QED  BY <1>16, <2>6, <3>1
  <2> QED  BY <2>5, <2>7, <2>8, <2>9
<1>19. next \in [1..n -> Rs]
  BY <1>2, <1>18
<1>20. \A i \in 1..n : \E j \in 1..n : next[i] = s[j] /\ (i \in (k + 1)..(k + m) <=> j \in (k + 1)..(k + m))
                                      /\ (i \notin (k + 1)..(k + m) => i = j)
  <2> TAKE i \in 1..n
  <2>1. CASE i \in (k + 1)..(k + m)
    <3>1. i - k \in 1..m  BY <1>3, <2>1
    <3>2. PICK j \in (k + 1)..(k + m) : after[i - k] = s[j]  BY <1>11, <3>1
    <3>3. j \in 1..n  BY <1>5, <1>8
    <3> QED  BY <1>18, <2>1, <3>2, <3>3
  <2>2. CASE i \notin (k + 1)..(k + m)
    <3>1. i \in 1..k \/ i \in (k + m + 1)..n
      BY <1>2, <1>3, <1>8, <2>2
    <3> QED  BY <1>18, <2>2, <3>1
  <2> QED  BY <2>1, <2>2
<1>21. \A i, j \in 1..n : i # j => next[i] # next[j]
  <2> SUFFICES ASSUME NEW i \in 1..n, NEW j \in 1..n, i # j, next[i] = next[j]  PROVE FALSE
    OBVIOUS
  <2>1. PICK x \in 1..n : next[i] = s[x] /\ (i \in (k + 1)..(k + m) <=> x \in (k + 1)..(k + m))
                          /\ (i \notin (k + 1)..(k + m) => i = x)
    BY <1>20
  <2>2. PICK y \in 1..n : next[j] = s[y] /\ (j \in (k + 1)..(k + m) <=> y \in (k + 1)..(k + m))
                          /\ (j \notin (k + 1)..(k + m) => j = y)
    BY <1>20
  <2>3. x = y  BY <1>2, <2>1, <2>2
  <2>4. i \in (k + 1)..(k + m) /\ j \in (k + 1)..(k + m)
    BY <2>1, <2>2, <2>3
  <2>5. i - k \in 1..m /\ j - k \in 1..m /\ i - k # j - k
    BY <1>5, <2>4
  <2>6. next[i] = after[i - k] /\ next[j] = after[j - k]
    BY <1>18, <2>4
  <2>7. PICK a, b : a = i - k /\ b = j - k  OBVIOUS
  <2>8. a \in 1..m /\ b \in 1..m /\ a # b /\ after[a] = after[b]
    BY <2>5, <2>6, <2>7
  <2> QED  BY <1>3, <2>8
<1>22. next \in Injection(1..n, Rs)
  <2>1. \A i, j \in 1..n : next[i] = next[j] => i = j  BY <1>21
  <2> HIDE DEF Rs
  <2> QED  BY <1>19, <2>1 DEF Injection, IsInjective
<1>23. IsFiniteSet(1..n) /\ Cardinality(1..n) = n /\ IsFiniteSet(Rs)
  BY <1>2, FS_Interval DEF Listable
<1>24. next \in Surjection(1..n, Rs)
  BY <1>22, <1>23, FS_Injection
<1>25. \A p \in Rs : \E i \in 1..n : next[i] = p
  <2> HIDE DEF Rs
  <2> QED  BY <1>24 DEF Surjection
<1> QED  BY <1>1, <1>2, <1>12, <1>19, <1>21, <1>25
-----------------------------------------------------------------------------
(* What a reorder carries once it has read the list: the rows it was shown   *)
(* are that window of it, and its weights number the list it is to become.   *)
Numbered(next, p) == W!Step * (CHOOSE i \in DOMAIN next : next[i] = p)
Weighed(q) ==
    LET next == W!Splice(W!Order(q.sequence), q.offset, q.after)
    IN  /\ W!Slots(W!Order(q.sequence), q.offset, Len(q.before)) = q.before
        /\ \A p \in DOMAIN q.weights : p \in DOMAIN q.sequence /\ q.weights[p] = Numbered(next, p)
        /\ \A p \in DOMAIN q.sequence : p \notin DOMAIN q.weights => q.sequence[p].weight = Numbered(next, p)
RowsTyped == \A p \in DOMAIN pages : pages[p].weight \in Int /\ pages[p].name \in Nat
OrderingOK(q) ==
    /\ q.kind = "weight" => "weights" \in DOMAIN q /\ \A p \in DOMAIN q.weights : q.weights[p] \in Int
    /\ q.kind = "reorder" =>
           /\ {"offset", "before", "after"} \subseteq DOMAIN q /\ Dropped(q)
           /\ q.pc \in {"prepare", "commit"} => {"sequence", "weights"} \subseteq DOMAIN q /\ Weighed(q)
OInv == WInv /\ RowsTyped /\ \A r \in Requests : OrderingOK(write[r])
ReorderStep ==
    \A r \in Requests : write[r].kind = "reorder" /\ W!Commits(r) /\ W!rows' # W!rows =>
        /\ W!Slots(W!Order(pages), write[r].offset, Len(write[r].before)) = write[r].before
        /\ W!Order(pages') = W!Splice(W!Order(pages), write[r].offset, write[r].after)
        /\ \A a, b \in DOMAIN pages' : a # b => pages'[a].weight # pages'[b].weight
Ordered == RowsTyped' /\ (\A d \in Requests : OrderingOK(write'[d])) /\ ReorderStep

LEMMA PagesListable == ASSUME WInv, RowsTyped  PROVE Listable(pages)
<1>1. DOMAIN pages \in SUBSET Pages  BY DEF WInv, DraftsOK
<1>2. IsFiniteSet(DOMAIN pages) /\ DOMAIN pages \subseteq Nat  BY <1>1, PagesFinite
<1> QED  BY <1>2 DEF Listable, RowsTyped

LEMMA MetasOrder ==
    ASSUME NEW q, q.sequence = [p \in DOMAIN pages |-> W!Meta(p)]
    PROVE  W!Order(q.sequence) = W!Order(pages) /\ DOMAIN q.sequence = DOMAIN pages
           /\ \A p \in DOMAIN pages : q.sequence[p].weight = pages[p].weight
<1>1. PICK s : s = [p \in DOMAIN pages |-> W!Meta(p)]  OBVIOUS
<1>2. DOMAIN s = DOMAIN pages /\ \A p \in DOMAIN pages : s[p] = W!Meta(p)
  BY <1>1
<1>3. \A p : W!Meta(p).weight = pages[p].weight /\ W!Meta(p).name = pages[p].name
  BY DEF W!Meta
<1>4. \A p \in DOMAIN pages : s[p].weight = pages[p].weight /\ s[p].name = pages[p].name
  BY <1>2, <1>3
<1>5. W!Order(s) = W!Order(pages)
  BY <1>2, <1>4, OrderDepends
<1> QED  BY <1>1, <1>2, <1>4, <1>5

(* Numbered so, the rows are in that order.                                  *)
LEMMA WeightsLand ==
    ASSUME Listable(pages), \A p \in DOMAIN pages : "weight" \in DOMAIN pages[p] /\ "name" \in DOMAIN pages[p],
           NEW q, Dropped(q), Weighed(q), q.sequence = [p \in DOMAIN pages |-> W!Meta(p)],
           pages' = [p \in DOMAIN pages |-> IF p \in DOMAIN q.weights THEN [pages[p] EXCEPT !.weight = q.weights[p]] ELSE pages[p]]
    PROVE  /\ RowsTyped'
           /\ W!Slots(W!Order(pages), q.offset, Len(q.before)) = q.before
           /\ W!Order(pages') = W!Splice(W!Order(pages), q.offset, q.after)
           /\ \A a, b \in DOMAIN pages' : a # b => pages'[a].weight # pages'[b].weight
<1> DEFINE Rs == DOMAIN pages
<1>1. W!Order(q.sequence) = W!Order(pages) /\ DOMAIN q.sequence = Rs /\ \A p \in Rs : q.sequence[p].weight = pages[p].weight
  BY MetasOrder
<1>2. PICK next : next = W!Splice(W!Order(pages), q.offset, q.after)  OBVIOUS
<1>3. PICK n : n = Cardinality(Rs)  OBVIOUS
<1>4. PICK at : at = [p \in Rs |-> Numbered(next, p)]  OBVIOUS
<1>5. W!Slots(W!Order(pages), q.offset, Len(q.before)) = q.before
  BY <1>1 DEF Weighed
<1>6. /\ n \in Nat /\ next \in [1..n -> Rs]
      /\ \A i, j \in 1..n : i # j => next[i] # next[j]
      /\ \A p \in Rs : \E i \in 1..n : next[i] = p
  <2>1. PICK o : o = W!Order(pages)  OBVIOUS
  <2>2. W!Slots(o, q.offset, Len(q.before)) = q.before
    BY <1>5, <2>1
  <2>3. /\ n \in Nat /\ W!Splice(W!Order(pages), q.offset, q.after) \in [1..n -> DOMAIN pages]
        /\ \A i, j \in 1..n : i # j =>
              W!Splice(W!Order(pages), q.offset, q.after)[i] # W!Splice(W!Order(pages), q.offset, q.after)[j]
        /\ \A p \in DOMAIN pages : \E i \in 1..n : W!Splice(W!Order(pages), q.offset, q.after)[i] = p
    <3>1. PICK ps : ps = pages  OBVIOUS
    <3>2. /\ n \in Nat /\ W!Splice(W!Order(ps), q.offset, q.after) \in [1..n -> DOMAIN ps]
          /\ \A i, j \in 1..n : i # j =>
                W!Splice(W!Order(ps), q.offset, q.after)[i] # W!Splice(W!Order(ps), q.offset, q.after)[j]
          /\ \A p \in DOMAIN ps : \E i \in 1..n : W!Splice(W!Order(ps), q.offset, q.after)[i] = p
      BY <1>3, <1>5, <3>1, SpliceIs
    <3> QED  BY <3>1, <3>2
  <2> QED  BY <1>2, <2>3
<1>7. \A i \in 1..n : at[next[i]] = 10 * i
  <2> TAKE i \in 1..n
  <2>1. next[i] \in Rs /\ DOMAIN next = 1..n  BY <1>6
  <2>2. (CHOOSE j \in DOMAIN next : next[j] = next[i]) = i
    BY <1>6, <2>1
  <2> QED  BY <1>4, <2>1, <2>2 DEF W!Step, Numbered
<1>8. W!Splice(W!Order(q.sequence), q.offset, q.after) = next
  BY <1>1, <1>2
<1>9. /\ \A p \in Rs : p \notin DOMAIN q.weights => q.sequence[p].weight = at[p]
      /\ \A p \in DOMAIN q.weights : p \in Rs /\ q.weights[p] = at[p]
  BY <1>1, <1>4, <1>8 DEF Weighed
<1>10. DOMAIN pages' = Rs /\ \A p \in Rs : pages'[p].weight = at[p] /\ pages'[p].name = pages[p].name
  <2>1. DOMAIN pages' = Rs  OBVIOUS
  <2>2. ASSUME NEW p \in Rs  PROVE pages'[p].weight = at[p] /\ pages'[p].name = pages[p].name
    <3>1. CASE p \in DOMAIN q.weights
      <4>1. pages'[p] = [pages[p] EXCEPT !.weight = q.weights[p]]  BY <3>1
      <4> QED  BY <1>9, <3>1, <4>1
    <3>2. CASE p \notin DOMAIN q.weights
      <4>1. pages'[p] = pages[p]  BY <3>2
      <4> QED  BY <1>1, <1>9, <3>2, <4>1
    <3> QED  BY <3>1, <3>2
  <2> QED  BY <2>1, <2>2
<1>11. \A p \in Rs : \E i \in 1..n : next[i] = p /\ at[p] = 10 * i
  BY <1>6, <1>7
<1>12. \A p \in Rs : pages'[p].weight \in Int /\ pages'[p].name \in Nat
  BY <1>6, <1>10, <1>11 DEF Listable
<1>13. Listable(pages')
  BY <1>10, <1>12 DEF Listable
<1>14. \A i, j \in 1..n : i < j => W!Before(next[i], next[j], pages')
  <2> TAKE i, j \in 1..n
  <2> SUFFICES ASSUME i < j  PROVE W!Before(next[i], next[j], pages')
    OBVIOUS
  <2>1. next[i] \in Rs /\ next[j] \in Rs  BY <1>6
  <2>2. pages'[next[i]].weight = 10 * i /\ pages'[next[j]].weight = 10 * j
    BY <1>7, <1>10, <2>1
  <2>3. 10 * i < 10 * j  BY <1>6
  <2> QED  BY <2>2, <2>3 DEF W!Before
<1>15. next = W!Order(pages')
  <2>1. PICK ps : ps = pages'  OBVIOUS
  <2>2. Listable(ps) /\ n = Cardinality(DOMAIN ps) /\ next \in [1..n -> DOMAIN ps]
    BY <1>3, <1>6, <1>10, <1>13, <2>1
  <2>3. \A i, j \in 1..n : i < j => W!Before(next[i], next[j], ps)
    BY <1>14, <2>1
  <2>4. next = W!Order(ps)
    BY <2>2, <2>3, AscendingIs
  <2> QED  BY <2>1, <2>4
<1>16. \A a, b \in Rs : a # b => at[a] # at[b]
  <2> SUFFICES ASSUME NEW a \in Rs, NEW b \in Rs, at[a] = at[b]  PROVE a = b
    OBVIOUS
  <2>1. PICK i \in 1..n : next[i] = a /\ at[a] = 10 * i  BY <1>11
  <2>2. PICK j \in 1..n : next[j] = b /\ at[b] = 10 * j  BY <1>11
  <2>3. i \in Nat /\ j \in Nat  BY <1>6
  <2>4. 10 * i = 10 * j  BY <2>1, <2>2
  <2>5. i = j  BY <2>3, <2>4
  <2> QED  BY <2>1, <2>2, <2>5
<1>17. RowsTyped'
  BY <1>10, <1>12 DEF RowsTyped
<1>18. \A a, b \in DOMAIN pages' : a # b => pages'[a].weight # pages'[b].weight
  BY <1>10, <1>16
<1> QED  BY <1>2, <1>5, <1>15, <1>17, <1>18
-----------------------------------------------------------------------------
(* A request that orders nothing, before its step and after.                 *)
Orders == {"weight", "reorder"}
Plain(r) == write[r].kind # "reorder" /\ \E q : write' = [write EXCEPT ![r] = q] /\ q.kind \notin Orders
LEMMA PlainIs ==
    ASSUME WInv, NEW r \in Requests
    PROVE  /\ write[r].kind \notin Orders /\ W!Done(r) => Plain(r)
           /\ \A more : write[r].kind \notin Orders /\ W!Goto(r, more) /\ "kind" \notin DOMAIN more => Plain(r)
           /\ \A q : W!Begin(r, q) /\ q.kind \notin Orders => Plain(r)
<1>1. W!Idle.kind \notin Orders
  BY DEF W!Idle, Orders
<1>2. write[r].kind \notin Orders /\ W!Done(r) => Plain(r)
  BY <1>1 DEF Plain, W!Done, Orders
<1>3. ASSUME NEW more, write[r].kind \notin Orders, W!Goto(r, more), "kind" \notin DOMAIN more  PROVE Plain(r)
  <2>1. PICK q : q = write[r]  OBVIOUS
  <2>2. PICK n : n = W!With(q, more)  OBVIOUS
  <2>3. {"kind", "pc"} \subseteq DOMAIN q  BY <2>1 DEF WInv, WritesOK, CarriesOK
  <2>4. \A x \in DOMAIN q : x \notin DOMAIN more => n[x] = q[x]  BY <2>2 DEF W!With
  <2>5. n.kind = q.kind  BY <1>3, <2>3, <2>4
  <2>6. write' = [write EXCEPT ![r] = n]  BY <1>3, <2>1, <2>2 DEF W!Goto, WInv, WritesOK
  <2> QED  BY <1>3, <2>1, <2>5, <2>6 DEF Plain, Orders
<1>4. ASSUME NEW q, W!Begin(r, q), q.kind \notin Orders  PROVE Plain(r)
  BY <1>1, <1>4 DEF Plain, W!Begin, Orders
<1> QED  BY <1>2, <1>3, <1>4

LEMMA MovesTo ==
    ASSUME WInv, NEW r \in Requests, NEW q, write' = [write EXCEPT ![r] = q]
    PROVE  write'[r] = q /\ \A d \in Requests \ {r} : write'[d] = write[d]
  BY DEF WInv, WritesOK

\* Whoever else moves ends no reorder.
LEMMA OthersRest ==
    ASSUME OInv, NEW r \in Requests, NEW q, write' = [write EXCEPT ![r] = q], OrderingOK(q)
    PROVE  /\ \A d \in Requests : OrderingOK(write'[d])
           /\ \A d \in Requests \ {r} : ~ (write[d].kind = "reorder" /\ W!Commits(d))
<1>1. write'[r] = q /\ \A d \in Requests \ {r} : write'[d] = write[d]
  BY MovesTo DEF OInv
<1>2. \A d \in Requests : OrderingOK(write'[d])
  <2> TAKE d \in Requests
  <2>1. CASE d = r  BY <1>1, <2>1
  <2>2. CASE d # r
    <3>1. OrderingOK(write[d])  BY DEF OInv
    <3> QED  BY <1>1, <2>2, <3>1
  <2> QED  BY <2>1, <2>2
<1>3. W!Idle.kind # "reorder"  BY DEF W!Idle
<1> QED  BY <1>1, <1>2, <1>3 DEF W!Commits

LEMMA PlainOrders ==
    ASSUME OInv, NEW r \in Requests, Plain(r), RowsTyped'  PROVE Ordered
<1>1. PICK q : write' = [write EXCEPT ![r] = q] /\ q.kind \notin Orders
  BY DEF Plain
<1>2. OrderingOK(q)  BY <1>1 DEF OrderingOK, Orders
<1>3. /\ \A d \in Requests : OrderingOK(write'[d])
      /\ \A d \in Requests \ {r} : ~ (write[d].kind = "reorder" /\ W!Commits(d))
  BY <1>1, <1>2, OthersRest
<1>4. ReorderStep
  BY <1>3 DEF Plain, ReorderStep
<1> QED  BY <1>3, <1>4 DEF Ordered

LEMMA StillOrders ==
    ASSUME OInv, NEW r \in Requests, Plain(r), UNCHANGED pages  PROVE Ordered
<1>1. RowsTyped'  BY DEF OInv, RowsTyped
<1> QED  BY <1>1, PlainOrders

LEMMA RestOrders ==
    ASSUME OInv, UNCHANGED write, RowsTyped'  PROVE Ordered
<1>1. \A d \in Requests : OrderingOK(write'[d])  BY DEF OInv
<1>2. W!Idle.kind # "reorder"  BY DEF W!Idle
<1>3. ReorderStep  BY <1>2 DEF ReorderStep, W!Commits
<1> QED  BY <1>1, <1>3 DEF Ordered

(* Weights and names a form sends are numbers.                              *)
LEMMA FormsSendNumbers ==
    ASSUME WInv
    PROVE  /\ Weights \subseteq Int /\ Names \subseteq Nat /\ Names # {} /\ Window \in Nat
           /\ kinds.names \subseteq Nat /\ kinds.weight \in Int
<1>1. /\ Weights \subseteq Int /\ Names \subseteq Nat /\ Names # {} /\ Window \in Nat
      /\ \A g \in Plans : g.names \subseteq Names /\ g.weight \in Weights
  BY DraftsAssumption DEF W!CreatesAssumption, W!PagesAssumption
<1>2. kinds \in Plans  BY DEF WInv
<1> QED  BY <1>1, <1>2

LEMMA EditsType ==
    ASSUME OInv, NEW r \in Requests,
           W!SaveDraftContent(r) \/ W!CommitPluginPageUpdates(r) \/ W!Revert(r) \/ W!RemoveDraftHistory(r)
           \/ W!Replace(r) \/ W!ChangeTags(r)
    PROVE  RowsTyped'
<1>1. RowsTyped /\ WInv /\ \A p \in DOMAIN pages : Fields \subseteq DOMAIN pages[p]
  BY DEF OInv, WInv, DraftsOK
<1>2. CASE UNCHANGED pages  BY <1>1, <1>2 DEF RowsTyped
<1>3. CASE W!Saved(write[r], edits + 1)
  <2>1. PICK p \in write[r].targets, name \in kinds.names, w \in Weights :
            \E tags, row : pages' = [pages EXCEPT ![p] = row] /\ row.weight = w /\ row.name = name
    BY <1>3 DEF W!Saved
  <2>3. PICK row : pages' = [pages EXCEPT ![p] = row] /\ row.weight = w /\ row.name = name
    BY <2>1
  <2>2. w \in Int /\ name \in Nat  BY <1>1, <2>1, FormsSendNumbers
  <2> QED  BY <1>1, <2>3, <2>2 DEF RowsTyped
<1>4. CASE \E p, x, y : pages' = [pages EXCEPT ![p].text = x, ![p].tags = y]
  <2>1. PICK p, x, y : pages' = [pages EXCEPT ![p].text = x, ![p].tags = y]  BY <1>4
  <2>2. DOMAIN pages' = DOMAIN pages  BY <2>1
  <2>3. \A d \in DOMAIN pages : pages'[d].weight = pages[d].weight /\ pages'[d].name = pages[d].name
    BY <1>1, <2>1 DEF Fields
  <2> QED  BY <1>1, <2>2, <2>3 DEF RowsTyped
<1>5. CASE \E P, x : pages' = [p \in DOMAIN pages |-> IF p \in P THEN [pages[p] EXCEPT !.text = x] ELSE pages[p]]
  BY <1>1, <1>5 DEF RowsTyped, Fields
<1>6. CASE \E P, x : pages' = [p \in DOMAIN pages |-> IF p \in P THEN [pages[p] EXCEPT !.tags = x] ELSE pages[p]]
  BY <1>1, <1>6 DEF RowsTyped, Fields
<1>7. W!SaveDraftContent(r) => UNCHANGED pages \/ W!Saved(write[r], edits + 1)
  BY DEF W!SaveDraftContent, W!Commit, W!rows
<1>8. W!CommitPluginPageUpdates(r) => UNCHANGED pages \/ W!Saved(write[r], edits + 1)
  BY DEF W!CommitPluginPageUpdates, W!Commit, W!rows
<1>9. W!Revert(r) => UNCHANGED pages \/ \E p, x, y : pages' = [pages EXCEPT ![p].text = x, ![p].tags = y]
  <2>1. W!Revert(r) => UNCHANGED pages \/ \E p \in write[r].targets :
            pages' = [pages EXCEPT ![p].text = write[r].version.text, ![p].tags = write[r].tags[p]]
    BY DEF W!Revert, W!Commit, W!rows
  <2> QED  BY <2>1
<1>10. W!RemoveDraftHistory(r) => UNCHANGED pages
  BY DEF W!RemoveDraftHistory, W!Commit, W!rows
<1>11. W!Replace(r) => UNCHANGED pages
           \/ \E P, x : pages' = [p \in DOMAIN pages |-> IF p \in P THEN [pages[p] EXCEPT !.text = x] ELSE pages[p]]
  BY DEF W!Replace, W!Commit, W!rows
<1>12. W!ChangeTags(r) => UNCHANGED pages
           \/ \E P, x : pages' = [p \in DOMAIN pages |-> IF p \in P THEN [pages[p] EXCEPT !.tags = x] ELSE pages[p]]
  BY DEF W!ChangeTags, W!Commit, W!rows
<1> QED  BY <1>2, <1>3, <1>4, <1>5, <1>6, <1>7, <1>8, <1>9, <1>10, <1>11, <1>12

LEMMA CreatedTypes ==
    ASSUME OInv, NEW p, NEW slug, W!Created(p, edits + 1, slug)  PROVE RowsTyped'
<1>7. PICK name \in kinds.names, w \in Weights :
          \E row : row.weight = w /\ row.name = name /\ pages' = W!With(pages, [x \in {p} |-> row])
  BY DEF W!Created
<1>1. PICK row : row.weight = w /\ row.name = name /\ pages' = W!With(pages, [x \in {p} |-> row])
  BY <1>7
<1>2. w \in Int /\ name \in Nat  BY <1>7, FormsSendNumbers DEF OInv
<1>3. PICK g : g = [x \in {p} |-> row]  OBVIOUS
<1>4. DOMAIN g = {p} /\ g[p] = row  BY <1>3
<1>5. pages' = W!With(pages, g)  BY <1>1, <1>3
<1>6. DOMAIN pages' = DOMAIN pages \cup {p} /\ pages'[p] = row /\ \A x \in DOMAIN pages : x # p => pages'[x] = pages[x]
  <2> DEFINE n == W!With(pages, g)
  <2>1. DOMAIN n = DOMAIN pages \cup DOMAIN g /\ \A y \in DOMAIN g : n[y] = g[y]
    BY DEF W!With
  <2>2. \A y \in DOMAIN pages : y \notin DOMAIN g => n[y] = pages[y]
    BY ONLY WithIs
  <2> HIDE DEF n
  <2>3. pages' = n  BY <1>5 DEF n
  <2> QED  BY <1>4, <2>1, <2>2, <2>3
<1> QED  BY <1>1, <1>2, <1>6 DEF OInv, RowsTyped

Reordering(r) == W!StartReorder(r) \/ W!ReadSequence(r) \/ W!StartWeight(r) \/ W!PrepareWeights(r) \/ W!UpdateWeights(r)
LEMMA ActIsPlain == ASSUME WInv, NEW r \in Requests, W!Act(r)  PROVE Plain(r) \/ Reordering(r)
<1>1. ASSUME NEW kind \in W!Forms \cup W!Slice \cup {"patch"}, W!Start(r, kind)  PROVE Plain(r)
  <2>1. kind \notin Orders  BY DEF W!Forms, W!Slice, Orders
  <2>2. PICK P, saw : W!Begin(r, [kind |-> kind, pc |-> "row", targets |-> P, saw |-> saw])
    BY <1>1 DEF W!Start
  <2>3. PICK q : q = [kind |-> kind, pc |-> "row", targets |-> P, saw |-> saw]  OBVIOUS
  <2>4. q.kind = kind /\ DOMAIN q = {"kind", "pc", "targets", "saw"}  BY <2>3
  <2> QED  BY <2>1, <2>2, <2>3, <2>4, PlainIs
<1>2. CASE W!ReadRows(r)
  <2>1. write[r].kind \notin Orders  BY <1>2 DEF W!ReadRows, W!Forms, W!Slice, Orders
  <2>2. W!Done(r) \/ \E more : W!Goto(r, more) /\ "kind" \notin DOMAIN more
    <3>1. PICK read : /\ DOMAIN read = {"pc", "rows", "tags", "saw"}
                      /\ \/ W!Done(r) \/ W!Goto(r, read)
                         \/ \E x : W!Goto(r, W!With(read, [version |-> x]))
                         \/ \E x : W!Goto(r, W!With(read, [which |-> x]))
      <4> DEFINE P == write[r].targets
                 read == [pc |-> "prepare", rows |-> [p \in P |-> W!Row(p)], tags |-> [p \in P |-> pages[p].tags],
                          saw |-> [p \in P |-> pages[p].text]]
      <4>1. DOMAIN read = {"pc", "rows", "tags", "saw"}  OBVIOUS
      <4>2. \/ W!Done(r) \/ W!Goto(r, read)
            \/ \E x : W!Goto(r, W!With(read, [version |-> x]))
            \/ \E x : W!Goto(r, W!With(read, [which |-> x]))
        BY <1>2 DEF W!ReadRows
      <4> HIDE DEF read
      <4> QED  BY <4>1, <4>2
    <3>2. ASSUME NEW x, W!Goto(r, W!With(read, [version |-> x]))  PROVE \E more : W!Goto(r, more) /\ "kind" \notin DOMAIN more
      <4>1. DOMAIN W!With(read, [version |-> x]) = {"pc", "rows", "tags", "saw"} \cup {"version"}
        BY <3>1 DEF W!With
      <4> QED  BY <3>2, <4>1
    <3>3. ASSUME NEW x, W!Goto(r, W!With(read, [which |-> x]))  PROVE \E more : W!Goto(r, more) /\ "kind" \notin DOMAIN more
      <4>1. DOMAIN W!With(read, [which |-> x]) = {"pc", "rows", "tags", "saw"} \cup {"which"}
        BY <3>1 DEF W!With
      <4> QED  BY <3>3, <4>1
    <3>4. "kind" \notin DOMAIN read  BY <3>1
    <3>5. W!Goto(r, read) => \E more : W!Goto(r, more) /\ "kind" \notin DOMAIN more
      BY <3>4, Zenon
    <3>6. \/ W!Done(r) \/ W!Goto(r, read)
          \/ \E x : W!Goto(r, W!With(read, [version |-> x]))
          \/ \E x : W!Goto(r, W!With(read, [which |-> x]))
      BY <3>1
    <3> QED  BY <3>2, <3>3, <3>5, <3>6, Zenon
  <2> QED  BY <2>1, <2>2, PlainIs
<1>3. CASE W!ReadPatch(r)
  <2>1. write[r].kind \notin Orders  BY <1>3 DEF W!ReadPatch, W!At, Orders
  <2>2. W!Done(r) \/ \E x : W!Goto(r, [pc |-> "prepare", rows |-> x])  BY <1>3 DEF W!ReadPatch
  <2>3. \A x : "kind" \notin DOMAIN [pc |-> "prepare", rows |-> x]  OBVIOUS
  <2> QED  BY <2>1, <2>2, <2>3, PlainIs
<1>4. CASE W!Prepare(r)
  <2>1. write[r].kind \notin Orders  BY <1>4 DEF W!Prepare, W!Forms, W!Slice, Orders
  <2>2. W!Done(r) \/ \E x, y, z, w : W!Goto(r, [pc |-> "commit", ids |-> x, tags |-> y, slug |-> z, listed |-> w])
    BY <1>4 DEF W!Prepare
  <2>3. \A x, y, z, w : "kind" \notin DOMAIN [pc |-> "commit", ids |-> x, tags |-> y, slug |-> z, listed |-> w]  OBVIOUS
  <2> QED  BY <2>1, <2>2, <2>3, PlainIs
<1>5. CASE \/ W!SaveDraftContent(r) \/ W!CommitPluginPageUpdates(r) \/ W!Revert(r) \/ W!RemoveDraftHistory(r)
           \/ W!Replace(r) \/ W!ChangeTags(r) \/ W!Create(r)
  <2>1. write[r].kind \notin Orders /\ W!Done(r)
    BY <1>5 DEF W!SaveDraftContent, W!CommitPluginPageUpdates, W!Revert, W!RemoveDraftHistory, W!Replace, W!ChangeTags,
                W!Create, W!Commit, Orders
  <2> QED  BY <2>1, PlainIs
<1>6. CASE W!StartCreate(r)
  <2>1. PICK q : q = [kind |-> "create", pc |-> "prepare", targets |-> {}]  OBVIOUS
  <2>2. DOMAIN q = {"kind", "pc", "targets"} /\ q.kind \notin Orders  BY <2>1 DEF Orders
  <2>3. W!Begin(r, q)  BY <1>6, <2>1 DEF W!StartCreate
  <2> QED  BY <2>2, <2>3, PlainIs
<1>7. CASE W!PrepareCreate(r)
  <2>1. write[r].kind \notin Orders  BY <1>7 DEF W!PrepareCreate, W!At, Orders
  <2>2. W!Done(r) \/ \E x, y, z, w : W!Goto(r, [pc |-> "commit", slug |-> x, ids |-> y, rows |-> z, tags |-> w])
    BY <1>7 DEF W!PrepareCreate
  <2>3. \A x, y, z, w : "kind" \notin DOMAIN [pc |-> "commit", slug |-> x, ids |-> y, rows |-> z, tags |-> w]  OBVIOUS
  <2> QED  BY <2>1, <2>2, <2>3, PlainIs
<1> QED  BY <1>1, <1>2, <1>3, <1>4, <1>5, <1>6, <1>7 DEF W!Act, Reordering

(* The requests that pay.                                                    *)
LEMMA AsksArePlain ==
    ASSUME WInv, NEW r \in Requests, write[r].kind \in W!Asks
    PROVE  /\ W!Done(r) => Plain(r)
           /\ \A pc : W!Goto(r, [pc |-> pc]) => Plain(r)
           /\ W!End(r, write[r]) => Plain(r)
<1>1. write[r].kind \notin Orders  BY DEF W!Asks, Orders
<1>2. W!Done(r) => Plain(r)  BY <1>1, PlainIs
<1>3. ASSUME NEW pc, W!Goto(r, [pc |-> pc])  PROVE Plain(r)
  <2>1. PICK more : more = [pc |-> pc]  OBVIOUS
  <2>2. DOMAIN more = {"pc"}  BY <2>1
  <2> QED  BY <1>1, <1>3, <2>1, <2>2, PlainIs
<1>4. W!End(r, write[r]) => W!Done(r) \/ W!Goto(r, [pc |-> "answer"])
  BY DEF W!End
<1> QED  BY <1>2, <1>3, <1>4

LEMMA BegunIsPlain ==
    ASSUME WInv, NEW r \in Requests, W!StartNew(r) \/ W!StartApi(r) \/ W!Submit(r)  PROVE Plain(r)
<1>1. CASE W!StartNew(r)
  <2>1. PICK q : q = [kind |-> "new", pc |-> "count", token |-> "none"]  OBVIOUS
  <2>2. W!Begin(r, q) /\ q.kind = "new"  BY <1>1, <2>1 DEF W!StartNew
  <2> QED  BY <2>2, PlainIs DEF Orders
<1>2. CASE W!StartApi(r)
  <2>1. PICK kind \in {"api", "copy"} : W!Begin(r, [kind |-> kind, pc |-> "plan", token |-> "none"])
    BY <1>2 DEF W!StartApi
  <2>2. PICK q : q = [kind |-> kind, pc |-> "plan", token |-> "none"]  OBVIOUS
  <2>3. W!Begin(r, q) /\ q.kind \notin Orders  BY <2>1, <2>2 DEF Orders
  <2> QED  BY <2>3, PlainIs
<1>3. CASE W!Submit(r)
  <2>1. PICK t : W!Begin(r, [kind |-> "form", pc |-> "claim", token |-> t, claimed |-> FALSE])
    BY <1>3 DEF W!Submit
  <2>2. PICK q : q = [kind |-> "form", pc |-> "claim", token |-> t, claimed |-> FALSE]  OBVIOUS
  <2>3. W!Begin(r, q) /\ q.kind \notin Orders  BY <2>1, <2>2 DEF Orders
  <2> QED  BY <2>3, PlainIs
<1> QED  BY <1>1, <1>2, <1>3

LEMMA PaysPlainly ==
    ASSUME WInv, NEW r \in Requests, W!Paying(r)  PROVE Plain(r)
<1>1. CASE W!StartNew(r) \/ W!StartApi(r) \/ W!Submit(r)  BY <1>1, BegunIsPlain
<1>2. CASE W!CheckCreateLimits(r) \/ W!ReserveNew(r) \/ W!PrepareNew(r) \/ W!WriteNew(r) \/ W!RefundNew(r)
  <2>1. write[r].kind \notin Orders
    BY <1>2 DEF W!CheckCreateLimits, W!ReserveNew, W!PrepareNew, W!WriteNew, W!RefundNew, W!At, Orders
  <2>2. W!CheckCreateLimits(r) => W!Done(r) \/ \E pc : W!Goto(r, [pc |-> pc])
    BY DEF W!CheckCreateLimits
  <2>3. W!ReserveNew(r) => W!Done(r) \/ \E pc : W!Goto(r, [pc |-> pc])
    BY DEF W!ReserveNew
  <2>4. W!PrepareNew(r) => (\E pc : W!Goto(r, [pc |-> pc])) \/ \E x : W!Goto(r, [pc |-> "write", slug |-> x])
    <3>1. W!PrepareNew(r) => W!Goto(r, [pc |-> "write", slug |-> W!FreeSlug(0)]) \/ W!Goto(r, [pc |-> "refund"])
      BY DEF W!PrepareNew
    <3> QED  BY <3>1
  <2>5. W!WriteNew(r) => W!Done(r) \/ \E pc : W!Goto(r, [pc |-> pc])
    <3>1. W!WriteNew(r) => W!Done(r) \/ W!Goto(r, [pc |-> "refund"])
      BY DEF W!WriteNew
    <3> QED  BY <3>1
  <2>6. W!RefundNew(r) => W!Done(r)
    BY DEF W!RefundNew
  <2>7. ASSUME NEW pc, W!Goto(r, [pc |-> pc])  PROVE Plain(r)
    <3>1. PICK more : more = [pc |-> pc]  OBVIOUS
    <3>2. DOMAIN more = {"pc"}  BY <3>1
    <3> QED  BY <2>1, <2>7, <3>1, <3>2, PlainIs
  <2>8. ASSUME NEW x, W!Goto(r, [pc |-> "write", slug |-> x])  PROVE Plain(r)
    <3>1. PICK more : more = [pc |-> "write", slug |-> x]  OBVIOUS
    <3>2. DOMAIN more = {"pc", "slug"}  BY <3>1
    <3> QED  BY <2>1, <2>8, <3>1, <3>2, PlainIs
  <2>9. W!Done(r) => Plain(r)  BY <2>1, PlainIs
  <2> QED  BY <1>2, <2>2, <2>3, <2>4, <2>5, <2>6, <2>7, <2>8, <2>9
<1>3. CASE W!Plan(r)
  <2>1. write[r].kind \notin Orders  BY <1>3 DEF W!Plan, W!Asks, Orders
  <2>2. \E ids, sources : W!Planned(r, ids, sources)
    BY <1>3 DEF W!Plan
  <2>3. \E x, y : W!Goto(r, [pc |-> "admit", plan |-> x, sources |-> y, written |-> 0, charged |-> 0])
    BY <2>2 DEF W!Planned
  <2>4. PICK x, y : W!Goto(r, [pc |-> "admit", plan |-> x, sources |-> y, written |-> 0, charged |-> 0])
    BY <2>3
  <2>5. PICK more : more = [pc |-> "admit", plan |-> x, sources |-> y, written |-> 0, charged |-> 0]  OBVIOUS
  <2>6. DOMAIN more = {"pc", "plan", "sources", "written", "charged"}  BY <2>5
  <2> QED  BY <2>1, <2>4, <2>5, <2>6, PlainIs
<1>4. CASE W!PreparePluginPageCreates(r)
  <2>1. write[r].kind \in W!Asks /\ (W!Goto(r, [pc |-> "reserve"]) \/ W!End(r, write[r]))
    BY <1>4 DEF W!PreparePluginPageCreates
  <2> QED  BY <2>1, AsksArePlain
<1>5. CASE W!ReservePageCreates(r)
  <2>1. write[r].kind \in W!Asks /\ ((\E n : W!Goto(r, [pc |-> "write", charged |-> n])) \/ W!End(r, write[r]))
    BY <1>5 DEF W!ReservePageCreates
  <2>2. ASSUME NEW n, W!Goto(r, [pc |-> "write", charged |-> n])  PROVE Plain(r)
    <3>1. PICK more : more = [pc |-> "write", charged |-> n]  OBVIOUS
    <3>2. DOMAIN more = {"pc", "charged"}  BY <3>1
    <3>3. write[r].kind \notin Orders  BY <2>1 DEF W!Asks, Orders
    <3> QED  BY <2>2, <3>1, <3>2, <3>3, PlainIs
  <2> QED  BY <2>1, <2>2, AsksArePlain
<1>6. CASE W!CommitPluginPageCreates(r)
  <2>1. write[r].kind \in W!Asks
    BY <1>6 DEF W!CommitPluginPageCreates
  <2>2. \/ W!End(r, write[r]) \/ W!Goto(r, [pc |-> "refund"]) \/ W!Goto(r, [pc |-> "withhold"])
        \/ \E n : W!Goto(r, [written |-> n])
    BY <1>6 DEF W!CommitPluginPageCreates
  <2>3. ASSUME NEW n, W!Goto(r, [written |-> n])  PROVE Plain(r)
    <3>1. PICK more : more = [written |-> n]  OBVIOUS
    <3>2. DOMAIN more = {"written"}  BY <3>1
    <3>3. write[r].kind \notin Orders  BY <2>1 DEF W!Asks, Orders
    <3> QED  BY <2>3, <3>1, <3>2, <3>3, PlainIs
  <2> QED  BY <2>1, <2>2, <2>3, AsksArePlain
<1>7. CASE W!Settle(r)
  <2>1. write[r].kind \in W!Asks /\ W!End(r, write[r])
    BY <1>7 DEF W!Settle
  <2> QED  BY <2>1, AsksArePlain
<1>8. CASE W!Claim(r) \/ W!Disclose(r) \/ W!Answer(r)
  <2>1. write[r].kind = "form" /\ write[r].kind \in W!Asks
    BY <1>8 DEF W!Claim, W!Disclose, W!Answer, W!At, W!Asks
  <2>2. W!Claim(r) => W!Done(r) \/ W!Goto(r, [pc |-> "disclose"]) \/ W!Goto(r, [pc |-> "disclose", claimed |-> TRUE])
    BY DEF W!Claim
  <2>3. W!Disclose(r) => W!Done(r) \/ W!Goto(r, [pc |-> "plan"])
    BY DEF W!Disclose
  <2>4. W!Answer(r) => W!Done(r)
    BY DEF W!Answer
  <2>5. ASSUME W!Goto(r, [pc |-> "disclose", claimed |-> TRUE])  PROVE Plain(r)
    <3>1. PICK more : more = [pc |-> "disclose", claimed |-> TRUE]  OBVIOUS
    <3>2. DOMAIN more = {"pc", "claimed"}  BY <3>1
    <3>3. write[r].kind \notin Orders  BY <2>1 DEF Orders
    <3> QED  BY <2>5, <3>1, <3>2, <3>3, PlainIs
  <2> QED  BY <1>8, <2>1, <2>2, <2>3, <2>4, <2>5, AsksArePlain
<1> QED  BY <1>1, <1>2, <1>3, <1>4, <1>5, <1>6, <1>7, <1>8 DEF W!Paying

LEMMA InsertedTypes ==
    ASSUME OInv, NEW r \in Requests, W!CommitPluginPageCreates(r)  PROVE RowsTyped'
<1>1. PICK q : q = write[r]  OBVIOUS
<1>2. CASE UNCHANGED W!rows  BY <1>2 DEF W!rows, OInv, RowsTyped
<1>3. CASE W!Inserted(W!Chunk(q), edits + 1)
  <2> DEFINE c == W!Chunk(q)
             at(p) == CHOOSE i \in DOMAIN c : c[i].id = p
             Row(p) == [text |-> edits + 1, tags |-> edits + 1, weight |-> 5, name |-> 1, slug |-> c[at(p)].slug]
             new == {c[i].id : i \in DOMAIN c}
  <2>1. pages' = W!With(pages, [p \in new |-> Row(p)])
    BY <1>3 DEF W!Inserted
  <2>2. \A p : Row(p).weight = 5 /\ Row(p).name = 1
    OBVIOUS
  <2>3. PICK g : g = [p \in new |-> Row(p)]  OBVIOUS
  <2> HIDE DEF new, Row
  <2>4. DOMAIN g = new /\ \A p \in new : g[p].weight = 5 /\ g[p].name = 1
    BY <2>2, <2>3
  <2>5. pages' = W!With(pages, g)
    BY <2>1, <2>3
  <2>6. /\ DOMAIN pages' = DOMAIN pages \cup DOMAIN g /\ \A y \in DOMAIN g : pages'[y] = g[y]
        /\ \A y \in DOMAIN pages : y \notin DOMAIN g => pages'[y] = pages[y]
    <3> DEFINE n == W!With(pages, g)
    <3>1. DOMAIN n = DOMAIN pages \cup DOMAIN g /\ \A y \in DOMAIN g : n[y] = g[y]
      BY DEF W!With
    <3>2. \A y \in DOMAIN pages : y \notin DOMAIN g => n[y] = pages[y]
      BY ONLY WithIs
    <3> HIDE DEF n
    <3>3. pages' = n  BY <2>5 DEF n
    <3> QED  BY <3>1, <3>2, <3>3
  <2> QED  BY <2>4, <2>6 DEF OInv, RowsTyped
<1>4. \/ UNCHANGED W!rows
      \/ W!Inserted(W!Chunk(q), edits + 1)
  BY <1>1 DEF W!CommitPluginPageCreates
<1> QED  BY <1>2, <1>3, <1>4
-----------------------------------------------------------------------------
(* What a client drops, from what it was shown.                              *)
LEMMA DropIs ==
    ASSUME NEW ps, Listable(ps), NEW w \in Nat, NEW q, q.offset \in Nat, q.before = W!Slots(W!Order(ps), q.offset, w),
           q.offset < Len(W!Order(ps)), q.after \in W!SetToSeqs(W!ToSet(q.before)), q.after # q.before
    PROVE  Dropped(q)
<1>1. PICK k, before, after : k = q.offset /\ before = q.before /\ after = q.after  OBVIOUS
<1>2. k \in Nat /\ before = W!Slots(W!Order(ps), k, w) /\ k < Len(W!Order(ps)) /\ after \in W!SetToSeqs(W!ToSet(before)) /\ after # before
  BY <1>1
<1>3. PICK s, n, e, S : s = W!Order(ps) /\ n = Cardinality(DOMAIN ps) /\ e = (IF k + w < n THEN k + w ELSE n) /\ S = W!ToSet(before)
  OBVIOUS
<1>4. n \in Nat /\ s \in [1..n -> DOMAIN ps] /\ \A i, j \in 1..n : i # j => s[i] # s[j]
  BY <1>3, OrderIs
<1>5. DOMAIN ps \subseteq Nat  BY DEF Listable
<1>6. Len(s) = n /\ s \in Seq(DOMAIN ps)
  BY <1>4
<1>7. k < n /\ before = SubSeq(s, k + 1, e)
  BY <1>2, <1>3, <1>6 DEF W!Slots
<1>8. e \in Nat /\ k <= e /\ e <= n /\ k + 1 \in Int /\ (IF k + 1 <= e THEN e - (k + 1) + 1 ELSE 0) = e - k /\ e - k \in Nat
      /\ e - (k + 1) + 1 = e - k /\ \A x \in 1..(e - k) : k + 1 + x - 1 = k + x /\ k + x \in 1..n
  <2>1. n \in Nat /\ k < n  BY <1>4, <1>7
  <2>2. CASE k + w < n  BY <1>2, <1>3, <2>1, <2>2
  <2>3. CASE ~ (k + w < n)  BY <1>2, <1>3, <2>1, <2>3
  <2> QED  BY <2>2, <2>3
<1>9. \A x \in (k + 1)..e : s[x] \in Nat
  <2> TAKE x \in (k + 1)..e
  <2>1. x \in 1..n  BY <1>2, <1>4, <1>8
  <2> QED  BY <1>4, <1>5, <2>1
<1>10. PICK m : m = e - k /\ m \in Nat  BY <1>8
<1>11. before \in Seq(Nat) /\ Len(before) = m /\ \A i \in 1..m : before[i] = s[k + i]
  <2>1. PICK a : a = k + 1  OBVIOUS
  <2>2. a \in Int /\ e \in Int /\ \A x \in a..e : s[x] \in Nat
    BY <1>8, <1>9, <2>1
  <2>3. /\ SubSeq(s, a, e) \in Seq(Nat) /\ Len(SubSeq(s, a, e)) = IF a <= e THEN e - a + 1 ELSE 0
        /\ \A i \in 1..(e - a + 1) : SubSeq(s, a, e)[i] = s[a + i - 1]
    BY <2>2, SubSeqProperties
  <2>4. before = SubSeq(s, a, e)  BY <1>7, <2>1
  <2>5. (IF a <= e THEN e - a + 1 ELSE 0) = m /\ e - a + 1 = m /\ \A i \in 1..m : a + i - 1 = k + i
    BY <1>8, <1>10, <2>1
  <2> QED  BY <2>3, <2>4, <2>5
<1>12. \A i, j \in 1..m : i # j => before[i] # before[j]
  <2> SUFFICES ASSUME NEW i \in 1..m, NEW j \in 1..m, before[i] = before[j]  PROVE i = j
    OBVIOUS
  <2>1. PICK a, b : a = k + i /\ b = k + j  OBVIOUS
  <2>2. a \in 1..n /\ b \in 1..n /\ s[a] = s[b]
    BY <1>8, <1>10, <1>11, <2>1
  <2>3. a = b  BY <1>4, <2>2
  <2> QED  BY <1>2, <1>10, <2>1, <2>3
<1>13. DOMAIN before = 1..m /\ before = [i \in 1..m |-> before[i]]
  BY <1>11
<1>14. S = {before[i] : i \in 1..m}
  BY <1>3, <1>13 DEF W!ToSet
<1>15. Cardinality(S) = m
  <2>1. before \in [1..m -> S]  BY <1>13, <1>14
  <2>2. \A i, j \in 1..m : before[i] = before[j] => i = j  BY <1>12
  <2>3. \A x \in S : \E i \in 1..m : before[i] = x  BY <1>14
  <2>4. before \in Injection(1..m, S) /\ before \in Surjection(1..m, S)
    BY <2>1, <2>2, <2>3 DEF Injection, IsInjective, Surjection
  <2>5. IsFiniteSet(1..m) /\ Cardinality(1..m) = m
    BY <1>10, FS_Interval
  <2>6. IsFiniteSet(S)
    BY <2>4, <2>5, FS_Surjection
  <2> QED  BY <2>4, <2>5, <2>6, FS_Injection
<1>16. after \in [1..m -> S] /\ \A i, j \in 1..m : i # j => after[i] # after[j]
  BY <1>2, <1>3, <1>15, CardinalityIs DEF W!SetToSeqs
<1>17. S \subseteq Nat
  BY <1>11, <1>14
<1>18. after \in Seq(Nat) /\ Len(after) = m
  <2>1. after \in [1..m -> Nat]  BY <1>16, <1>17
  <2> QED  BY <1>10, <2>1
<1>19. m > 0
  <2> SUFFICES ASSUME m = 0  PROVE FALSE  BY <1>10
  <2>1. Len(after) = 0 /\ Len(before) = 0  BY <1>11, <1>18
  <2>2. after = << >> /\ before = << >>
    BY <1>11, <1>18, <2>1
  <2> QED  BY <1>2, <2>2
<1>20. \A i \in 1..m : \E j \in 1..m : after[i] = before[j]
  BY <1>14, <1>16
<1> QED  BY <1>1, <1>2, <1>11, <1>16, <1>18, <1>19, <1>20 DEF Dropped

LEMMA ReorderStarts == ASSUME OInv, NEW r \in Requests, W!StartReorder(r)  PROVE Ordered
<1>1. UNCHANGED pages /\ \E offset \in {0, Window} :
          /\ offset < Len(W!Order(pages))
          /\ \E after \in W!SetToSeqs(W!ToSet(W!Slots(W!Order(pages), offset, Window))) :
                 /\ after # W!Slots(W!Order(pages), offset, Window)
                 /\ W!Begin(r, [kind |-> "reorder", pc |-> "row", offset |-> offset,
                                before |-> W!Slots(W!Order(pages), offset, Window), after |-> after])
  BY DEF W!StartReorder, W!rows
<1>2. PICK offset \in {0, Window} :
          /\ offset < Len(W!Order(pages))
          /\ \E after \in W!SetToSeqs(W!ToSet(W!Slots(W!Order(pages), offset, Window))) :
                 /\ after # W!Slots(W!Order(pages), offset, Window)
                 /\ W!Begin(r, [kind |-> "reorder", pc |-> "row", offset |-> offset,
                                before |-> W!Slots(W!Order(pages), offset, Window), after |-> after])
  BY <1>1
<1>3. PICK before : before = W!Slots(W!Order(pages), offset, Window)  OBVIOUS
<1>4. PICK after \in W!SetToSeqs(W!ToSet(before)) :
          /\ after # before
          /\ W!Begin(r, [kind |-> "reorder", pc |-> "row", offset |-> offset, before |-> before, after |-> after])
  BY <1>2, <1>3
<1>5. offset \in Nat /\ Window \in Nat
  BY FormsSendNumbers DEF OInv
<1>6. PICK ps : ps = pages /\ Listable(ps)
  BY PagesListable DEF OInv
<1>7. PICK q : q = [kind |-> "reorder", pc |-> "row", offset |-> offset, before |-> before, after |-> after]  OBVIOUS
<1>8. /\ DOMAIN q = {"kind", "pc", "offset", "before", "after"} /\ q.kind = "reorder" /\ q.pc = "row"
      /\ q.offset = offset /\ q.before = before /\ q.after = after
  BY <1>7
<1>9. Dropped(q)
  <2>1. q.offset \in Nat /\ q.before = W!Slots(W!Order(ps), q.offset, Window) /\ q.offset < Len(W!Order(ps))
    BY <1>2, <1>3, <1>5, <1>6, <1>8
  <2>2. q.after \in W!SetToSeqs(W!ToSet(q.before)) /\ q.after # q.before
    BY <1>4, <1>8
  <2>3. Window \in Nat /\ Listable(ps)
    BY <1>5, <1>6
  <2> QED  BY ONLY <2>1, <2>2, <2>3, DropIs
<1>10. OrderingOK(q)  BY <1>8, <1>9 DEF OrderingOK
<1>11. write[r] = W!Idle /\ write' = [write EXCEPT ![r] = q]
  BY <1>4, <1>7 DEF W!Begin
<1>12. /\ \A d \in Requests : OrderingOK(write'[d])
       /\ \A d \in Requests \ {r} : ~ (write[d].kind = "reorder" /\ W!Commits(d))
  BY <1>10, <1>11, OthersRest
<1>13. write[r].kind # "reorder"  BY <1>11 DEF W!Idle
<1>14. ReorderStep  BY <1>12, <1>13 DEF ReorderStep
<1>15. RowsTyped'  BY <1>1 DEF OInv, RowsTyped
<1> QED  BY <1>12, <1>14, <1>15 DEF Ordered

(* A step of a request that changes no row and commits nothing.             *)
LEMMA ReadsOn ==
    ASSUME OInv, NEW r \in Requests, NEW q, write' = [write EXCEPT ![r] = q], OrderingOK(q), write[r].pc # "commit",
           UNCHANGED pages
    PROVE  Ordered
<1>1. /\ \A d \in Requests : OrderingOK(write'[d])
      /\ \A d \in Requests \ {r} : ~ (write[d].kind = "reorder" /\ W!Commits(d))
  BY OthersRest
<1>2. ~ W!Commits(r)  BY DEF W!Commits
<1>3. ReorderStep  BY <1>1, <1>2 DEF ReorderStep
<1>4. RowsTyped'  BY DEF OInv, RowsTyped
<1> QED  BY <1>1, <1>3, <1>4 DEF Ordered

LEMMA IdleOrders == OrderingOK(W!Idle)
  BY DEF OrderingOK, W!Idle

LEMMA SequenceReads == ASSUME OInv, NEW r \in Requests, W!ReadSequence(r)  PROVE Ordered
<1>1. write[r].kind = "reorder" /\ write[r].pc = "row" /\ UNCHANGED pages
  BY DEF W!ReadSequence, W!At, W!rows
<1>2. CASE W!Done(r)
  <2>1. write' = [write EXCEPT ![r] = W!Idle]  BY <1>2 DEF W!Done
  <2> QED  BY <1>1, <2>1, IdleOrders, ReadsOn
<1>3. CASE W!Slots(W!Order(pages), write[r].offset, Len(write[r].before)) = write[r].before
  <2>1. PICK q, next : q = write[r] /\ next = W!Splice(W!Order(pages), q.offset, q.after)  OBVIOUS
  <2>2. PICK at : at = [p \in DOMAIN pages |-> Numbered(next, p)]  OBVIOUS
  <2>3. PICK weights : weights = [p \in {x \in DOMAIN pages : pages[x].weight # at[x]} |-> at[p]]  OBVIOUS
  <2>4. PICK sequence : sequence = [p \in DOMAIN pages |-> W!Meta(p)]  OBVIOUS
  <2>5. W!Goto(r, [pc |-> "prepare", sequence |-> sequence, weights |-> weights])
    <3>1. at = [p \in DOMAIN pages |-> W!Step * (CHOOSE i \in DOMAIN next : next[i] = p)]
      BY <2>2 DEF Numbered
    <3> QED  BY <1>3, <2>1, <2>3, <2>4, <3>1 DEF W!ReadSequence
  <2>6. PICK more, n : more = [pc |-> "prepare", sequence |-> sequence, weights |-> weights] /\ n = W!With(q, more)  OBVIOUS
  <2>7. DOMAIN more = {"pc", "sequence", "weights"} /\ more.pc = "prepare" /\ more.sequence = sequence /\ more.weights = weights
    BY <2>6
  <2>8. /\ DOMAIN n = DOMAIN q \cup DOMAIN more /\ \A x \in DOMAIN more : n[x] = more[x]
        /\ \A x \in DOMAIN q : x \notin DOMAIN more => n[x] = q[x]
    BY <2>6 DEF W!With
  <2>9. "kind" \in DOMAIN q /\ {"offset", "before", "after"} \subseteq DOMAIN q /\ Dropped(q) /\ q.kind = "reorder"
    BY <1>1, <2>1 DEF OInv, WInv, WritesOK, CarriesOK, OrderingOK
  <2>10. /\ n.kind = "reorder" /\ n.offset = q.offset /\ n.before = q.before /\ n.after = q.after
         /\ n.sequence = sequence /\ n.weights = weights /\ {"offset", "before", "after", "sequence", "weights"} \subseteq DOMAIN n
    BY <2>7, <2>8, <2>9
  <2>11. Dropped(n)  BY <2>9, <2>10 DEF Dropped
  <2>12. W!Order(sequence) = W!Order(pages) /\ DOMAIN sequence = DOMAIN pages
         /\ \A p \in DOMAIN pages : sequence[p].weight = pages[p].weight
    <3>1. n.sequence = [p \in DOMAIN pages |-> W!Meta(p)]  BY <2>4, <2>10
    <3>2. W!Order(n.sequence) = W!Order(pages) /\ DOMAIN n.sequence = DOMAIN pages
          /\ \A p \in DOMAIN pages : n.sequence[p].weight = pages[p].weight
      BY <3>1, MetasOrder
    <3> QED  BY <2>10, <3>2
  <2>13. W!Slots(W!Order(n.sequence), n.offset, Len(n.before)) = n.before
    BY <1>3, <2>1, <2>10, <2>12
  <2>14. W!Splice(W!Order(n.sequence), n.offset, n.after) = next
    BY <2>1, <2>10, <2>12
  <2>15. \A p \in DOMAIN weights : p \in DOMAIN sequence /\ weights[p] = Numbered(next, p)
    BY <2>2, <2>3, <2>12
  <2>16. \A p \in DOMAIN sequence : p \notin DOMAIN weights => sequence[p].weight = Numbered(next, p)
    BY <2>2, <2>3, <2>12
  <2>17. Weighed(n)
    BY <2>10, <2>13, <2>14, <2>15, <2>16 DEF Weighed
  <2>18. OrderingOK(n)
    BY <2>10, <2>11, <2>17 DEF OrderingOK
  <2>19. write' = [write EXCEPT ![r] = n]
    BY <2>1, <2>5, <2>6 DEF W!Goto, OInv, WInv, WritesOK
  <2> QED  BY <1>1, <2>18, <2>19, ReadsOn
<1>4. W!Slots(W!Order(pages), write[r].offset, Len(write[r].before)) = write[r].before \/ W!Done(r)
  BY DEF W!ReadSequence
<1> QED  BY <1>2, <1>3, <1>4

LEMMA WeightStarts == ASSUME OInv, NEW r \in Requests, W!StartWeight(r)  PROVE Ordered
<1>1. PICK p \in DOMAIN pages, w \in Weights : W!Begin(r, [kind |-> "weight", pc |-> "prepare", weights |-> [x \in {p} |-> w]])
  BY DEF W!StartWeight
<1>2. PICK g, q : g = [x \in {p} |-> w] /\ q = [kind |-> "weight", pc |-> "prepare", weights |-> g]  OBVIOUS
<1>3. w \in Int  BY FormsSendNumbers DEF OInv
<1>4. DOMAIN q = {"kind", "pc", "weights"} /\ q.kind = "weight" /\ q.weights = g /\ DOMAIN g = {p} /\ g[p] = w
  BY <1>2
<1>5. OrderingOK(q)  BY <1>3, <1>4 DEF OrderingOK
<1>6. write[r].pc # "commit" /\ write' = [write EXCEPT ![r] = q]
  BY <1>1, <1>2 DEF W!Begin, W!Idle
<1>7. UNCHANGED pages  BY DEF W!StartWeight, W!rows
<1> QED  BY <1>5, <1>6, <1>7, ReadsOn

LEMMA WeightsPrepare == ASSUME OInv, NEW r \in Requests, W!PrepareWeights(r)  PROVE Ordered
<1>1. write[r].kind \in {"weight", "reorder"} /\ write[r].pc = "prepare" /\ UNCHANGED pages
  BY DEF W!PrepareWeights, W!rows
<1>2. PICK q, more, n : q = write[r] /\ more = [pc |-> "commit", meta |-> [p \in DOMAIN write[r].weights |-> W!Meta(p)]]
                        /\ n = W!With(q, more)
  OBVIOUS
<1>3. DOMAIN more = {"pc", "meta"} /\ more.pc = "commit"
  BY <1>2
<1>4. W!Goto(r, more) \/ W!Done(r)
  BY <1>2 DEF W!PrepareWeights
<1>5. CASE W!Done(r)
  <2>1. write' = [write EXCEPT ![r] = W!Idle]  BY <1>5 DEF W!Done
  <2> QED  BY <1>1, <2>1, IdleOrders, ReadsOn
<1>6. CASE W!Goto(r, more)
  <2>1. /\ DOMAIN n = DOMAIN q \cup DOMAIN more /\ \A x \in DOMAIN q : x \notin DOMAIN more => n[x] = q[x]
    BY <1>2 DEF W!With
  <2>2. "kind" \in DOMAIN q /\ OrderingOK(q)
    BY <1>2 DEF OInv, WInv, WritesOK, CarriesOK
  <2>3. n.kind = q.kind  BY <1>3, <2>1, <2>2
  <2>4. ASSUME q.kind = "weight"  PROVE OrderingOK(n)
    <3>1. "weights" \in DOMAIN n /\ n.weights = q.weights
      BY <1>3, <2>1, <2>2, <2>4 DEF OrderingOK
    <3>2. \A p \in DOMAIN q.weights : q.weights[p] \in Int
      BY <2>2, <2>4 DEF OrderingOK
    <3>3. n.kind # "reorder" /\ \A p \in DOMAIN n.weights : n.weights[p] \in Int
      BY <2>3, <2>4, <3>1, <3>2
    <3> QED  BY ONLY <3>1, <3>3 DEF OrderingOK
  <2>5. ASSUME q.kind = "reorder"  PROVE OrderingOK(n)
    <3>1. {"offset", "before", "after", "sequence", "weights"} \subseteq DOMAIN q /\ Dropped(q) /\ Weighed(q)
      BY <1>1, <1>2, <2>2, <2>5 DEF OrderingOK
    <3>2. /\ {"offset", "before", "after", "sequence", "weights"} \subseteq DOMAIN n
          /\ n.offset = q.offset /\ n.before = q.before /\ n.after = q.after /\ n.sequence = q.sequence /\ n.weights = q.weights
      BY <1>3, <2>1, <3>1
    <3>3. Dropped(n)  BY <3>1, <3>2 DEF Dropped
    <3>4. Weighed(n)  BY <3>1, <3>2 DEF Weighed
    <3>5. n.kind # "weight"  BY <2>3, <2>5
    <3> QED  BY ONLY <3>2, <3>3, <3>4, <3>5 DEF OrderingOK
  <2>6. OrderingOK(n)
    <3>1. q.kind = "weight" \/ q.kind = "reorder"  BY <1>1, <1>2
    <3> QED  BY <2>4, <2>5, <3>1
  <2>7. write' = [write EXCEPT ![r] = n]
    BY <1>2, <1>6 DEF W!Goto, OInv, WInv, WritesOK
  <2> QED  BY <1>1, <2>6, <2>7, ReadsOn
<1> QED  BY <1>4, <1>5, <1>6

LEMMA WeightsOrdered == ASSUME OInv, NEW r \in Requests, W!UpdateWeights(r)  PROVE Ordered
<1>1. write[r].kind \in {"weight", "reorder"} /\ write[r].pc = "commit" /\ W!Done(r)
  BY DEF W!UpdateWeights, W!Commit
<1>2. write' = [write EXCEPT ![r] = W!Idle]
  BY <1>1 DEF W!Done
<1>3. /\ \A d \in Requests : OrderingOK(write'[d])
      /\ \A d \in Requests \ {r} : ~ (write[d].kind = "reorder" /\ W!Commits(d))
  BY <1>2, IdleOrders, OthersRest
<1>4. CASE ~ W!SameSequence(write[r])
  <2>1. UNCHANGED W!rows  BY <1>4 DEF W!UpdateWeights, W!Commit
  <2>2. RowsTyped'  BY <2>1 DEF W!rows, OInv, RowsTyped
  <2>3. ReorderStep  BY <2>1 DEF ReorderStep
  <2> QED  BY <1>3, <2>2, <2>3 DEF Ordered
<1>5. CASE W!SameSequence(write[r])
  <2>1. pages' = [p \in DOMAIN pages |->
                    IF p \in DOMAIN write[r].weights THEN [pages[p] EXCEPT !.weight = write[r].weights[p]] ELSE pages[p]]
    BY <1>5 DEF W!UpdateWeights, W!Commit
  <2>2. \A p \in DOMAIN pages : "weight" \in DOMAIN pages[p] /\ "name" \in DOMAIN pages[p]
    BY DEF OInv, WInv, DraftsOK, Fields
  <2>3. PICK q : q = write[r]  OBVIOUS
  <2>4. OrderingOK(q)  BY <2>3 DEF OInv
  <2>5. CASE q.kind = "weight"
    <3>1. \A p \in DOMAIN q.weights : q.weights[p] \in Int
      BY <2>4, <2>5 DEF OrderingOK
    <3>2. RowsTyped'
      BY <2>1, <2>2, <2>3, <3>1 DEF OInv, RowsTyped
    <3>3. ReorderStep
      BY <1>3, <2>3, <2>5 DEF ReorderStep
    <3> QED  BY <1>3, <3>2, <3>3 DEF Ordered
  <2>6. CASE q.kind = "reorder"
    <3>1. Dropped(q) /\ Weighed(q)
      BY <1>1, <2>3, <2>4, <2>6 DEF OrderingOK
    <3>2. q.sequence = [p \in DOMAIN pages |-> W!Meta(p)]
      BY <1>5, <2>3, <2>6 DEF W!SameSequence
    <3>3. Listable(pages)
      BY PagesListable DEF OInv
    <3>4. pages' = [p \in DOMAIN pages |->
                      IF p \in DOMAIN q.weights THEN [pages[p] EXCEPT !.weight = q.weights[p]] ELSE pages[p]]
      BY <2>1, <2>3
    <3>5. /\ RowsTyped'
          /\ W!Slots(W!Order(pages), q.offset, Len(q.before)) = q.before
          /\ W!Order(pages') = W!Splice(W!Order(pages), q.offset, q.after)
          /\ \A a, b \in DOMAIN pages' : a # b => pages'[a].weight # pages'[b].weight
      BY <2>2, <3>1, <3>2, <3>3, <3>4, WeightsLand
    <3>6. ReorderStep
      BY <1>3, <2>3, <3>5 DEF ReorderStep
    <3> QED  BY <1>3, <3>5, <3>6 DEF Ordered
  <2> QED  BY <1>1, <2>3, <2>5, <2>6
<1> QED  BY <1>4, <1>5

LEMMA ActOrders == ASSUME OInv, NEW r \in Requests, W!Act(r)  PROVE Ordered
<1>1. CASE Reordering(r)
  BY <1>1, ReorderStarts, SequenceReads, WeightStarts, WeightsPrepare, WeightsOrdered DEF Reordering
<1>2. CASE Plain(r)
  <2>1. RowsTyped'
    <3>1. CASE W!SaveDraftContent(r) \/ W!CommitPluginPageUpdates(r) \/ W!Revert(r) \/ W!RemoveDraftHistory(r)
               \/ W!Replace(r) \/ W!ChangeTags(r)
      BY <3>1, EditsType
    <3>2. CASE W!Create(r)
      <4>1. \/ UNCHANGED W!rows
            \/ \E p : W!Created(p, edits + 1, write[r].slug)
        BY <3>2 DEF W!Create, W!Commit
      <4>2. UNCHANGED W!rows => RowsTyped'
        BY DEF W!rows, OInv, RowsTyped
      <4> QED  BY <4>1, <4>2, CreatedTypes
    <3>3. CASE UNCHANGED W!rows
      BY <3>3 DEF W!rows, OInv, RowsTyped
    <3>4. CASE Reordering(r)
      BY <3>4, <1>1 DEF Ordered
    <3>5. ASSUME \/ \E kind \in W!Forms \cup W!Slice \cup {"patch"} : W!Start(r, kind)
                 \/ W!ReadRows(r) \/ W!ReadPatch(r) \/ W!Prepare(r) \/ W!StartCreate(r) \/ W!PrepareCreate(r)
          PROVE  UNCHANGED W!rows
      BY <3>5 DEF W!Start, W!ReadRows, W!ReadPatch, W!Prepare, W!StartCreate, W!PrepareCreate
    <3> QED  BY <3>1, <3>2, <3>3, <3>4, <3>5 DEF W!Act, Reordering
  <2> QED  BY <1>2, <2>1, PlainOrders
<1>3. WInv  BY DEF OInv
<1> QED  BY <1>1, <1>2, <1>3, ActIsPlain

LEMMA PayingOrders == ASSUME OInv, NEW r \in Requests, W!Paying(r)  PROVE Ordered
<1>1. Plain(r)  BY PaysPlainly DEF OInv
<1>2. RowsTyped'
  <2>1. CASE W!CommitPluginPageCreates(r)  BY <2>1, InsertedTypes
  <2>2. CASE W!WriteNew(r)
    <3>1. \/ UNCHANGED W!rows
          \/ \E p : W!Created(p, edits + 1, write[r].slug)
      BY <2>2 DEF W!WriteNew
    <3>2. UNCHANGED W!rows => RowsTyped'
      BY DEF W!rows, OInv, RowsTyped
    <3> QED  BY <3>1, <3>2, CreatedTypes
  <2>3. ASSUME \/ W!StartNew(r) \/ W!CheckCreateLimits(r) \/ W!ReserveNew(r) \/ W!PrepareNew(r) \/ W!RefundNew(r)
               \/ W!StartApi(r) \/ W!Plan(r) \/ W!PreparePluginPageCreates(r) \/ W!ReservePageCreates(r)
               \/ W!Settle(r) \/ W!Submit(r) \/ W!Claim(r) \/ W!Disclose(r) \/ W!Answer(r)
        PROVE  UNCHANGED W!rows
    BY <2>3 DEF W!StartNew, W!CheckCreateLimits, W!ReserveNew, W!PrepareNew, W!RefundNew, W!StartApi, W!Plan,
           W!PreparePluginPageCreates, W!ReservePageCreates, W!Settle, W!Submit, W!Claim, W!Disclose, W!Answer, W!Apart
  <2>4. UNCHANGED W!rows => RowsTyped'
    BY DEF W!rows, OInv, RowsTyped
  <2> QED  BY <2>1, <2>2, <2>3, <2>4 DEF W!Paying
<1> QED  BY <1>1, <1>2, PlainOrders

LEMMA CreatesOrder == ASSUME OInv, W!CreatesNext  PROVE Ordered
<1>1. ASSUME NEW r \in Requests, W!Act(r)  PROVE Ordered  BY <1>1, ActOrders
<1>2. ASSUME NEW r \in Requests, W!Paying(r)  PROVE Ordered  BY <1>2, PayingOrders
<1>3. CASE W!Trash
  <2>1. PICK p : pages' = [x \in DOMAIN pages \ {p} |-> pages[x]]
    BY <1>3 DEF W!Trash
  <2>2. RowsTyped'  BY <2>1 DEF OInv, RowsTyped
  <2>3. UNCHANGED write  BY <1>3 DEF W!Trash
  <2> QED  BY <2>2, <2>3, RestOrders
<1>4. CASE W!Withdraw \/ W!Age \/ W!Alarm
  <2>1. UNCHANGED <<pages, write>>
    BY <1>4 DEF W!Withdraw, W!Age, W!Alarm, W!rows
  <2>2. RowsTyped'  BY <2>1 DEF OInv, RowsTyped
  <2> QED  BY <2>1, <2>2, RestOrders
<1> QED  BY <1>1, <1>2, <1>3, <1>4 DEF W!CreatesNext, W!Next

LEMMA OrderingStart == ASSUME PartsInit  PROVE OInv
<1>1. WInv  BY DraftsStart
<1>2. pages = [p \in kinds.pages |-> W!First(p, kinds.weight)] /\ write = [r \in Requests |-> W!Idle]
  BY DEF PartsInit, W!CreatesInit, W!Init
<1>3. kinds.weight \in Int /\ Names \subseteq Nat /\ Names # {}
  BY <1>1, FormsSendNumbers
<1>4. (CHOOSE n \in Names : TRUE) \in Nat
  BY <1>3
<1>5. \A p : W!First(p, kinds.weight).weight \in Int /\ W!First(p, kinds.weight).name \in Nat
  BY <1>3, <1>4 DEF W!First
<1>6. RowsTyped
  BY <1>2, <1>5 DEF RowsTyped
<1>7. \A r \in Requests : OrderingOK(write[r])
  BY <1>2, IdleOrders
<1> QED  BY <1>1, <1>6, <1>7 DEF OInv

LEMMA OrderingStep == ASSUME OInv, [PartsNext]_<<part, vars, writeVars, formVars>>  PROVE OInv' /\ (UNCHANGED writeVars \/ ReorderStep)
<1>1. WInv'  BY DraftsStep DEF OInv
<1>2. CASE W!CreatesNext
  <2>1. Ordered  BY <1>2, CreatesOrder
  <2>2. (\A r \in Requests : OrderingOK(write[r]))'
    BY <2>1 DEF Ordered, OrderingOK, Dropped, Weighed
  <2> QED  BY <1>1, <2>1, <2>2 DEF OInv, Ordered
<1>3. CASE UNCHANGED writeVars
  <2>1. UNCHANGED <<pages, write>>  BY <1>3 DEF writeVars
  <2>2. RowsTyped'  BY <2>1 DEF OInv, RowsTyped
  <2>3. Ordered  BY <2>1, <2>2, RestOrders
  <2>4. (\A r \in Requests : OrderingOK(write[r]))'
    BY <2>3 DEF Ordered, OrderingOK, Dropped, Weighed
  <2> QED  BY <1>1, <1>3, <2>2, <2>4 DEF OInv
<1> QED  BY <1>2, <1>3 DEF PartsNext

LEMMA OrderingInvariance == Parts => []OInv
BY OrderingStart, OrderingStep, PTL DEF Parts

(* A reorder that goes through lands as it was dropped, however many rows,    *)
(* windows and requests there are.                                            *)
THEOREM ReordersLand == Parts => ReorderLandsAsDropped
<1>1. OInv /\ [PartsNext]_<<part, vars, writeVars, formVars>> =>
        [\A r \in Requests : write[r].kind = "reorder" /\ W!Commits(r) /\ W!rows' # W!rows =>
            LET q == write[r] seq == W!Order(pages)
            IN  /\ W!Slots(seq, q.offset, Len(q.before)) = q.before
                /\ W!Order(pages') = W!Splice(seq, q.offset, q.after)
                /\ \A a, b \in DOMAIN pages' : a # b => pages'[a].weight # pages'[b].weight]_W!vars
  <2> SUFFICES ASSUME OInv, [PartsNext]_<<part, vars, writeVars, formVars>>, W!vars' # W!vars  PROVE ReorderStep
    BY DEF ReorderStep
  <2>1. ~ UNCHANGED writeVars
    BY DEF writeVars, W!vars, W!rows
  <2> QED  BY <2>1, OrderingStep
<1>2. Parts => W!ReorderLandsAsDropped
  BY <1>1, OrderingInvariance, PTL DEF Parts, W!ReorderLandsAsDropped
<1> QED  BY <1>2 DEF ReorderLandsAsDropped
=============================================================================
