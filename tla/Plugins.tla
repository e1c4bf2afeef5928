------------------------------ MODULE Plugins ------------------------------
(***************************************************************************)
(* The plugins a CMS has registered, the identity each is pinned to, what  *)
(* an administrator approved for it, and the data the CMS keeps for it     *)
(* (features/plugins: registration-evidence.ts, approval-evidence.ts,      *)
(* automatic-identity-evidence.ts, registry.ts, enroll.ts and the calls of *)
(* api/ with their *-evidence.ts).                                         *)
(*                                                                         *)
(* A registration is a row with a URL and a secret.  The worker at the URL *)
(* says in its manifest which identity it has, and grants, state and       *)
(* sequences are kept by identity: a row owns them only through its pin.   *)
(* A request reads, awaits, and commits one batch whose guards compare     *)
(* what was read with what is there, and abort the whole of it.            *)
(***************************************************************************)
EXTENDS Naturals, Sequences, TLC

CONSTANTS Requests,     \* invocations that may overlap
          Urls, Ids,    \* where workers are, and the identities they may serve
          Types,        \* page types a manifest declares (write access)
          Prefixes,     \* file prefixes a manifest declares
          Overlap,      \* filePrefixesOverlap: pairs of prefixes, one within the other
          None,
          MaxRows,      \* bound: rows ever registered
          MaxRequests,  \* bound: requests begun
          Starts        \* what is registered at first, and the kinds of request made together (a bound)

ASSUME PluginsAssumption ==
    /\ None \notin Ids \cup Urls /\ MaxRows \in Nat
    /\ Types \cap Prefixes = {} /\ Overlap \subseteq Prefixes \X Prefixes
    /\ \A p, q \in Prefixes : <<p, q>> \in Overlap => <<q, p>> \in Overlap
ASSUME StartsAssumption ==
    \A s \in Starts : /\ s.made \in 0..MaxRows /\ s.served \in [Urls -> Ids]
                      /\ \A i \in 1..s.made : s.urls[i] \in Urls /\ s.pins[i] \in Ids \cup {None}
                      /\ \A i, j \in 1..s.made : s.pins[i] = s.pins[j] /\ s.pins[i] # None => i = j
                      /\ s.granted \subseteq {i \in 1..s.made : s.pins[i] # None}

VARIABLES plugins,    \* plugins: row -> url, enabled, secret
          pins,       \* plugin_identity_approvals: row -> identity
          approvals,  \* page types and file prefixes approved: identity, scope, and the row it was done for
          state,      \* plugin_state: identity -> the row that wrote it
          sequences,  \* plugin_sequences: identity -> last number
          pending,    \* settings plugin.enrollment.<identity>: the ticket stored
          tickets,    \* tickets issued, with where each was sent
          redeemed,   \* ticket -> how often the secret was handed over for it
          log,        \* the calls of plugins that committed
          served,     \* what the worker at a URL says it is
          cached,     \* the manifest an isolate has kept of it
          made, secrets,   \* rows and secrets made, numbered
          req, started, plan

registry == <<plugins, made, secrets>>
access == <<pins, approvals>>
data == <<state, sequences, log>>
enrolment == <<pending, tickets, redeemed>>
world == <<served, cached>>
vars == <<registry, access, data, enrolment, world, req, started, plan>>

Rows == 1..MaxRows
Absent == [url |-> None, on |-> FALSE, secret |-> 0]
Registered(rows) == {i \in Rows : rows[i].url # None}
Scopes == Types \cup Prefixes

\* What a request has read, and where it is.
Idle == [kind |-> "idle", pc |-> "over", row |-> 0, id |-> None, ticket |-> 0, seen |-> Absent, granted |-> {},
         plugins |-> [i \in Rows |-> Absent], pins |-> [i \in Rows |-> None],
         approvals |-> {}, state |-> [i \in Ids |-> 0], sequences |-> [i \in Ids |-> 0]]
Take(kind) == started < MaxRequests /\ started' = started + 1 /\ kind \in plan
Begin(r, record) == req[r] = Idle /\ Take(record.kind) /\ req' = [req EXCEPT ![r] = record]
At(r, kind, pc) == req[r].kind = kind /\ req[r].pc = pc
Goto(r, pc) == req' = [req EXCEPT ![r].pc = pc]
Done(r) == req' = [req EXCEPT ![r] = Idle]

-----------------------------------------------------------------------------
\* capturePluginMutationContext: the whole registry and all pins are read, and
\* every batch of an administrator compares them again.
Saves == {"create", "update", "toggle", "rotate"}
Grants == {"identity", "approve", "revoke"}
Capture(r) ==
    \E kind \in Saves \cup Grants \cup {"remove"}, row \in Rows :
        /\ kind # "create" => row \in Registered(plugins)
        /\ kind = "create" => row = made + 1
        /\ Begin(r, [Idle EXCEPT !.kind = kind, !.pc = IF kind \in Saves THEN "commit" ELSE "read", !.row = row,
                                  !.plugins = plugins, !.pins = pins])
        /\ UNCHANGED <<registry, access, data, enrolment, world, plan>>
Admission(q) == plugins = q.plugins /\ pins = q.pins

\* save
New(q) == secrets + 1
Saved(q, row) == plugins' = [plugins EXCEPT ![q.row] = row]
Free(q, url) == \A i \in Rows : q.plugins[i].url # url \/ i = q.row
Create(q) == \E url \in Urls : /\ q.kind = "create" /\ Free(q, url) /\ q.row = made + 1
                               /\ Saved(q, [url |-> url, on |-> TRUE, secret |-> New(q)])
                               /\ made' = made + 1 /\ secrets' = New(q)
Update(q) == \E url \in Urls : /\ q.kind = "update" /\ Free(q, url)
                               /\ Saved(q, [plugins[q.row] EXCEPT !.url = url]) /\ UNCHANGED <<made, secrets>>
Toggle(q) == /\ q.kind = "toggle" /\ Saved(q, [plugins[q.row] EXCEPT !.on = ~ @]) /\ UNCHANGED <<made, secrets>>
Rotate(q) == /\ q.kind = "rotate" /\ Saved(q, [plugins[q.row] EXCEPT !.secret = New(q)])
             /\ secrets' = New(q) /\ UNCHANGED made
\* The batch commits, or nothing of it: a guard aborted it, or the database failed.
\* After a rotation the secret is offered to the worker at once.
Save(r) ==
    LET q == req[r]
    IN  /\ q.kind \in Saves /\ q.pc = "commit"
        /\ \/ /\ Admission(q) /\ (Create(q) \/ Update(q) \/ Toggle(q) \/ Rotate(q))
              /\ IF q.kind = "rotate" /\ "connect" \in plan
                 THEN req' = [req EXCEPT ![r] = [Idle EXCEPT !.kind = "connect", !.pc = "resolve", !.row = q.row]]
                 ELSE Done(r)
           \/ UNCHANGED registry /\ Done(r)
        /\ UNCHANGED <<access, data, enrolment, world, started, plan>>

\* remove: everything owned by the identity of the row's pin goes with the row,
\* except its sequences.
ReadTables(r, id) == req' = [req EXCEPT ![r].pc = "commit", ![r].id = id, ![r].approvals = approvals,
                                        ![r].state = state, ![r].sequences = sequences]
ReadOwned(r) ==
    /\ At(r, "remove", "read") /\ ReadTables(r, req[r].pins[req[r].row])
    /\ UNCHANGED <<registry, access, data, enrolment, world, started, plan>>
Of(id, rows) == {g \in rows : g.id = id}
SameOwned(q) == Of(q.id, approvals) = Of(q.id, q.approvals) /\ (q.id \in Ids => state[q.id] = q.state[q.id])
Without(id) == {g \in approvals : g.id # id}
Remove(r) ==
    LET q == req[r]
    IN  /\ At(r, "remove", "commit") /\ Done(r)
        /\ \/ /\ Admission(q) /\ SameOwned(q)
              /\ plugins' = [plugins EXCEPT ![q.row] = Absent] /\ pins' = [pins EXCEPT ![q.row] = None]
              /\ approvals' = Without(q.id) /\ state' = [i \in Ids |-> IF i = q.id THEN 0 ELSE state[i]]
           \/ UNCHANGED <<plugins, access, state>>
        /\ UNCHANGED <<made, secrets, sequences, log, enrolment, world, started, plan>>

-----------------------------------------------------------------------------
\* mutatePluginApproval: the worker is asked for its manifest, then what the
\* batch will change is read.
Inspect(r) ==
    LET q == req[r] url == q.plugins[q.row].url was == q.pins[q.row] id == served[url]
        may == /\ q.plugins[q.row].on
               /\ IF q.kind = "identity" THEN was # id /\ \A i \in Rows : q.pins[i] # id ELSE was = id
    IN  /\ q.kind \in Grants /\ q.pc = "read"
        /\ IF may THEN ReadTables(r, id) ELSE Done(r)
        /\ UNCHANGED <<registry, access, data, enrolment, world, started, plan>>

\* Entries go from the old identity to the new one and replace its own.
Moved(f, read, was, id) == [i \in Ids |-> IF i = id /\ was \in Ids /\ read[was] # 0 THEN read[was]
                                          ELSE IF i = was THEN 0 ELSE f[i]]
\* mutant: the counters are not compared with what was read
SameState(q, was) == approvals = q.approvals /\ \A i \in {was, q.id} \cap Ids : state[i] = q.state[i]
SamePlans(q, was) == approvals = q.approvals /\ \A i \in {was, q.id} \cap Ids : state[i] = q.state[i] /\ sequences[i] = q.sequences[i]
ApproveIdentity(r) ==
    LET q == req[r] was == q.pins[q.row]
    IN  /\ At(r, "identity", "commit") /\ Done(r)
        /\ \/ /\ Admission(q) /\ SamePlans(q, was)
              /\ \A i \in Rows \ {q.row} : pins[i] # q.id  \* UNIQUE (manifest_id)
              /\ approvals' = {g \in approvals : g.id \notin {was, q.id}}
              /\ state' = Moved(state, q.state, was, q.id) /\ sequences' = Moved(sequences, q.sequences, was, q.id)
              /\ pins' = [pins EXCEPT ![q.row] = q.id]
           \/ UNCHANGED <<access, state, sequences>>
        /\ UNCHANGED <<registry, log, enrolment, world, started, plan>>

Conflict(q, scope) == \E g \in q.approvals : g.id # q.id /\ <<g.scope, scope>> \in Overlap
\* mutant: only the plugin's own approvals are compared with what was read
SameOwn(q) == Of(q.id, approvals) = Of(q.id, q.approvals)
SameApprovals(q) == approvals = q.approvals
Approve(r) ==
    LET q == req[r]
    IN  /\ At(r, "approve", "commit") /\ Done(r)
        /\ \/ \E scope \in Scopes :
                 /\ ~ Conflict(q, scope) /\ Admission(q) /\ SameApprovals(q)
                 /\ approvals' = approvals \cup {[id |-> q.id, scope |-> scope, row |-> q.row]}
           \/ UNCHANGED approvals
        /\ UNCHANGED <<registry, pins, data, enrolment, world, started, plan>>
Revoke(r) ==
    LET q == req[r]
    IN  /\ At(r, "revoke", "commit") /\ Done(r)
        /\ \/ /\ Admission(q) /\ SameApprovals(q)
              /\ \E scope \in Scopes : approvals' = {g \in approvals : g.id # q.id \/ g.scope # scope}
           \/ UNCHANGED approvals
        /\ UNCHANGED <<registry, pins, data, enrolment, world, started, plan>>

-----------------------------------------------------------------------------
\* getPlugins: the enabled rows, the manifest of each (kept for a minute), and
\* its pin; a row without one claims the identity it serves.
Pinned(id) == \E i \in Rows : pins[i] = id
Manifest(url) == {served[url], cached[url]}
Resolvable(row, id) == /\ plugins[row].on /\ id \in Manifest(plugins[row].url)
                       /\ pins[row] = id \/ (pins[row] = None /\ ~ Pinned(id))
Calls == {"state", "number", "write"}
Resolving == Calls \cup {"connect", "redeem"}
Resolution(kind, row, id, t) ==
    [Idle EXCEPT !.kind = kind, !.pc = IF pins[row] = id THEN "current" ELSE "claim",
                 !.row = row, !.id = id, !.seen = plugins[row], !.ticket = t]
Resolve(r) ==
    /\ \E row \in Rows, id \in Ids :
          /\ Resolvable(row, id) /\ cached' = [cached EXCEPT ![plugins[row].url] = id]
          /\ \/ \E kind \in Calls \cup {"connect"} : Begin(r, Resolution(kind, row, id, 0))
             \* the worker a ticket was sent to asks for the secret
             \/ \E t \in DOMAIN tickets : tickets[t].id = id /\ Begin(r, Resolution("redeem", row, id, t))
             \* after a rotation, if the worker can be reached
             \/ /\ At(r, "connect", "resolve") /\ row = req[r].row
                /\ req' = [req EXCEPT ![r] = Resolution("connect", row, id, 0)] /\ UNCHANGED started
    /\ UNCHANGED <<registry, access, data, enrolment, served, plan>>

Unresolved(r) == /\ At(r, "connect", "resolve") /\ Done(r)
                 /\ UNCHANGED <<registry, access, data, enrolment, world, started, plan>>

\* claimAutomaticPluginIdentity
ClaimIdentity(r) ==
    LET q == req[r]
    IN  /\ q.kind \in Resolving /\ q.pc = "claim"
        /\ \/ /\ plugins[q.row] = q.seen /\ pins[q.row] = None /\ ~ Pinned(q.id)
              /\ pins' = [pins EXCEPT ![q.row] = q.id] /\ Goto(r, "current")
           \/ plugins[q.row] = q.seen /\ pins[q.row] = q.id /\ Goto(r, "current") /\ UNCHANGED pins
           \/ Done(r) /\ UNCHANGED pins
        /\ UNCHANGED <<registry, approvals, data, enrolment, world, started, plan>>

\* The row is read once more.  A call is authenticated by the secret of that
\* row, and its authority captured at once, before its body arrives.
GrantsOf(id) == {g \in approvals : g.id = id /\ g.scope \in Types}
After(kind) == CASE kind = "connect" -> "mint" [] kind = "redeem" -> "ticket" [] OTHER -> "commit"
Authenticate(r) ==
    LET q == req[r] now == plugins[q.row]
    IN  /\ q.kind \in Resolving /\ q.pc = "current"
        /\ IF /\ now.on /\ now.url = q.seen.url
              /\ q.kind \in Calls => pins[q.row] = q.id
           THEN req' = [req EXCEPT ![r].pc = After(q.kind), ![r].seen = now,
                                   ![r].granted = IF q.kind = "write" THEN GrantsOf(q.id) ELSE {}]
           ELSE Done(r)
        /\ UNCHANGED <<registry, access, data, enrolment, world, started, plan>>

\* mutant: the registration and the pin, not what was approved
SameRegistration(q) == plugins[q.row] = q.seen /\ pins[q.row] = q.id
\* check: the registration, the pin and the approvals are what was captured
Check(q) == plugins[q.row] = q.seen /\ pins[q.row] = q.id /\ (q.kind = "write" => GrantsOf(q.id) = q.granted)
Entry(q, scope, n) == [kind |-> q.kind, row |-> q.row, id |-> q.id, scope |-> scope, n |-> n, secret |-> q.seen.secret]
Logged(q, scope, n) == log' = Append(log, Entry(q, scope, n))
MutateState(q) == \E new \in {0, q.row} : state' = [state EXCEPT ![q.id] = new] /\ Logged(q, None, 0) /\ UNCHANGED sequences
\* The number is made in the batch, whoever else advances the counter.
AdvanceSequence(q) == LET n == sequences[q.id] + 1
                      IN  sequences' = [sequences EXCEPT ![q.id] = n] /\ Logged(q, None, n) /\ UNCHANGED state
WritePage(q) == \E g \in q.granted : Logged(q, g.scope, 0) /\ UNCHANGED <<state, sequences>>
Call(r) ==
    LET q == req[r]
    IN  /\ q.kind \in Calls /\ q.pc = "commit" /\ Done(r)
        /\ \/ Check(q) /\ \/ q.kind = "state" /\ MutateState(q)
                          \/ q.kind = "number" /\ AdvanceSequence(q)
                          \/ q.kind = "write" /\ WritePage(q)
           \/ UNCHANGED data
        /\ UNCHANGED <<registry, access, enrolment, world, started, plan>>

-----------------------------------------------------------------------------
\* enrollPluginTenant: the ticket is stored (over one that is there), sent to
\* the worker, and cleared when the worker has answered.
Mint(r) ==
    LET q == req[r] t == Len(tickets) + 1
    IN  /\ At(r, "connect", "mint") /\ req' = [req EXCEPT ![r].pc = "posted", ![r].ticket = t]
        /\ tickets' = Append(tickets, [id |-> q.id, url |-> q.seen.url]) /\ redeemed' = Append(redeemed, 0)
        /\ pending' = [pending EXCEPT ![q.id] = t]
        /\ UNCHANGED <<registry, access, data, world, started, plan>>
\* clearPendingEnrollment, then and for a ticket that was read as expired: it
\* clears whatever is stored by now.
ClearPending(r) ==
    /\ At(r, "connect", "posted") \/ At(r, "redeem", "expired")
    /\ Done(r)
    /\ pending' = [pending EXCEPT ![req[r].id] = 0] \/ UNCHANGED pending
    /\ UNCHANGED <<registry, access, data, tickets, redeemed, world, started, plan>>
\* claimEnrollmentTicket: read, then deleted if it is still what was read.
Open(t) == \E r \in Requests : At(r, "connect", "posted") /\ req[r].ticket = t
ReadTicket(r) ==
    LET q == req[r]
    IN  /\ At(r, "redeem", "ticket")
        /\ \/ pending[q.id] = q.ticket /\ Goto(r, "take")
           \/ pending[q.id] # q.ticket /\ Done(r)
           \/ pending[q.id] # 0 /\ ~ Open(pending[q.id]) /\ Goto(r, "expired")
        /\ UNCHANGED <<registry, access, data, enrolment, world, started, plan>>
Stored(q) == pending[q.id] = q.ticket
TakeTicket(r) ==
    LET q == req[r]
    IN  /\ At(r, "redeem", "take") /\ Done(r)
        /\ \/ /\ Stored(q) /\ pending' = [pending EXCEPT ![q.id] = 0]
              /\ redeemed' = IF tickets[q.ticket].url = q.seen.url THEN [redeemed EXCEPT ![q.ticket] = @ + 1] ELSE redeemed
           \/ UNCHANGED <<pending, redeemed>>
        /\ UNCHANGED <<registry, access, data, tickets, world, started, plan>>

-----------------------------------------------------------------------------
\* A worker is deployed with another identity.
Deploy == /\ Take("deploy") /\ \E url \in Urls, id \in Ids : served' = [served EXCEPT ![url] = id]
          /\ UNCHANGED <<registry, access, data, enrolment, cached, req, plan>>

StartFrom(s) ==
    /\ plan = s.plan /\ served = s.served /\ cached = s.served
    /\ made = s.made /\ secrets = s.made
    /\ plugins = [i \in Rows |-> IF i <= s.made THEN [url |-> s.urls[i], on |-> TRUE, secret |-> i] ELSE Absent]
    /\ pins = [i \in Rows |-> IF i <= s.made THEN s.pins[i] ELSE None]
    /\ approvals = {[id |-> s.pins[i], scope |-> scope, row |-> i] : i \in s.granted, scope \in Types}
    /\ state = [id \in Ids |-> 0] /\ log = <<>>
    /\ sequences = [id \in Ids |-> 0]
    /\ pending = [id \in Ids |-> 0] /\ tickets = <<>> /\ redeemed = <<>>
    /\ req = [r \in Requests |-> Idle] /\ started = 0
Init == \E s \in Starts : StartFrom(s)
Next == \/ Deploy
        \/ \E r \in Requests :
              \/ Capture(r) \/ Save(r) \/ ReadOwned(r) \/ Remove(r)
              \/ Inspect(r) \/ ApproveIdentity(r) \/ Approve(r) \/ Revoke(r)
              \/ Resolve(r) \/ Unresolved(r) \/ ClaimIdentity(r) \/ Authenticate(r) \/ Call(r)
              \/ Mint(r) \/ ClearPending(r) \/ ReadTicket(r) \/ TakeTicket(r)
Spec == Init /\ [][Next]_vars
-----------------------------------------------------------------------------
\* Whatever administrators do at once, and whatever a worker calls itself: a
\* pin belongs to a registered plugin and no identity to two of them, and every
\* grant and every entry kept under an identity is of the plugin that holds it:
\* nothing is inherited from one that was removed or renamed.
PinsHold == /\ \A i \in Rows : pins[i] # None => i \in Registered(plugins)
            /\ \A i, j \in Rows : pins[i] = pins[j] /\ pins[i] # None => i = j
GrantsAreTheirOwn == \A g \in approvals : g.row \in Rows /\ pins[g.row] = g.id
StateIsTheirOwn == \A id \in Ids : state[id] # 0 => state[id] \in Rows /\ pins[state[id]] = id
OwnedByThePinned == PinsHold /\ GrantsAreTheirOwn /\ StateIsTheirOwn

\* "Prefix-overlap races refuse": no two plugins are approved for file prefixes
\* one of which lies within the other (docs/compliance-p0-progress, approvals).
PrefixesApart == \A g, h \in approvals : g.id # h.id => <<g.scope, h.scope>> \notin Overlap

\* A plugin never gets the same number, or an earlier one, again: not when its
\* counter moves with its identity, nor when calls and approvals overlap.
NumbersNeverRepeat ==
    \A i, j \in DOMAIN log : i < j /\ log[i].kind = "number" /\ log[j].kind = "number" /\ log[i].row = log[j].row
                             => log[i].n < log[j].n

\* What a call changes, it changes as a plugin registered and enabled at that
\* moment, with the secret of that moment and under its own identity; and a
\* page of a type that is, at that moment, approved for it.
Authorised(e) == /\ plugins[e.row].on /\ plugins[e.row].secret = e.secret /\ pins[e.row] = e.id
                 /\ e.kind = "write" => [id |-> e.id, scope |-> e.scope, row |-> e.row] \in approvals
CallsAreAuthorised == [][Len(log') > Len(log) => Authorised(log'[Len(log')])]_vars

\* "Only that claim response carries the secret, and only once" (enroll.ts).
SecretGoesOnce == \A t \in DOMAIN redeemed : redeemed[t] <= 1

\* Both of what plugins own and of what is issued to them.
GrantsAreExclusive == OwnedByThePinned /\ PrefixesApart
IssuedOnce == NumbersNeverRepeat /\ SecretGoesOnce
=============================================================================
