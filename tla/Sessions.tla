------------------------------ MODULE Sessions ------------------------------
(***************************************************************************)
(* Sessions and the evidence of their end (core/auth/sessions.ts,          *)
(* session-evidence.ts, core/db/audit-mutation-outbox.ts).                 *)
(*                                                                         *)
(* A request reads, awaits, and then commits one batch of the database     *)
(* whose guards abort the whole of it; in between every other request may  *)
(* commit, and the answer to its commit may be lost.  Accounts adds the    *)
(* requests that change users, identities and roles, and the next-state    *)
(* relation of them all.                                                   *)
(***************************************************************************)
EXTENDS Naturals, FiniteSets

CONSTANTS Requests,     \* invocations that may overlap
          MaxRequests,  \* bound: requests served in all
          MaxSessions,  \* MAX_SESSIONS_PER_USER
          MaxAttempts,  \* AUDIT_OUTBOX_MAX_ATTEMPTS
          MaxFaults     \* bound: batches that fail or whose answer is lost

VARIABLES users,        \* users: id -> [roles, primary]; a deleted user is not in the domain
          identities,   \* user_oauth_identities: provider identity -> user
          managed,      \* roles: the rows of the table
          grants,       \* role_permissions: <<role, permission>>
          reused,       \* history: the names that custom roles were made under
          born,         \* accounts made, numbered
          plan,         \* the kinds of request this behaviour is made of (a bound)
          sessions,     \* sessions
          issued,       \* refresh tokens issued, numbered
          made,         \* sessions made, numbered
          outbox,       \* audit_mutation_outbox: [event, attempts]
          events,       \* audit_events, those of sessions
          heirs,        \* which refresh token was exchanged for which
          req,          \* what each request has read and where it is
          served, faults

accounts == <<users, identities, managed, grants, reused, born, plan>>
vars == <<users, identities, managed, grants, reused, born, plan, sessions, issued, made, outbox, events, heirs, req, served, faults>>

ASSUME SessionsAssumption == MaxRequests \in Nat /\ MaxSessions \in Nat /\ MaxAttempts \in Nat /\ MaxFaults \in Nat

Idle == [kind |-> "idle"]
NoToken == 0

-----------------------------------------------------------------------------
\* A request takes its turn; it is over when it is idle again.
Begin(r, record) ==
    /\ req[r] = Idle /\ served < MaxRequests /\ record.kind \in plan
    /\ served' = served + 1
    /\ req' = [req EXCEPT ![r] = record]
At(r, kind, pc) == req[r].kind = kind /\ req[r].pc = pc
Goto(r, pc) == req' = [req EXCEPT ![r].pc = pc]
Done(r) == req' = [req EXCEPT ![r] = Idle]
\* The batch did not commit, or its answer is lost: one fault.
Fault == faults < MaxFaults /\ faults' = faults + 1

\* sessionUserGuard: the account is as it was read.
Same(u, roles) == u \in DOMAIN users /\ users[u].roles = roles

-----------------------------------------------------------------------------
\* findRefreshSession: the current token, or the one before within the grace.
Presents(s, t) == s.status = "live" /\ (s.cur = t \/ (s.prev = t /\ s.grace))
StartRefresh(r) ==
    \E t \in 1..issued : \E s \in sessions :
        /\ Presents(s, t) /\ s.user \in DOMAIN users
        /\ Begin(r, [kind |-> "refresh", pc |-> IF s.cur = t THEN "rotate" ELSE "grace", token |-> t,
                     session |-> s, roles |-> users[s.user].roles, serial |-> served])
        /\ UNCHANGED <<accounts, sessions, issued, made, outbox, events, heirs, faults>>

\* sessionSnapshotCondition: what of a session is compared with what was read.
Snapshot(s) == <<s.id, s.user, s.cur, s.prev>>
\* mutant: the session is still there, whatever became of its token
MayRotateById(q) == Same(q.session.user, q.roles) /\ \E s \in sessions : s.id = q.session.id
\* The row is exactly the one that was read, and the token is still its current one.
MayRotate(q) == /\ Same(q.session.user, q.roles) /\ q.session.cur = q.token
                /\ \E s \in sessions : Snapshot(s) = Snapshot(q.session) /\ s.status = "live"
Rotated(s, new) == [s EXCEPT !.cur = new, !.prev = s.cur, !.grace = TRUE]
Rotate(r) ==
    LET q == req[r] new == issued + 1
        commit == /\ MayRotate(q)
                  /\ sessions' = (sessions \ {x \in sessions : x.id = q.session.id})
                                   \cup {Rotated(x, new) : x \in {y \in sessions : y.id = q.session.id}}
                  /\ issued' = new /\ heirs' = heirs \cup {<<q.token, new>>}
                  /\ events' = events \cup {<<"rotate", q.serial>>}
        refuse == UNCHANGED <<sessions, issued, heirs, events>>
    IN  /\ At(r, "refresh", "rotate")
        /\ \/ commit /\ Goto(r, "cap") /\ UNCHANGED faults
           \/ ~MayRotate(q) /\ refuse /\ Goto(r, "check") /\ UNCHANGED faults
           \/ Fault /\ (commit \/ refuse) /\ Goto(r, "check")
        /\ UNCHANGED <<accounts, made, outbox, served>>

\* After an error: grace only when this rotation did not commit and another one did.
Check(r) ==
    LET q == req[r]
        raced == \E s \in sessions : Presents(s, q.token) /\ s.cur # q.token /\ s.id = q.session.id
    IN  /\ At(r, "refresh", "check")
        /\ IF <<"rotate", q.serial>> \notin events /\ raced THEN Goto(r, "grace") ELSE Done(r)
        /\ UNCHANGED <<accounts, sessions, issued, made, outbox, events, heirs, served, faults>>

\* An access token for the loser of the race, and no refresh token.
Grace(r) ==
    LET q == req[r]
        allowed == /\ Same(q.session.user, q.roles)
                   /\ \E s \in sessions : s.id = q.session.id /\ s.status = "live" /\ s.prev = q.token /\ s.grace
    IN  /\ At(r, "refresh", "grace")
        /\ IF allowed THEN events' = events \cup {<<"grace", q.serial>>} /\ Goto(r, "cap")
                      ELSE UNCHANGED events /\ Done(r)
        /\ UNCHANGED <<accounts, sessions, issued, made, outbox, heirs, served, faults>>

-----------------------------------------------------------------------------
\* removeSessionSnapshots: all of the sessions and their envelopes, or nothing.
Ended(s) == <<"ended", s.id>>
Enqueue(chosen) == outbox' = outbox \cup {[event |-> Ended(s), attempts |-> 0] : s \in chosen}
Removes(chosen) == sessions' = {s \in sessions : \A c \in chosen : s.id # c.id} /\ Enqueue(chosen)
KnownRoles(chosen) == [s \in chosen |-> users[s.user].roles]

\* Logout: the sessions its two cookies lead to.
StartLogout(r) ==
    \E chosen \in SUBSET sessions :
        /\ chosen # {} /\ Cardinality(chosen) <= 2 /\ \A s \in chosen : s.user \in DOMAIN users
        /\ Begin(r, [kind |-> "logout", pc |-> "remove", chosen |-> chosen, roles |-> KnownRoles(chosen)])
        /\ UNCHANGED <<accounts, sessions, issued, made, outbox, events, heirs, faults>>
\* A rotation in between does not defeat it.
MayLogout(q) == \A s \in q.chosen : Same(s.user, q.roles[s]) /\ \E x \in sessions : x.id = s.id /\ x.user = s.user
DeliverOwn(own) == [kind |-> "drain", pc |-> "select", items |-> {}, own |-> own]
Logout(r) ==
    LET q == req[r]
    IN  /\ At(r, "logout", "remove")
        /\ \/ MayLogout(q) /\ Removes(q.chosen) /\ UNCHANGED faults
              /\ req' = [req EXCEPT ![r] = DeliverOwn({Ended(s) : s \in q.chosen})]
           \/ ~MayLogout(q) /\ Done(r) /\ UNCHANGED <<sessions, outbox, faults>>
           \/ Fault /\ MayLogout(q) /\ Done(r) /\ (Removes(q.chosen) \/ UNCHANGED <<sessions, outbox>>)
        /\ UNCHANGED <<accounts, issued, made, events, heirs, served>>

\* maintainSessionHygiene, after an answer or by cron: first the cap of one
\* account, then what is over; each commits only what it read unchanged.
Newer(s) == {x \in sessions : x.user = s.user /\ x.id > s.id}
Excess(u) == {s \in sessions : s.user = u /\ Cardinality(Newer(s)) >= MaxSessions}
Over == {s \in sessions : s.status # "live"}
Hygiene(r, u) ==
    LET cap == Excess(u)
    IN  req' = [req EXCEPT ![r] = [kind |-> "hygiene", pc |-> "cap", user |-> u, chosen |-> cap, roles |-> KnownRoles(cap)]]
AfterRefresh(r) ==
    /\ At(r, "refresh", "cap")
    /\ IF req[r].session.user \in DOMAIN users THEN Hygiene(r, req[r].session.user) ELSE Done(r)
    /\ UNCHANGED <<accounts, sessions, issued, made, outbox, events, heirs, served, faults>>
StartHygiene(r) ==
    /\ req[r] = Idle /\ served < MaxRequests /\ "hygiene" \in plan /\ served' = served + 1
    /\ \E u \in DOMAIN users : Hygiene(r, u)
    /\ UNCHANGED <<accounts, sessions, issued, made, outbox, events, heirs, faults>>
Unchanged(q, among) ==
    \A s \in q.chosen : Same(s.user, q.roles[s]) /\ \E x \in among : Snapshot(x) = Snapshot(s)
Cap(r) ==
    LET q == req[r]
        may == Unchanged(q, Excess(q.user))
    IN  /\ At(r, "hygiene", "cap")
        /\ IF may THEN Removes(q.chosen) ELSE UNCHANGED <<sessions, outbox>>
        /\ IF may THEN Goto(r, "read") ELSE Done(r)
        /\ UNCHANGED <<accounts, issued, made, events, heirs, served, faults>>
ReadOver(r) ==
    /\ At(r, "hygiene", "read")
    /\ req' = [req EXCEPT ![r].pc = "expire", ![r].chosen = Over, ![r].roles = KnownRoles(Over)]
    /\ UNCHANGED <<accounts, sessions, issued, made, outbox, events, heirs, served, faults>>
Expire(r) ==
    /\ At(r, "hygiene", "expire")
    /\ IF Unchanged(req[r], Over) THEN Removes(req[r].chosen) ELSE UNCHANGED <<sessions, outbox>>
    /\ Done(r)
    /\ UNCHANGED <<accounts, issued, made, events, heirs, served, faults>>

-----------------------------------------------------------------------------
\* drainAuditMutationOutbox: the pending envelopes whose attempts are not used up.
\* mutant: an envelope that failed is not taken again
PendingOnce == {x \in outbox : x.attempts = 0}
Pending == {x \in outbox : x.attempts < MaxAttempts}
StartDrain(r) ==
    /\ Pending # {} /\ req[r] = Idle
    /\ req' = [req EXCEPT ![r] = [kind |-> "drain", pc |-> "deliver", items |-> Pending, own |-> {}]]
    /\ UNCHANGED <<accounts, sessions, issued, made, outbox, events, heirs, served, faults>>
\* A revocation attempts only its own envelopes.
SelectOwn(r) ==
    /\ At(r, "drain", "select")
    /\ req' = [req EXCEPT ![r].pc = "deliver", ![r].items = {x \in Pending : x.event \in req[r].own}, ![r].own = {}]
    /\ UNCHANGED <<accounts, sessions, issued, made, outbox, events, heirs, served, faults>>
\* The event, exactly once, and the end of its envelope, in one batch.
Delivered(item) == events' = events \cup {item.event} /\ outbox' = {x \in outbox : x.event # item.event}
Counted(item) == outbox' = {IF x = item THEN [x EXCEPT !.attempts = @ + 1] ELSE x : x \in outbox}
DeliverOne(r) ==
    /\ At(r, "drain", "deliver")
    /\ \E item \in req[r].items :
        LET rest == [req[r] EXCEPT !.items = @ \ {item}]
        IN  \/ /\ Delivered(item) /\ UNCHANGED faults
               /\ req' = [req EXCEPT ![r] = rest]
            \/ /\ Fault /\ (Delivered(item) \/ UNCHANGED <<events, outbox>>)
               /\ req' = [req EXCEPT ![r] = [rest EXCEPT !.pc = "count", !.own = {item}]]
    /\ UNCHANGED <<accounts, sessions, issued, made, heirs, served>>
CountFailure(r) ==
    /\ At(r, "drain", "count")
    /\ \E failed \in req[r].own : Counted(failed)
    /\ req' = [req EXCEPT ![r].pc = "deliver", ![r].own = {}]
    /\ UNCHANGED <<accounts, sessions, issued, made, events, heirs, served, faults>>
EndDrain(r) ==
    /\ At(r, "drain", "deliver") /\ req[r].items = {}
    /\ Done(r)
    /\ UNCHANGED <<accounts, sessions, issued, made, outbox, events, heirs, served, faults>>

-----------------------------------------------------------------------------
\* Time: a session goes idle or expires, and the grace of a replaced token ends.
Ages(s, t) == /\ s \in sessions /\ sessions' = (sessions \ {s}) \cup {t}
              /\ UNCHANGED <<accounts, issued, made, outbox, events, heirs, req, served, faults>>
GoesIdle == \E s \in sessions : s.status = "live" /\ Ages(s, [s EXCEPT !.status = "idle"])
RunsOut == \E s \in sessions : s.status # "expired" /\ Ages(s, [s EXCEPT !.status = "expired"])
GraceEnds == \E s \in sessions : s.grace /\ Ages(s, [s EXCEPT !.grace = FALSE])
Time == "time" \in plan /\ (GoesIdle \/ RunsOut \/ GraceEnds)

SessionStart(r) == StartRefresh(r) \/ StartLogout(r) \/ StartHygiene(r)
SessionStep(r) == \/ Rotate(r) \/ Check(r) \/ Grace(r) \/ Logout(r) \/ AfterRefresh(r) \/ Cap(r) \/ ReadOver(r)
                  \/ Expire(r) \/ SelectOwn(r) \/ DeliverOne(r) \/ CountFailure(r) \/ EndDrain(r)

-----------------------------------------------------------------------------
\* A refresh token is exchanged at most once, however many requests present it
\* and whatever answers are lost; at most one session can be continued with it.
OneHeir ==
    /\ \A x, y \in heirs : x[1] = y[1] => x = y
    /\ \A s, x \in sessions : s.cur \in {x.cur, x.prev} => s.id = x.id

\* Every session that ended has its one receipt: an envelope not delivered yet,
\* or the event it became, never both, never none, and none for a session that lives.
Living == {s.id : s \in sessions}
Receipts(id) == Cardinality({x \in outbox : x.event = <<"ended", id>>})
                  + Cardinality({e \in events : e = <<"ended", id>>})
EndsAreEvidenced == \A id \in 1..made : Receipts(id) = IF id \in Living THEN 0 ELSE 1
=============================================================================
