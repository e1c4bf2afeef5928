------------------------------ MODULE Accounts ------------------------------
(***************************************************************************)
(* Users, their identities and their roles, on top of their sessions       *)
(* (features/users-roles/routes, core/auth/role-store.ts,                  *)
(* access-authorization.ts, routes/auth.ts and the identity stores).       *)
(*                                                                         *)
(* An administrative request captures its authority in one read, decides,  *)
(* and commits a batch that begins with a guard: the actor, its session    *)
(* and every role and grant are still what was captured.                   *)
(***************************************************************************)
EXTENDS Sessions

CONSTANTS Customs,      \* names for custom roles
          Permissions,  \* among them "users" (users:manage) and "roles" (roles:manage)
          Providers,    \* identities at the providers
          MaxUsers,     \* bound: accounts made
          Starts        \* the accounts to start from, and the kinds of request made together (a bound)

Builtins == {"admin", "editor"}
RoleNames == Builtins \cup Customs
ASSUME AccountsAssumption ==
    /\ Customs \cap Builtins = {} /\ MaxUsers \in Nat
    /\ \E i, j \in Providers : i # j
    /\ \A s \in Starts : /\ s.roles \subseteq RoleNames /\ s.own \subseteq Providers
                        /\ s.grants \subseteq Permissions /\ s.served \in Nat
Defaults(role) == IF role = "editor" THEN {"write"} ELSE {}

-----------------------------------------------------------------------------
\* buildRolePermissions and effectivePermissions: a managed role has its rows,
\* another built-in its defaults as well, admin everything.
RolePermissions(role, m, g) ==
    IF role = "admin" THEN Permissions
    ELSE {p \in Permissions : <<role, p>> \in g} \cup (IF role \in m THEN {} ELSE Defaults(role))
Effective(roles, m, g) == UNION {RolePermissions(role, m, g) : role \in roles}
Holds(u) == IF u \in DOMAIN users THEN Effective(users[u].roles, managed, grants) ELSE {}

\* canManageRoleValue: within what the captured authority itself holds.
Within(q, roles) == "admin" \in q.roles
    \/ ("admin" \notin roles /\ Effective(roles, q.managed, q.grants) \subseteq Effective(q.roles, q.managed, q.grants))
\* captureAuthorization; what is to be done with it is decided later
Undecided == [user |-> 0]
Authority(kind, actor, sid) ==
    [kind |-> kind, pc |-> "read", actor |-> actor, sid |-> sid, roles |-> users[actor].roles,
     managed |-> managed, grants |-> grants, change |-> Undecided]
\* mutant: the actor only, not the roles and grants its authority came from
GuardActor(q) == Same(q.actor, q.roles) /\ \E s \in sessions : s.id = q.sid /\ s.user = q.actor /\ s.status # "expired"
\* the guard at the head of every batch
Guard(q) == /\ Same(q.actor, q.roles) /\ q.managed = managed /\ q.grants = grants
            /\ \E s \in sessions : s.id = q.sid /\ s.user = q.actor /\ s.status # "expired"

Changes == {"roles of user", "delete user", "grants", "new role", "delete role"}
Capability(kind) == IF kind \in {"roles of user", "delete user"} THEN "users" ELSE "roles"
StartChange(r, kind) ==
    \E s \in sessions :
        /\ s.status = "live" /\ s.user \in DOMAIN users /\ Capability(kind) \in Holds(s.user)
        /\ Begin(r, Authority(kind, s.user, s.id))
        /\ UNCHANGED <<accounts, sessions, issued, made, outbox, events, heirs, faults>>

Admins == {u \in DOMAIN users : "admin" \in users[u].roles}
OtherAdmin(u) == Admins \ {u} # {}
\* Bound: a form adds or removes one role, one permission.
Toggled(set, x) == IF x \in set THEN set \ {x} ELSE set \cup {x}
Options == Builtins \cup (managed \cap Customs)

\* What was read and decided; a refusal ends the request.
Decide(r, kind, change) ==
    /\ At(r, kind, "read")
    /\ req' = [req EXCEPT ![r].pc = "commit", ![r].change = change]
    /\ UNCHANGED <<accounts, sessions, issued, made, outbox, events, heirs, served, faults>>
Refuse(r) ==
    /\ req[r].kind \in Changes /\ req[r].pc = "read" /\ Done(r)
    /\ UNCHANGED <<accounts, sessions, issued, made, outbox, events, heirs, served, faults>>
\* Commits or aborts as a whole; the request is over either way.
Commit(r, kind, may, effect) ==
    /\ At(r, kind, "commit")
    /\ IF may THEN effect ELSE UNCHANGED <<accounts, sessions, events>>
    /\ Done(r)
    /\ UNCHANGED <<issued, made, outbox, heirs, served, faults, born, plan>>

-----------------------------------------------------------------------------
\* POST /users/:id
LosesAdmin(was, next) == "admin" \in was /\ "admin" \notin next
ReadRoles(r) ==
    \E u \in DOMAIN users : \E role \in Options :
        LET next == Toggled(users[u].roles, role) IN
        /\ Within(req[r], users[u].roles) /\ Within(req[r], next)
        /\ LosesAdmin(users[u].roles, next) => OtherAdmin(u)
        /\ Decide(r, "roles of user", [user |-> u, was |-> users[u].roles, next |-> next])
\* mutant: the last administrator is looked for before the batch only
MayChangeRolesRead(q) == Guard(q) /\ Same(q.change.user, q.change.was)
MayChangeRoles(q) == /\ Guard(q) /\ Same(q.change.user, q.change.was)
                     /\ LosesAdmin(q.change.was, q.change.next) => OtherAdmin(q.change.user)
ChangeRoles(r) ==
    LET q == req[r]
    IN  Commit(r, "roles of user", MayChangeRoles(q),
            users' = [users EXCEPT ![q.change.user].roles = q.change.next]
              /\ UNCHANGED <<identities, managed, grants, reused, sessions, events>>)

\* POST /users/:id/delete: with its sessions and identities
SessionsOf(u) == {s.id : s \in {x \in sessions : x.user = u}}
ReadDeletion(r) ==
    \E u \in DOMAIN users \ {req[r].actor} :
        /\ Within(req[r], users[u].roles)
        /\ "admin" \in users[u].roles => OtherAdmin(u)
        /\ Decide(r, "delete user", [user |-> u, was |-> users[u].roles, ids |-> SessionsOf(u)])
MayDelete(q) == /\ Guard(q) /\ SessionsOf(q.change.user) = q.change.ids /\ Same(q.change.user, q.change.was)
                /\ "admin" \in q.change.was => OtherAdmin(q.change.user)
DeleteUser(r) ==
    LET q == req[r] u == q.change.user
    IN  Commit(r, "delete user", MayDelete(q),
            /\ users' = [x \in DOMAIN users \ {u} |-> users[x]]
            /\ identities' = [i \in {j \in DOMAIN identities : identities[j] # u} |-> identities[i]]
            /\ sessions' = {s \in sessions : s.user # u}
            /\ events' = events \cup {<<"ended", id>> : id \in q.change.ids}
            /\ UNCHANGED <<managed, grants, reused>>)

\* POST /roles/:name: the grants of a role are replaced
ReadGrants(r) ==
    \E role \in {"editor"} \cup (managed \cap Customs) : \E p \in Permissions :
        LET next == Toggled({x \in Permissions : <<role, x>> \in grants}, p) IN
        /\ Within(req[r], {role})
        /\ "admin" \in req[r].roles \/ next \subseteq Effective(req[r].roles, req[r].managed, req[r].grants)
        /\ Decide(r, "grants", [role |-> role, next |-> next])
MaySave(q) == Guard(q) /\ q.change.role \in Builtins \cup managed
SaveRolePermissions(r) ==
    LET q == req[r] role == q.change.role
    IN  Commit(r, "grants", MaySave(q),
            /\ managed' = managed \cup {role}
            /\ grants' = {g \in grants : g[1] # role} \cup {<<role, p>> : p \in q.change.next}
            /\ UNCHANGED <<users, identities, reused, sessions, events>>)

\* POST /roles
ReadNewRole(r) == \E role \in Customs \ managed : Decide(r, "new role", [role |-> role])
MayCreate(q) == Guard(q) /\ q.change.role \notin managed /\ \A g \in grants : g[1] # q.change.role
CreateCustomRole(r) ==
    LET q == req[r]
    IN  Commit(r, "new role", MayCreate(q),
            /\ managed' = managed \cup {q.change.role} /\ reused' = reused \cup {q.change.role}
            /\ UNCHANGED <<users, identities, grants, sessions, events>>)

\* POST /roles/:name/delete: also taken from every user that has it
ReadOldRole(r) ==
    \E role \in managed \cap Customs : Within(req[r], {role}) /\ Decide(r, "delete role", [role |-> role])
DeleteCustomRole(r) ==
    LET q == req[r] role == q.change.role
    IN  Commit(r, "delete role", Guard(q),
            /\ users' = [u \in DOMAIN users |-> [users[u] EXCEPT !.roles = @ \ {role}]]
            /\ grants' = {g \in grants : g[1] # role} /\ managed' = managed \ {role}
            /\ UNCHANGED <<identities, reused, sessions, events>>)

-----------------------------------------------------------------------------
\* findUserByOAuthIdentity: the linked account, else the one whose primary key it is.
PrimaryOf(i) == {u \in DOMAIN users : users[u].primary = i}
Owners(i) == IF i \in DOMAIN identities THEN {identities[i]} ELSE PrimaryOf(i)
\* identityGuard; a legacy primary key authenticates only while no row contradicts it.
Identifies(i, u) == (i \in DOMAIN identities /\ identities[i] = u) \/ (i \notin DOMAIN identities /\ u \in PrimaryOf(i))

\* GET /auth/callback, with or without a session that asked for a link
Callback(pc, i, u, sid) == [kind |-> "callback", pc |-> pc, identity |-> i, user |-> u, sid |-> sid,
                            roles |-> IF u \in DOMAIN users THEN users[u].roles ELSE {},
                            primary |-> IF u \in DOMAIN users THEN users[u].primary ELSE i,
                            known |-> i \in DOMAIN identities]
StartCallback(r) ==
    /\ \E i \in Providers :
        \/ "sign in" \in plan /\ \E u \in Owners(i) \cap DOMAIN users : Begin(r, Callback("profile", i, u, 0))
        \/ "sign in" \in plan /\ Owners(i) = {} /\ born < MaxUsers /\ Begin(r, Callback("register", i, 0, 0))
        \/ \E s \in sessions : /\ "link" \in plan /\ s.status = "live" /\ Owners(i) \subseteq {s.user} /\ s.user \in DOMAIN users
                               /\ Begin(r, Callback("link", i, s.user, s.id))
    /\ UNCHANGED <<accounts, sessions, issued, made, outbox, events, heirs, faults>>
OnCallback(r, pc) ==
    At(r, "callback", pc) /\ UNCHANGED <<managed, grants, reused, plan, sessions, issued, made, outbox, events, heirs, served>>
SignsIn(r, u) == req' = [req EXCEPT ![r].pc = "session", ![r].user = u, ![r].roles = users'[u].roles]

Bound(f, x, value) == [y \in DOMAIN f \cup {x} |-> IF y = x THEN value ELSE f[y]]
\* registerOAuthUser
MayRegister(i) == i \notin DOMAIN identities /\ PrimaryOf(i) = {}
Register(r) ==
    LET i == req[r].identity u == born + 1
        insert == /\ born' = u /\ identities' = Bound(identities, i, u)
                  /\ users' = Bound(users, u, [roles |-> {}, primary |-> i])
    IN  /\ OnCallback(r, "register")
        /\ \/ MayRegister(i) /\ insert /\ SignsIn(r, u) /\ UNCHANGED faults
           \/ ~MayRegister(i) /\ Done(r) /\ UNCHANGED <<users, identities, born, faults>>
           \/ Fault /\ MayRegister(i) /\ insert /\ Done(r)

\* linkOAuthIdentity
SameAccount(q) == Same(q.user, q.roles) /\ users[q.user].primary = q.primary
MayLink(q) == /\ \E s \in sessions : s.id = q.sid /\ s.user = q.user /\ s.status # "expired"
              /\ SameAccount(q) /\ PrimaryOf(q.identity) \subseteq {q.user}
              /\ IF q.known THEN Identifies(q.identity, q.user) /\ q.identity \in DOMAIN identities
                            ELSE q.identity \notin DOMAIN identities
LinkOAuthIdentity(r) ==
    LET q == req[r]
    IN  /\ OnCallback(r, "link")
        /\ IF MayLink(q) THEN identities' = Bound(identities, q.identity, q.user) /\ UNCHANGED users /\ SignsIn(r, q.user)
                         ELSE UNCHANGED <<users, identities>> /\ Done(r)
        /\ UNCHANGED <<faults, born>>
\* updateOAuthProfile: what it changes of the profile is left out, its guards are not
UpdateOAuthProfile(r) ==
    LET q == req[r]
    IN  /\ OnCallback(r, "profile")
        /\ UNCHANGED <<users, identities, faults, born>>
        /\ IF SameAccount(q) /\ Identifies(q.identity, q.user) THEN SignsIn(r, q.user) ELSE Done(r)
\* createAuthSession, then the cap of the account
MaySignIn(q) == Same(q.user, q.roles) /\ Identifies(q.identity, q.user)
CreateAuthSession(r) ==
    LET q == req[r]
    IN  /\ At(r, "callback", "session")
        /\ IF MaySignIn(q)
           THEN /\ sessions' = sessions \cup {[id |-> made + 1, user |-> q.user, cur |-> issued + 1,
                                               prev |-> NoToken, grace |-> FALSE, status |-> "live"]}
                /\ made' = made + 1 /\ issued' = issued + 1 /\ Goto(r, "cap")
           ELSE UNCHANGED <<sessions, made, issued>> /\ Done(r)
        /\ UNCHANGED <<accounts, outbox, events, heirs, served, faults>>
AfterSignIn(r) ==
    /\ At(r, "callback", "cap")
    /\ IF req[r].user \in DOMAIN users THEN Hygiene(r, req[r].user) ELSE Done(r)
    /\ UNCHANGED <<accounts, sessions, issued, made, outbox, events, heirs, served, faults>>

\* disconnectOwnIdentity: an account keeps at least one identity.
Own(u) == {i \in DOMAIN identities : identities[i] = u}
Disconnecting(i, u, sid) ==
    [kind |-> "disconnect", pc |-> "commit", identity |-> i, user |-> u, sid |-> sid, roles |-> users[u].roles,
     primary |-> users[u].primary, own |-> Own(u), serial |-> served]
StartDisconnect(r) ==
    /\ \E s \in sessions : \E i \in Own(s.user) :
        /\ s.status = "live" /\ s.user \in DOMAIN users /\ Cardinality(Own(s.user)) > 1
        /\ Begin(r, Disconnecting(i, s.user, s.id))
    /\ UNCHANGED <<accounts, sessions, issued, made, outbox, events, heirs, faults>>
\* mutant: the identities read are not compared with those there are
MayDisconnectRead(q) == (\E s \in sessions : s.id = q.sid /\ s.user = q.user) /\ SameAccount(q)
MayDisconnect(q) == /\ \E s \in sessions : s.id = q.sid /\ s.user = q.user /\ s.status # "expired"
                    /\ SameAccount(q) /\ Own(q.user) = q.own
Removed(q) == <<"disconnected", q.serial>>
Disconnected(q) ==
    /\ identities' = [i \in DOMAIN identities \ {q.identity} |-> identities[i]]
    /\ \E next \in q.own \ {q.identity} :
         users' = IF q.primary = q.identity THEN [users EXCEPT ![q.user].primary = next] ELSE users
    /\ outbox' = outbox \cup {[event |-> Removed(q), attempts |-> 0]}
Disconnect(r) ==
    LET q == req[r]
    IN  /\ At(r, "disconnect", "commit")
        /\ \/ MayDisconnect(q) /\ Disconnected(q) /\ UNCHANGED faults
              /\ req' = [req EXCEPT ![r] = DeliverOwn({Removed(q)})]
           \/ ~MayDisconnect(q) /\ Done(r) /\ UNCHANGED <<users, identities, outbox, faults>>
           \/ Fault /\ MayDisconnect(q) /\ Disconnected(q) /\ Done(r)
        /\ UNCHANGED <<managed, grants, reused, born, plan, sessions, issued, made, events, heirs, served>>

-----------------------------------------------------------------------------
\* User 1 is an administrator; user 2 may be a legacy account, without a row of
\* its primary identity.  Each has a session.
Primary1 == CHOOSE i \in Providers : TRUE
Primary2 == CHOOSE i \in Providers : i # Primary1
Init ==
    /\ \E start \in Starts :
        /\ users = [u \in {1, 2} |-> IF u = 1 THEN [roles |-> {"admin"}, primary |-> Primary1]
                                              ELSE [roles |-> start.roles, primary |-> Primary2]]
        /\ identities = [i \in {Primary1} \cup start.own |-> IF i = Primary1 THEN 1 ELSE 2]
        /\ grants = Customs \X start.grants /\ plan = start.plan /\ served = start.served
    /\ managed = Customs /\ reused = {} /\ born = 2
    /\ sessions = {[id |-> u, user |-> u, cur |-> u, prev |-> NoToken, grace |-> FALSE, status |-> "live"] : u \in {1, 2}}
    /\ issued = 2 /\ made = 2 /\ outbox = {} /\ events = {} /\ heirs = {}
    /\ req = [r \in Requests |-> Idle] /\ faults = 0
Start(r) == \/ StartRefresh(r) \/ StartLogout(r) \/ StartHygiene(r) \/ StartCallback(r) \/ StartDisconnect(r)
            \/ \E kind \in Changes : StartChange(r, kind)
Read(r) == \/ At(r, "roles of user", "read") /\ ReadRoles(r)
           \/ At(r, "delete user", "read") /\ ReadDeletion(r)
           \/ At(r, "grants", "read") /\ ReadGrants(r)
           \/ At(r, "new role", "read") /\ ReadNewRole(r)
           \/ At(r, "delete role", "read") /\ ReadOldRole(r)
           \/ Refuse(r)
Act(r) == \/ ChangeRoles(r) \/ DeleteUser(r) \/ SaveRolePermissions(r) \/ CreateCustomRole(r) \/ DeleteCustomRole(r)
          \/ Register(r) \/ LinkOAuthIdentity(r) \/ UpdateOAuthProfile(r) \/ CreateAuthSession(r) \/ AfterSignIn(r)
          \/ Disconnect(r)
Work(r) == Read(r) \/ Act(r) \/ SessionStep(r)
Next == (\E r \in Requests : Start(r) \/ Work(r) \/ StartDrain(r)) \/ Time
Spec == Init /\ [][Next]_vars
\* A request that began goes on; the core sweeper drains the outbox again and again.
FairSpec == Spec /\ \A r \in Requests : WF_vars(Work(r)) /\ WF_vars(StartDrain(r))

-----------------------------------------------------------------------------
\* However requests interleave, somebody can still administer the system, and
\* nothing refers to what is gone: sessions and identities have their account,
\* accounts only roles there are, and no grant waits for a role of its name.
\* Only a name that was used again while a form was handled can be left behind:
\* the guard compares the roles with those captured before the options were read.
AccessIsWhole ==
    /\ Admins # {}
    /\ \A s \in sessions : s.user \in DOMAIN users
    /\ \A i \in DOMAIN identities : identities[i] \in DOMAIN users
    /\ \A u \in DOMAIN users : users[u].roles \cap Customs \subseteq managed \cup reused
    /\ \A g \in grants : g[1] \in managed
AccessSound == EndsAreEvidenced /\ AccessIsWhole

\* An identity leads to one account, and no account that has identities is
\* left without one, to be entered by a primary key its owner gave up.
Entered(u) ==
    /\ \E i \in Providers : Owners(i)' = {u}
    /\ \A i \in DOMAIN identities' : users'[u].primary = i => identities'[i] = u
    /\ \A x \in DOMAIN users' \ {u} : users'[x].primary # users'[u].primary
    /\ u \in DOMAIN users /\ Own(u) # {} => Own(u)' # {}
OneAccountPerIdentity == [][\A u \in DOMAIN users' : Entered(u)]_vars

\* What a step gives to anyone, whoever acted held when it committed; and only
\* an administrator takes the role from an administrator.
ActedBy(r) == req[r] # Idle /\ req[r].pc = "commit" /\ req'[r] = Idle
Gained == UNION {Holds(u)' \ Holds(u) : u \in DOMAIN users}
Deposed == Admins \ Admins'
Licensed == Gained # {} \/ Deposed # {} =>
    \E r \in Requests : ActedBy(r) /\ (req[r].actor \in Admins \/ (Gained \subseteq Holds(req[r].actor) /\ Deposed = {}))
NobodyExceeds == [][Licensed]_vars

\* Once the requests are over, every envelope has become its event or has used
\* up its attempts; none is left that a sweep passes by.
EvidenceDelivered == <>[](\A x \in outbox : x.attempts >= MaxAttempts)
=============================================================================
