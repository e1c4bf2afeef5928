--------------------------- MODULE AccountsProofs ---------------------------
(***************************************************************************)
(* What holds of Sessions and Accounts for any number of requests,         *)
(* accounts, sessions and identities, whatever overlaps or fails.          *)
(*                                                                         *)
(* Every request acts on what it read earlier; the argument is that of the *)
(* guards of its batch, and IInv says what a request carries from its      *)
(* reads to its batch.                                                     *)
(***************************************************************************)
EXTENDS Accounts, FiniteSetTheorems, TLAPS

SessionType == [id : Nat, user : Nat, cur : Nat, prev : Nat, grace : BOOLEAN, status : {"live", "idle", "expired"}]
EventType == {"ended", "disconnected", "rotate", "grace"} \X Nat
Envelope == [event : EventType, attempts : Nat]
UserType == [roles : SUBSET RoleNames, primary : Providers]

RefreshType == [kind : {"refresh"}, pc : {"rotate", "grace", "check", "cap"}, token : Nat, session : SessionType,
                roles : SUBSET RoleNames, serial : Nat]
CallbackType == [kind : {"callback"}, pc : {"profile", "register", "link", "session", "cap"}, identity : Providers,
                 user : Nat, sid : Nat, roles : SUBSET RoleNames, primary : Providers, known : BOOLEAN]
AuthorityType == [kind : Changes, pc : {"read"}, actor : Nat, sid : Nat, roles : SUBSET RoleNames,
                  managed : SUBSET RoleNames, grants : SUBSET (RoleNames \X Permissions), change : {Undecided}]
LogoutOK(q) == q \in [kind : {"logout"}, pc : {"remove"}, chosen : SUBSET SessionType, roles : {q.roles}]
HygieneOK(q) == q \in [kind : {"hygiene"}, pc : {"cap", "read", "expire"}, user : Nat, chosen : SUBSET SessionType,
                       roles : {q.roles}]
DrainOK(q) == q \in [kind : {"drain"}, pc : {"select", "deliver", "count"}, items : SUBSET Envelope, own : {q.own}]
DisconnectOK(q) == /\ q.pc = "commit" /\ q.own \subseteq Providers /\ q.identity \in q.own
                   /\ q.user \in Nat /\ q.serial \in Nat
(* What was decided on the captured authority.                             *)
RolesDecided(q, c) == c.next \subseteq RoleNames /\ Within(q, c.was) /\ Within(q, c.next)
DeletionDecided(q, c) == Within(q, c.was)
GrantsDecided(q, c) == /\ c.role \in {"editor"} \cup Customs /\ c.next \subseteq Permissions
                       /\ "admin" \in q.roles \/ c.next \subseteq Effective(q.roles, q.managed, q.grants)
NameDecided(c) == c.role \in Customs
Decided(q) == /\ q.kind = "roles of user" => RolesDecided(q, q.change)
              /\ q.kind = "delete user" => DeletionDecided(q, q.change)
              /\ q.kind = "grants" => GrantsDecided(q, q.change)
              /\ q.kind \in {"new role", "delete role"} => NameDecided(q.change)
ChangeOK(q) == q \in AuthorityType \/ (q.pc = "commit" /\ Decided(q))

RequestOK(q) ==
    \/ q = Idle
    \/ q.kind = "refresh" /\ q \in RefreshType
    \/ q.kind = "callback" /\ q \in CallbackType
    \/ q.kind \in Changes /\ ChangeOK(q)
    \/ q.kind = "logout" /\ LogoutOK(q)
    \/ q.kind = "hygiene" /\ HygieneOK(q)
    \/ q.kind = "drain" /\ DrainOK(q)
    \/ q.kind = "disconnect" /\ DisconnectOK(q)
RequestsOK == /\ \A r \in Requests : RequestOK(req[r])
              /\ req = [r \in Requests |-> req[r]]

(* The tables.                                                             *)
SessionsTyped == /\ sessions \subseteq SessionType /\ issued \in Nat /\ made \in Nat
                 /\ heirs \subseteq Nat \X Nat
UsersTyped == /\ users \in [DOMAIN users -> UserType] /\ DOMAIN users \subseteq 1..born /\ born \in Nat
              /\ identities \in [DOMAIN identities -> Nat] /\ DOMAIN identities \subseteq Providers
              /\ managed \subseteq RoleNames /\ grants \subseteq RoleNames \X Permissions /\ reused \subseteq Customs
EvidenceTyped == events \subseteq EventType /\ outbox \subseteq Envelope

(* Session and token numbers are given out once, and a token that was       *)
(* exchanged is nobody's current one.                                       *)
Numbered == /\ \A s \in sessions : s.id \in 1..made /\ s.cur \in 1..issued /\ s.prev \in 0..issued
            /\ \A x \in heirs : x[1] \in 1..issued
            /\ \A s, x \in sessions : s.id = x.id => s = x
            /\ \A s \in sessions, x \in heirs : s.cur # x[1]

(* A receipt is an event or an envelope, never both, and of a session that  *)
(* is over; what a drain takes up is one of them.                           *)
Recorded == events \cup {x.event : x \in outbox}
Receipted == /\ \A e \in Recorded : e[1] = "ended" => e[2] \in (1..made) \ Living
             /\ \A id \in (1..made) \ Living : <<"ended", id>> \in Recorded
             /\ \A x \in outbox : x.event[1] = "ended" => x.event \notin events
             /\ \A x, y \in outbox : x.event[1] = "ended" /\ x.event = y.event => x = y
TakenUp(q) == q.kind = "drain" => \A x \in q.items : x.event \in Recorded
(* Only a name used again is managed and was not when the authority was     *)
(* captured.                                                                *)
CatalogueKnown(q) ==
    /\ q.kind \in Changes /\ q.pc = "read" => managed \cap Customs \subseteq q.managed \cup reused
    /\ q.kind = "roles of user" /\ q.pc = "commit" => q.change.next \cap Customs \subseteq q.managed \cup reused
Carried == \A r \in Requests : TakenUp(req[r]) /\ CatalogueKnown(req[r])
(* Every account has a primary identity of its own, which is linked to      *)
(* nobody else.                                                             *)
Identified == /\ \A u \in DOMAIN users : users[u].primary \in DOMAIN identities => identities[users[u].primary] = u
              /\ \A u, x \in DOMAIN users : users[u].primary = users[x].primary => u = x
SessionsInv == SessionsTyped /\ Numbered /\ OneHeir
UsersInv == UsersTyped /\ Identified
EvidenceInv == EvidenceTyped /\ Receipted
Tables == SessionsInv /\ UsersInv /\ EvidenceInv /\ AccessIsWhole
IInv == Tables /\ served \in Nat /\ RequestsOK /\ Carried

-----------------------------------------------------------------------------
(* Requests: a step moves one of them.                                     *)
LEMMA OneMoves ==
    ASSUME RequestsOK, NEW r \in Requests, NEW q, RequestOK(q), req' = [req EXCEPT ![r] = q]
    PROVE  RequestsOK'
  BY DEF RequestsOK

LEMMA IdleOK == RequestOK(Idle)
  BY DEF RequestOK

LEMMA DoneOK == ASSUME RequestsOK, NEW r \in Requests, Done(r) PROVE RequestsOK'
  BY OneMoves, IdleOK DEF Done

LEMMA ByKind ==
    ASSUME NEW q, RequestOK(q)
    PROVE  /\ q.kind = "refresh" => q \in RefreshType
           /\ q.kind = "callback" => q \in CallbackType
           /\ q.kind \in Changes => ChangeOK(q)
           /\ q.kind = "logout" => LogoutOK(q)
           /\ q.kind = "hygiene" => HygieneOK(q)
           /\ q.kind = "drain" => DrainOK(q)
           /\ q.kind = "disconnect" => DisconnectOK(q)
<1>1. Idle.kind = "idle"  BY DEF Idle
<1> QED  BY <1>1 DEF RequestOK, Changes

LEMMA RefreshGoes ==
    ASSUME RequestsOK, NEW r \in Requests, NEW pc, pc \in {"rotate", "grace", "check", "cap"},
           req[r].kind = "refresh", Goto(r, pc)
    PROVE  RequestsOK'
<1>1. req[r] \in RefreshType  BY ByKind DEF RequestsOK
<1>2. [req[r] EXCEPT !.pc = pc] \in RefreshType /\ [req[r] EXCEPT !.pc = pc].kind = "refresh"  BY <1>1 DEF RefreshType
<1>3. RequestOK([req[r] EXCEPT !.pc = pc])  BY <1>2 DEF RequestOK
<1> QED  BY <1>3, OneMoves DEF Goto

LEMMA CallbackSignsIn ==
    ASSUME RequestsOK, NEW r \in Requests, NEW u \in DOMAIN users', UsersTyped',
           req[r].kind = "callback", SignsIn(r, u)
    PROVE  RequestsOK'
<1> DEFINE roles == users'[u].roles
           q == [req[r] EXCEPT !.pc = "session", !.user = u, !.roles = roles]
<1>1. req[r] \in CallbackType  BY ByKind DEF RequestsOK
<1>2. roles \subseteq RoleNames /\ u \in Nat  BY DEF UsersTyped, UserType
<1>3. q \in CallbackType /\ q.kind = "callback"  BY <1>1, <1>2 DEF CallbackType
<1>4. RequestOK(q)  BY <1>3 DEF RequestOK
<1>5. req' = [req EXCEPT ![r] = q]  BY DEF SignsIn, RequestsOK
<1> QED  BY <1>4, <1>5, OneMoves

LEMMA CallbackEnds ==
    ASSUME RequestsOK, NEW r \in Requests, req[r].kind = "callback", Goto(r, "cap")
    PROVE  RequestsOK'
<1>1. req[r] \in CallbackType  BY ByKind DEF RequestsOK
<1>2. [req[r] EXCEPT !.pc = "cap"] \in CallbackType /\ [req[r] EXCEPT !.pc = "cap"].kind = "callback"  BY <1>1 DEF CallbackType
<1>3. RequestOK([req[r] EXCEPT !.pc = "cap"])  BY <1>2 DEF RequestOK
<1> QED  BY <1>3, OneMoves DEF Goto

LEMMA HygieneStarts ==
    ASSUME RequestsOK, SessionsTyped, NEW r \in Requests, NEW u \in Nat, Hygiene(r, u)
    PROVE  RequestsOK'
<1> DEFINE q == [kind |-> "hygiene", pc |-> "cap", user |-> u, chosen |-> Excess(u), roles |-> KnownRoles(Excess(u))]
<1>1. Excess(u) \subseteq SessionType  BY DEF Excess, SessionsTyped
<1>2. q.kind = "hygiene" /\ HygieneOK(q)  BY <1>1 DEF HygieneOK
<1>3. RequestOK(q)  BY <1>2 DEF RequestOK
<1>4. req' = [req EXCEPT ![r] = q]  BY DEF Hygiene
<1> QED  BY <1>3, <1>4, OneMoves

LEMMA HygieneGoes ==
    ASSUME RequestsOK, NEW r \in Requests, NEW pc, pc \in {"read", "expire"}, NEW chosen, chosen \subseteq SessionType, NEW roles,
           req[r].kind = "hygiene", req' = [req EXCEPT ![r].pc = pc, ![r].chosen = chosen, ![r].roles = roles]
    PROVE  RequestsOK'
<1> DEFINE q == [req[r] EXCEPT !.pc = pc, !.chosen = chosen, !.roles = roles]
<1>1. HygieneOK(req[r])  BY ByKind DEF RequestsOK
<1>2. HygieneOK(q) /\ q.kind = "hygiene"  BY <1>1 DEF HygieneOK
<1>3. RequestOK(q)  BY <1>2 DEF RequestOK
<1>4. req' = [req EXCEPT ![r] = q]  BY DEF RequestsOK
<1> QED  BY <1>3, <1>4, OneMoves

LEMMA HygieneReads ==
    ASSUME RequestsOK, NEW r \in Requests, req[r].kind = "hygiene", Goto(r, "read")
    PROVE  RequestsOK'
<1> DEFINE q == [req[r] EXCEPT !.pc = "read"]
<1>1. HygieneOK(req[r])  BY ByKind DEF RequestsOK
<1>2. HygieneOK(q) /\ q.kind = "hygiene"  BY <1>1 DEF HygieneOK
<1>3. RequestOK(q)  BY <1>2 DEF RequestOK
<1> QED  BY <1>3, OneMoves DEF Goto

LEMMA DrainStarts ==
    ASSUME RequestsOK, NEW r \in Requests, NEW pc, pc \in {"select", "deliver"}, NEW items, items \subseteq Envelope, NEW own,
           req' = [req EXCEPT ![r] = [kind |-> "drain", pc |-> pc, items |-> items, own |-> own]]
    PROVE  RequestsOK'
<1> DEFINE q == [kind |-> "drain", pc |-> pc, items |-> items, own |-> own]
<1>1. DrainOK(q) /\ q.kind = "drain"  BY DEF DrainOK
<1>2. RequestOK(q)  BY <1>1 DEF RequestOK
<1> QED  BY <1>2, OneMoves

LEMMA DrainGoes ==
    ASSUME RequestsOK, NEW r \in Requests, NEW pc, pc \in {"deliver", "count"}, NEW items, items \subseteq Envelope, NEW own,
           req[r].kind = "drain", req' = [req EXCEPT ![r] = [req[r] EXCEPT !.pc = pc, !.items = items, !.own = own]]
    PROVE  RequestsOK'
<1> DEFINE q == [req[r] EXCEPT !.pc = pc, !.items = items, !.own = own]
<1>1. DrainOK(req[r])  BY ByKind DEF RequestsOK
<1>2. DrainOK(q) /\ q.kind = "drain"  BY <1>1 DEF DrainOK
<1>3. RequestOK(q)  BY <1>2 DEF RequestOK
<1> QED  BY <1>3, OneMoves

LEMMA SessionRequests ==
    ASSUME IInv, NEW r \in Requests, SessionStart(r) \/ SessionStep(r) \/ StartDrain(r)
    PROVE  RequestsOK'
<1> USE DEF IInv, Tables, SessionsInv, UsersInv, EvidenceInv
<1>1. CASE StartRefresh(r)
  <2>1. PICK t \in 1..issued, s \in sessions :
          /\ Presents(s, t) /\ s.user \in DOMAIN users
          /\ Begin(r, [kind |-> "refresh", pc |-> IF s.cur = t THEN "rotate" ELSE "grace", token |-> t,
                       session |-> s, roles |-> users[s.user].roles, serial |-> served])
    BY <1>1 DEF StartRefresh
  <2> DEFINE q == [kind |-> "refresh", pc |-> IF s.cur = t THEN "rotate" ELSE "grace", token |-> t,
                   session |-> s, roles |-> users[s.user].roles, serial |-> served]
  <2>2. users[s.user].roles \subseteq RoleNames  BY <2>1 DEF UsersTyped, UserType
  <2>3. q \in RefreshType /\ q.kind = "refresh"
    BY <2>2 DEF RefreshType, SessionsTyped, EvidenceTyped
  <2>4. RequestOK(q)  BY <2>3 DEF RequestOK
  <2> QED  BY <2>1, <2>4, OneMoves DEF Begin
<1>2. CASE StartLogout(r)
  <2>1. PICK chosen \in SUBSET sessions :
          Begin(r, [kind |-> "logout", pc |-> "remove", chosen |-> chosen, roles |-> KnownRoles(chosen)])
    BY <1>2 DEF StartLogout
  <2> DEFINE q == [kind |-> "logout", pc |-> "remove", chosen |-> chosen, roles |-> KnownRoles(chosen)]
  <2>2. LogoutOK(q) /\ q.kind = "logout"  BY DEF LogoutOK, SessionsTyped
  <2>3. RequestOK(q)  BY <2>2 DEF RequestOK
  <2> QED  BY <2>1, <2>3, OneMoves DEF Begin
<1>3. CASE StartHygiene(r)
  <2>1. PICK u \in DOMAIN users : Hygiene(r, u)  BY <1>3 DEF StartHygiene
  <2>2. u \in Nat  BY DEF UsersTyped
  <2> QED  BY <2>1, <2>2, HygieneStarts
<1>4. CASE Rotate(r)
  BY <1>4, RefreshGoes DEF Rotate, At
<1>5. CASE Check(r)
  BY <1>5, RefreshGoes, DoneOK DEF Check, At
<1>6. CASE Grace(r)
  BY <1>6, RefreshGoes, DoneOK DEF Grace, At
<1>7. CASE Logout(r)
  <2>1. CASE req' = [req EXCEPT ![r] = DeliverOwn({Ended(s) : s \in req[r].chosen})]
    BY <2>1, DrainStarts DEF DeliverOwn
  <2> QED  BY <1>7, <2>1, DoneOK DEF Logout
<1>8. CASE AfterRefresh(r)
  <2>1. req[r].session.user \in DOMAIN users => req[r].session.user \in Nat  BY DEF UsersTyped
  <2> QED  BY <1>8, <2>1, HygieneStarts, DoneOK DEF AfterRefresh
<1>9. CASE Cap(r)
  BY <1>9, HygieneReads, DoneOK DEF Cap, At
<1>10. CASE ReadOver(r)
  <2>1. Over \subseteq SessionType  BY DEF Over, SessionsTyped
  <2> QED  BY <1>10, <2>1, HygieneGoes DEF ReadOver, At
<1>11. CASE Expire(r)
  BY <1>11, DoneOK DEF Expire
<1>12. CASE SelectOwn(r)
  <2> DEFINE items == {x \in Pending : x.event \in req[r].own}
             q == [req[r] EXCEPT !.pc = "deliver", !.items = items, !.own = {}]
  <2>1. items \subseteq Envelope  BY DEF Pending, EvidenceTyped
  <2>2. req[r].kind = "drain"  BY <1>12 DEF SelectOwn, At
  <2>3. req' = [req EXCEPT ![r] = q]  BY <1>12 DEF SelectOwn, RequestsOK
  <2> QED  BY <2>1, <2>2, <2>3, DrainGoes
<1>13. CASE DeliverOne(r)
  <2>1. req[r].kind = "drain" /\ DrainOK(req[r])  BY <1>13, ByKind DEF DeliverOne, At, RequestsOK
  <2>2. PICK item \in req[r].items :
          \/ req' = [req EXCEPT ![r] = [req[r] EXCEPT !.items = @ \ {item}]]
          \/ req' = [req EXCEPT ![r] = [[req[r] EXCEPT !.items = @ \ {item}] EXCEPT !.pc = "count", !.own = {item}]]
    BY <1>13 DEF DeliverOne
  <2> DEFINE rest == [req[r] EXCEPT !.items = @ \ {item}]
             next == [rest EXCEPT !.pc = "count", !.own = {item}]
  <2>3. DrainOK(rest) /\ rest.kind = "drain"  BY <2>1 DEF DrainOK
  <2>4. DrainOK(next) /\ next.kind = "drain"  BY <2>3 DEF DrainOK
  <2>5. RequestOK(rest) /\ RequestOK(next)  BY <2>3, <2>4 DEF RequestOK
  <2> QED  BY <2>2, <2>5, OneMoves
<1>14. CASE CountFailure(r)
  <2> DEFINE q == [req[r] EXCEPT !.pc = "deliver", !.own = {}]
  <2>1. req[r].kind = "drain" /\ DrainOK(req[r])  BY <1>14, ByKind DEF CountFailure, At, RequestsOK
  <2>2. DrainOK(q) /\ q.kind = "drain"  BY <2>1 DEF DrainOK
  <2>3. RequestOK(q)  BY <2>2 DEF RequestOK
  <2>4. req' = [req EXCEPT ![r] = q]  BY <1>14 DEF CountFailure, RequestsOK
  <2> QED  BY <2>3, <2>4, OneMoves
<1>15. CASE EndDrain(r)
  BY <1>15, DoneOK DEF EndDrain
<1>16. CASE StartDrain(r)
  <2>1. Pending \subseteq Envelope  BY DEF Pending, EvidenceTyped
  <2> QED  BY <1>16, <2>1, DrainStarts DEF StartDrain
<1> QED  BY <1>1, <1>2, <1>3, <1>4, <1>5, <1>6, <1>7, <1>8, <1>9, <1>10, <1>11, <1>12, <1>13, <1>14, <1>15, <1>16
         DEF SessionStart, SessionStep

LEMMA CallbackTyped ==
    ASSUME UsersTyped, NEW pc, pc \in {"profile", "register", "link"}, NEW i \in Providers, NEW u \in Nat, NEW sid \in Nat
    PROVE  RequestOK(Callback(pc, i, u, sid))
<1> DEFINE q == Callback(pc, i, u, sid)
<1>1. /\ (IF u \in DOMAIN users THEN users[u].roles ELSE {}) \subseteq RoleNames
      /\ (IF u \in DOMAIN users THEN users[u].primary ELSE i) \in Providers
    BY DEF UsersTyped, UserType
<1>2. q \in CallbackType /\ q.kind = "callback"  BY <1>1 DEF Callback, CallbackType
<1> QED  BY <1>2 DEF RequestOK

LEMMA AuthorityIs ==
    ASSUME RequestsOK, NEW r \in Requests, req[r].kind \in Changes, req[r].pc = "read"
    PROVE  req[r] \in AuthorityType
  BY ByKind DEF RequestsOK, ChangeOK

LEMMA DecideOK ==
    ASSUME RequestsOK, NEW r \in Requests, NEW kind \in Changes, NEW change, Decide(r, kind, change),
           Decided([req[r] EXCEPT !.pc = "commit", !.change = change])
    PROVE  RequestsOK'
<1> DEFINE q == [req[r] EXCEPT !.pc = "commit", !.change = change]
<1>1. req[r] \in AuthorityType /\ req[r].kind = kind  BY AuthorityIs DEF Decide, At
<1>2. q.kind = kind /\ q.pc = "commit"  BY <1>1 DEF AuthorityType
<1>3. RequestOK(q)  BY <1>2 DEF RequestOK, ChangeOK
<1>4. req' = [req EXCEPT ![r] = q]  BY DEF Decide, RequestsOK
<1> QED  BY <1>3, <1>4, OneMoves

(* What is decided reads the captured authority as the request holds it.    *)
LEMMA DecisionReads ==
    ASSUME NEW q \in AuthorityType, NEW change
    PROVE  LET d == [q EXCEPT !.pc = "commit", !.change = change]
           IN  /\ d.kind = q.kind /\ d.change = change /\ d.roles = q.roles
               /\ d.managed = q.managed /\ d.grants = q.grants /\ d.actor = q.actor /\ d.sid = q.sid
               /\ d.pc = "commit"
  BY DEF AuthorityType

LEMMA AccountStarts ==
    ASSUME IInv, NEW r \in Requests, Start(r), ~SessionStart(r)
    PROVE  RequestsOK'
<1> USE DEF IInv, Tables, SessionsInv, UsersInv, EvidenceInv
<1>1. CASE StartCallback(r)
  <2>1. \A i \in Providers : Owners(i) \subseteq Nat
    BY DEF Owners, PrimaryOf, UsersTyped
  <2>2. PICK i \in Providers, pc \in {"profile", "register", "link"}, u \in Nat, sid \in Nat : Begin(r, Callback(pc, i, u, sid))
    <3>1. \A s \in sessions : s.user \in Nat /\ s.id \in Nat  BY DEF SessionsTyped, SessionType
    <3> QED  BY <1>1, <2>1, <3>1 DEF StartCallback
  <2> QED  BY <2>2, CallbackTyped, OneMoves DEF Begin
<1>2. CASE StartDisconnect(r)
  <2>0. PICK s \in sessions : \E i \in Own(s.user) :
          Begin(r, Disconnecting(i, s.user, s.id))
    BY <1>2 DEF StartDisconnect
  <2>1. PICK i \in Own(s.user) :
          Begin(r, Disconnecting(i, s.user, s.id))
    BY <2>0
  <2> DEFINE q == Disconnecting(i, s.user, s.id)
  <2>2. s.user \in Nat /\ served \in Nat /\ Own(s.user) \subseteq Providers
    BY DEF SessionsTyped, SessionType, EvidenceTyped, Own, UsersTyped
  <2>3. /\ q.kind = "disconnect" /\ q.pc = "commit" /\ q.own = Own(s.user) /\ q.serial = served
        /\ q.identity = i /\ q.user = s.user
    BY DEF Disconnecting
  <2>4. DisconnectOK(q)  BY <2>2, <2>3 DEF DisconnectOK
  <2>5. RequestOK(q)  BY <2>3, <2>4 DEF RequestOK
  <2> QED  BY <2>1, <2>5, OneMoves DEF Begin
<1>3. ASSUME NEW kind \in Changes, StartChange(r, kind)  PROVE RequestsOK'
  <2>1. PICK s \in sessions : s.user \in DOMAIN users /\ Begin(r, Authority(kind, s.user, s.id))
    BY <1>3 DEF StartChange
  <2> DEFINE q == Authority(kind, s.user, s.id)
  <2>2. users[s.user].roles \subseteq RoleNames  BY <2>1 DEF UsersTyped, UserType
  <2>3. s.user \in Nat /\ s.id \in Nat  BY DEF SessionsTyped, SessionType
  <2>4. q \in AuthorityType /\ q.kind = kind  BY <2>2, <2>3 DEF Authority, AuthorityType, UsersTyped
  <2>5. RequestOK(q)  BY <2>4 DEF RequestOK, ChangeOK
  <2> QED  BY <2>1, <2>5, OneMoves DEF Begin
<1> QED  BY <1>1, <1>2, <1>3 DEF Start, SessionStart

LEMMA DecisionsOK ==
    ASSUME IInv, NEW r \in Requests, Read(r)
    PROVE  RequestsOK'
<1> USE DEF IInv, Tables, SessionsInv, UsersInv, EvidenceInv
<1>1. CASE At(r, "roles of user", "read") /\ ReadRoles(r)
  <2>1. PICK u \in DOMAIN users, role \in Options :
          LET next == Toggled(users[u].roles, role)
          IN  /\ Within(req[r], users[u].roles) /\ Within(req[r], next)
              /\ Decide(r, "roles of user", [user |-> u, was |-> users[u].roles, next |-> next])
    BY <1>1 DEF ReadRoles
  <2> DEFINE change == [user |-> u, was |-> users[u].roles, next |-> Toggled(users[u].roles, role)]
             d == [req[r] EXCEPT !.pc = "commit", !.change = change]
  <2>2. req[r] \in AuthorityType /\ req[r].kind = "roles of user"  BY <1>1, AuthorityIs DEF At, Changes
  <2>3. Toggled(users[u].roles, role) \subseteq RoleNames
    BY DEF UsersTyped, UserType, Toggled, Options, RoleNames
  <2>4. /\ d.kind = "roles of user" /\ d.change = change /\ d.roles = req[r].roles
        /\ d.managed = req[r].managed /\ d.grants = req[r].grants
    BY <2>2, DecisionReads
  <2>5. Decided(d)
    <3> HIDE DEF d
    <3>1. RolesDecided(d, change)  BY <2>1, <2>3, <2>4 DEF RolesDecided, Within
    <3>2. d.kind = "roles of user" /\ d.change = change  BY <2>4
    <3> QED  BY <3>1, <3>2 DEF Decided
  <2> QED  BY <2>1, <2>5, DecideOK DEF Changes
<1>2. CASE At(r, "delete user", "read") /\ ReadDeletion(r)
  <2>1. PICK u \in DOMAIN users :
          /\ Within(req[r], users[u].roles)
          /\ Decide(r, "delete user", [user |-> u, was |-> users[u].roles, ids |-> SessionsOf(u)])
    BY <1>2 DEF ReadDeletion
  <2> DEFINE change == [user |-> u, was |-> users[u].roles, ids |-> SessionsOf(u)]
             d == [req[r] EXCEPT !.pc = "commit", !.change = change]
  <2>2. req[r] \in AuthorityType /\ req[r].kind = "delete user"  BY <1>2, AuthorityIs DEF At, Changes
  <2>3. /\ d.kind = "delete user" /\ d.change = change /\ d.roles = req[r].roles
        /\ d.managed = req[r].managed /\ d.grants = req[r].grants
    BY <2>2, DecisionReads
  <2>4. Decided(d)
    <3> HIDE DEF d
    <3>1. DeletionDecided(d, change)  BY <2>1, <2>3 DEF DeletionDecided, Within
    <3>2. d.kind = "delete user" /\ d.change = change  BY <2>3
    <3> QED  BY <3>1, <3>2 DEF Decided
  <2> QED  BY <2>1, <2>4, DecideOK DEF Changes
<1>3. CASE At(r, "grants", "read") /\ ReadGrants(r)
  <2>1. PICK role \in {"editor"} \cup (managed \cap Customs), p \in Permissions :
          LET next == Toggled({x \in Permissions : <<role, x>> \in grants}, p)
          IN  /\ "admin" \in req[r].roles \/ next \subseteq Effective(req[r].roles, req[r].managed, req[r].grants)
              /\ Decide(r, "grants", [role |-> role, next |-> next])
    BY <1>3 DEF ReadGrants
  <2> DEFINE next == Toggled({x \in Permissions : <<role, x>> \in grants}, p)
             change == [role |-> role, next |-> next]
             d == [req[r] EXCEPT !.pc = "commit", !.change = change]
  <2>2. req[r] \in AuthorityType /\ req[r].kind = "grants"  BY <1>3, AuthorityIs DEF At, Changes
  <2>3. next \subseteq Permissions  BY DEF Toggled
  <2>4. /\ d.kind = "grants" /\ d.change = change /\ d.roles = req[r].roles
        /\ d.managed = req[r].managed /\ d.grants = req[r].grants
    BY <2>2, DecisionReads
  <2>5. Decided(d)
    <3> HIDE DEF d
    <3>1. GrantsDecided(d, change)  BY <2>1, <2>3, <2>4 DEF GrantsDecided
    <3>2. d.kind = "grants" /\ d.change = change  BY <2>4
    <3> QED  BY <3>1, <3>2 DEF Decided
  <2> QED  BY <2>1, <2>5, DecideOK DEF Changes
<1>4. CASE At(r, "new role", "read") /\ ReadNewRole(r)
  <2>1. PICK role \in Customs \ managed : Decide(r, "new role", [role |-> role])  BY <1>4 DEF ReadNewRole
  <2> DEFINE d == [req[r] EXCEPT !.pc = "commit", !.change = [role |-> role]]
  <2>2. req[r] \in AuthorityType /\ req[r].kind = "new role"  BY <1>4, AuthorityIs DEF At, Changes
  <2>3. d.kind = "new role" /\ d.change = [role |-> role]  BY <2>2, DecisionReads
  <2>4. Decided(d)
    <3> HIDE DEF d
    <3>1. NameDecided([role |-> role])  BY DEF NameDecided
    <3> QED  BY <3>1, <2>3 DEF Decided
  <2> QED  BY <2>1, <2>4, DecideOK DEF Changes
<1>5. CASE At(r, "delete role", "read") /\ ReadOldRole(r)
  <2>1. PICK role \in managed \cap Customs : Decide(r, "delete role", [role |-> role])  BY <1>5 DEF ReadOldRole
  <2> DEFINE d == [req[r] EXCEPT !.pc = "commit", !.change = [role |-> role]]
  <2>2. req[r] \in AuthorityType /\ req[r].kind = "delete role"  BY <1>5, AuthorityIs DEF At, Changes
  <2>3. d.kind = "delete role" /\ d.change = [role |-> role]  BY <2>2, DecisionReads
  <2>4. Decided(d)
    <3> HIDE DEF d
    <3>1. NameDecided([role |-> role])  BY DEF NameDecided
    <3> QED  BY <3>1, <2>3 DEF Decided
  <2> QED  BY <2>1, <2>4, DecideOK DEF Changes
<1>6. CASE Refuse(r)
  BY <1>6, DoneOK DEF Refuse
<1> QED  BY <1>1, <1>2, <1>3, <1>4, <1>5, <1>6 DEF Read

LEMMA ActsOK ==
    ASSUME IInv, UsersTyped', NEW r \in Requests, Act(r)
    PROVE  RequestsOK'
<1> USE DEF IInv, Tables, SessionsInv, UsersInv, EvidenceInv
<1>1. CASE ChangeRoles(r) \/ DeleteUser(r) \/ SaveRolePermissions(r) \/ CreateCustomRole(r) \/ DeleteCustomRole(r)
  BY <1>1, DoneOK DEF ChangeRoles, DeleteUser, SaveRolePermissions, CreateCustomRole, DeleteCustomRole, Commit
<1>2. CASE Register(r)
  <2>1. users' = Bound(users, born + 1, [roles |-> {}, primary |-> req[r].identity]) => born + 1 \in DOMAIN users'
    BY DEF Bound
  <2> QED  BY <1>2, <2>1, DoneOK, CallbackSignsIn DEF Register, OnCallback, At
<1>3. CASE LinkOAuthIdentity(r)
  BY <1>3, DoneOK, CallbackSignsIn DEF LinkOAuthIdentity, OnCallback, At, MayLink, SameAccount, Same
<1>4. CASE UpdateOAuthProfile(r)
  BY <1>4, DoneOK, CallbackSignsIn DEF UpdateOAuthProfile, OnCallback, At, SameAccount, Same
<1>5. CASE CreateAuthSession(r)
  BY <1>5, DoneOK, CallbackEnds DEF CreateAuthSession, At
<1>6. CASE AfterSignIn(r)
  <2>1. req[r].user \in DOMAIN users => req[r].user \in Nat  BY DEF UsersTyped
  <2> QED  BY <1>6, <2>1, HygieneStarts, DoneOK DEF AfterSignIn
<1>7. CASE Disconnect(r)
  <2>1. CASE req' = [req EXCEPT ![r] = DeliverOwn({Removed(req[r])})]
    BY <2>1, DrainStarts DEF DeliverOwn
  <2> QED  BY <1>7, <2>1, DoneOK DEF Disconnect
<1> QED  BY <1>1, <1>2, <1>3, <1>4, <1>5, <1>6, <1>7 DEF Act

-----------------------------------------------------------------------------
(* The tables: what leaves them as they are, and what the batches share.    *)
sessionTables == <<sessions, issued, made, heirs>>
accountTables == <<users, identities, managed, grants, reused, born>>

LEMMA SessionsFewer ==
    ASSUME SessionsInv, sessions' \subseteq sessions, UNCHANGED <<issued, made, heirs>>
    PROVE  SessionsInv'
<1>1. SessionsTyped'  BY DEF SessionsInv, SessionsTyped
<1>2. Numbered'  BY DEF SessionsInv, Numbered
<1>3. OneHeir'  BY DEF SessionsInv, OneHeir
<1> QED  BY <1>1, <1>2, <1>3 DEF SessionsInv

LEMMA UsersSame ==
    ASSUME UsersInv, UNCHANGED accountTables
    PROVE  UsersInv'
  BY DEF UsersInv, UsersTyped, Identified, accountTables

LEMMA EvidenceSame ==
    ASSUME EvidenceInv, UNCHANGED <<events, outbox, made>>, Living' = Living
    PROVE  EvidenceInv'
<1>1. Recorded' = Recorded  BY DEF Recorded
<1> QED  BY <1>1 DEF EvidenceInv, EvidenceTyped, Receipted

LEMMA WholeSame ==
    ASSUME AccessIsWhole, UNCHANGED accountTables, \A s \in sessions' : s.user \in DOMAIN users
    PROVE  AccessIsWhole'
  BY DEF AccessIsWhole, accountTables, Admins

(* A table of sessions in which each row has the identity and the user it had. *)
LEMMA SameLiving ==
    ASSUME \A s \in sessions' : \E x \in sessions : s.id = x.id /\ s.user = x.user,
           \A x \in sessions : \E s \in sessions' : s.id = x.id
    PROVE  /\ Living' = Living
           /\ AccessIsWhole => \A s \in sessions' : s.user \in DOMAIN users
<1>1. Living' = {s.id : s \in sessions'}  BY DEF Living
<1>2. \A s \in sessions' : s.id \in Living  BY DEF Living
<1>3. \A x \in sessions : x.id \in Living'  BY <1>1
<1> QED  BY <1>1, <1>2, <1>3 DEF Living, AccessIsWhole

LEMMA RemovesOK ==
    ASSUME SessionsInv, EvidenceInv, AccessIsWhole, NEW chosen, chosen \subseteq SessionType, Removes(chosen),
           \A s \in chosen : \E x \in sessions : x.id = s.id, UNCHANGED <<issued, made, heirs, events, accountTables>>
    PROVE  SessionsInv' /\ EvidenceInv' /\ AccessIsWhole'
<1> DEFINE ids == {s.id : s \in chosen}
<1>1. sessions' \subseteq sessions  BY DEF Removes
<1>2. SessionsInv'  BY <1>1, SessionsFewer
<1>3. AccessIsWhole'  BY <1>1, WholeSame DEF AccessIsWhole
<1>4. ids \subseteq Living  BY DEF Living
<1>5. Living' = Living \ ids  BY DEF Living, Removes
<1>6. outbox' = outbox \cup {[event |-> <<"ended", s.id>>, attempts |-> 0] : s \in chosen}
  BY DEF Removes, Enqueue, Ended
<1>7. \A s \in chosen : s.id \in Nat /\ <<"ended", s.id>> \in EventType /\ s.id \in (1..made) /\ <<"ended", s.id>> \notin Recorded
  <2> SUFFICES ASSUME NEW s \in chosen
               PROVE  s.id \in Nat /\ <<"ended", s.id>> \in EventType /\ s.id \in (1..made) /\ <<"ended", s.id>> \notin Recorded
    OBVIOUS
  <2>1. s.id \in Nat  BY DEF SessionType
  <2>2. s.id \in Living  BY <1>4
  <2>3. s.id \in 1..made  BY DEF SessionsInv, Numbered
  <2>4. <<"ended", s.id>> \notin Recorded  BY <2>2 DEF EvidenceInv, Receipted
  <2> QED  BY <2>1, <2>3, <2>4 DEF EventType
<1>8. EvidenceTyped'  BY <1>6, <1>7 DEF EvidenceInv, EvidenceTyped, Envelope
<1>9. Recorded' = Recorded \cup {<<"ended", i>> : i \in ids}
  <2>1. ASSUME NEW s \in chosen  PROVE \E x \in outbox' : x.event = <<"ended", s.id>>
    <3>1. [event |-> <<"ended", s.id>>, attempts |-> 0] \in outbox'  BY <1>6
    <3>2. [event |-> <<"ended", s.id>>, attempts |-> 0].event = <<"ended", s.id>>  OBVIOUS
    <3> QED  BY <3>1, <3>2
  <2>2. \A x \in outbox' : x \in outbox \/ \E s \in chosen : x.event = <<"ended", s.id>>  BY <1>6
  <2>3. outbox \subseteq outbox'  BY <1>6
  <2>4. \A e \in Recorded' : e \in Recorded \cup {<<"ended", i>> : i \in ids}  BY <2>2 DEF Recorded
  <2>5. \A e \in Recorded : e \in Recorded'  BY <2>3 DEF Recorded
  <2>6. \A i \in ids : <<"ended", i>> \in Recorded'  BY <2>1 DEF Recorded
  <2> QED  BY <2>4, <2>5, <2>6
<1>10. \A x, y \in outbox' : x.event[1] = "ended" /\ x.event = y.event => x = y
  <2> SUFFICES ASSUME NEW x \in outbox', NEW y \in outbox', x.event[1] = "ended", x.event = y.event  PROVE x = y
    OBVIOUS
  <2>1. CASE x \in outbox /\ y \in outbox  BY <2>1 DEF EvidenceInv, Receipted
  <2>2. \A z \in outbox : z.event \in Recorded  BY DEF Recorded
  <2>3. \A z \in outbox' \ outbox : \E s \in chosen : z = [event |-> <<"ended", s.id>>, attempts |-> 0]  BY <1>6
  <2>4. CASE x \in outbox /\ y \notin outbox  BY <2>2, <2>3, <2>4, <1>7
  <2>5. CASE x \notin outbox /\ y \in outbox  BY <2>2, <2>3, <2>5, <1>7
  <2>6. CASE x \notin outbox /\ y \notin outbox  BY <2>3, <2>6
  <2> QED  BY <2>1, <2>4, <2>5, <2>6
<1>11. \A x \in outbox' : x.event[1] = "ended" => x.event \notin events
  BY <1>6, <1>7 DEF EvidenceInv, Receipted, Recorded
<1>12. \A e \in Recorded' : e[1] = "ended" => e[2] \in (1..made) \ Living'
  <2>1. \A e \in Recorded : e[1] = "ended" => e[2] \in (1..made) \ Living'  BY <1>5 DEF EvidenceInv, Receipted
  <2>2. \A i \in ids : i \in (1..made) \ Living'  BY <1>5, <1>7
  <2> QED  BY <2>1, <2>2, <1>9
<1>13. \A id \in (1..made) \ Living' : <<"ended", id>> \in Recorded'
  BY <1>5, <1>9 DEF EvidenceInv, Receipted
<1>14. Receipted'
  BY <1>10, <1>11, <1>12, <1>13 DEF Receipted
<1> QED  BY <1>2, <1>3, <1>8, <1>14 DEF EvidenceInv

LEMMA TablesSame ==
    ASSUME Tables, UNCHANGED <<sessionTables, accountTables, outbox, events>>
    PROVE  Tables'
<1>1. SessionsInv'  BY SessionsFewer DEF Tables, sessionTables
<1>2. UsersInv'  BY UsersSame DEF Tables
<1>3. Living' = Living  BY DEF Living, sessionTables
<1>4. EvidenceInv'  BY <1>3, EvidenceSame DEF Tables, sessionTables
<1>5. AccessIsWhole'  BY WholeSame DEF Tables, sessionTables, AccessIsWhole
<1> QED  BY <1>1, <1>2, <1>4, <1>5 DEF Tables

(* An event other than the end of a session.                               *)
LEMMA EventAdded ==
    ASSUME EvidenceInv, NEW e \in EventType, e[1] # "ended", events' = events \cup {e},
           UNCHANGED <<outbox, made>>, Living' = Living
    PROVE  EvidenceInv'
<1>1. Recorded' = Recorded \cup {e}  BY DEF Recorded
<1>2. EvidenceTyped'  BY DEF EvidenceInv, EvidenceTyped
<1>3. Receipted'  BY <1>1 DEF EvidenceInv, Receipted
<1> QED  BY <1>2, <1>3 DEF EvidenceInv

LEMMA RotateOK ==
    ASSUME IInv, NEW r \in Requests, Rotate(r)
    PROVE  Tables'
<1> DEFINE q == req[r]
           new == issued + 1
           commit == /\ MayRotate(q)
                     /\ sessions' = (sessions \ {x \in sessions : x.id = q.session.id})
                                      \cup {Rotated(x, new) : x \in {y \in sessions : y.id = q.session.id}}
                     /\ issued' = new /\ heirs' = heirs \cup {<<q.token, new>>}
                     /\ events' = events \cup {<<"rotate", q.serial>>}
<1>0. UNCHANGED <<made, outbox, accountTables>>  BY DEF Rotate, accounts, accountTables
<1>1. CASE UNCHANGED <<sessions, issued, heirs, events>>
  BY <1>0, <1>1, TablesSame DEF IInv, sessionTables
<1>2. CASE commit
  <2>1. q \in RefreshType  BY ByKind DEF IInv, RequestsOK, Rotate, At
  <2>2. PICK s \in sessions : Snapshot(s) = Snapshot(q.session)  BY <1>2 DEF MayRotate
  <2>3. s.id = q.session.id /\ s.cur = q.token /\ s \in SessionType
    BY <1>2, <2>2 DEF Snapshot, MayRotate, IInv, Tables, SessionsInv, SessionsTyped
  <2>4. {x \in sessions : x.id = q.session.id} = {s}
    BY <2>3 DEF IInv, Tables, SessionsInv, Numbered
  <2> DEFINE t == Rotated(s, new)
  <2>5. sessions' = (sessions \ {s}) \cup {t}
    <3>1. {Rotated(x, new) : x \in {s}} = {t}  OBVIOUS
    <3> QED  BY <1>2, <2>4, <3>1
  <2>6. issued \in Nat /\ new \in Nat  BY DEF IInv, Tables, SessionsInv, SessionsTyped
  <2>7. /\ t \in SessionType /\ t.id = s.id /\ t.user = s.user
        /\ t.cur = new /\ t.prev = s.cur
    BY <2>3, <2>6 DEF Rotated, SessionType
  <2> HIDE DEF t
  <2>8. SessionsTyped'
    BY <1>0, <1>2, <2>1, <2>5, <2>6, <2>7 DEF IInv, Tables, SessionsInv, SessionsTyped, RefreshType
  <2>9. s.id \in 1..made /\ s.cur \in 1..issued  BY DEF IInv, Tables, SessionsInv, Numbered
  <2>10. Numbered'
    <3>1. \A x \in sessions' : x.id \in 1..made' /\ x.cur \in 1..issued' /\ x.prev \in 0..issued'
      BY <1>0, <1>2, <2>5, <2>6, <2>7, <2>9 DEF IInv, Tables, SessionsInv, Numbered
    <3>2. \A x \in heirs' : x[1] \in 1..issued'
      BY <1>2, <2>3, <2>6, <2>9 DEF IInv, Tables, SessionsInv, Numbered
    <3>3. \A x, y \in sessions' : x.id = y.id => x = y
      BY <2>5, <2>7 DEF IInv, Tables, SessionsInv, Numbered
    <3>4. \A x \in sessions \ {s} : x.cur # s.cur
      BY DEF IInv, Tables, SessionsInv, Numbered, OneHeir
    <3>5. \A x \in sessions', y \in heirs' : x.cur # y[1]
      BY <1>2, <2>3, <2>5, <2>6, <2>7, <2>9, <3>4 DEF IInv, Tables, SessionsInv, Numbered
    <3> QED  BY <3>1, <3>2, <3>3, <3>5 DEF Numbered
  <2>11. OneHeir'
    <3>1. \A x \in heirs : x[1] # q.token  BY <2>3 DEF IInv, Tables, SessionsInv, Numbered
    <3>2. \A x, y \in heirs' : x[1] = y[1] => x = y
      BY <1>2, <3>1 DEF IInv, Tables, SessionsInv, OneHeir
    <3>3. \A x \in sessions : x.cur # new /\ x.prev # new
      BY <2>6 DEF IInv, Tables, SessionsInv, Numbered
    <3>4. \A x, y \in sessions' : x.cur \in {y.cur, y.prev} => x.id = y.id
      BY <2>5, <2>7, <2>9, <2>6, <3>3 DEF IInv, Tables, SessionsInv, OneHeir
    <3> QED  BY <3>2, <3>4 DEF OneHeir
  <2>12. SessionsInv'  BY <2>8, <2>10, <2>11 DEF SessionsInv
  <2>13. Living' = Living /\ \A x \in sessions' : x.user \in DOMAIN users
    BY <2>5, <2>7, SameLiving DEF IInv, Tables
  <2>14. UsersInv' /\ AccessIsWhole'  BY <1>0, <2>13, UsersSame, WholeSame DEF IInv, Tables
  <2>15. <<"rotate", q.serial>> \in EventType /\ <<"rotate", q.serial>>[1] # "ended"
    BY <2>1 DEF EventType, RefreshType
  <2>16. EvidenceInv'  BY <1>0, <1>2, <2>13, <2>15, EventAdded DEF IInv, Tables
  <2> QED  BY <2>12, <2>14, <2>16 DEF Tables
<1> QED  BY <1>1, <1>2 DEF Rotate

LEMMA GraceOK ==
    ASSUME IInv, NEW r \in Requests, Grace(r)
    PROVE  Tables'
<1> DEFINE e == <<"grace", req[r].serial>>
<1>0. UNCHANGED <<sessionTables, accountTables, outbox>>  BY DEF Grace, accounts, accountTables, sessionTables
<1>1. CASE UNCHANGED events
  BY <1>0, <1>1, TablesSame DEF IInv
<1>2. CASE events' = events \cup {e}
  <2>1. req[r] \in RefreshType  BY ByKind DEF IInv, RequestsOK, Grace, At
  <2>2. e \in EventType /\ e[1] # "ended"  BY <2>1 DEF EventType, RefreshType
  <2>3. Living' = Living  BY <1>0 DEF Living, sessionTables
  <2>4. EvidenceInv'  BY <1>0, <1>2, <2>2, <2>3, EventAdded DEF IInv, Tables, sessionTables
  <2>5. SessionsInv'  BY <1>0, SessionsFewer DEF IInv, Tables, sessionTables
  <2>6. UsersInv' /\ AccessIsWhole'  BY <1>0, UsersSame, WholeSame DEF IInv, Tables, AccessIsWhole, sessionTables
  <2> QED  BY <2>4, <2>5, <2>6 DEF Tables
<1> QED  BY <1>1, <1>2 DEF Grace

LEMMA RemovalOK ==
    ASSUME IInv, NEW r \in Requests, Logout(r) \/ Cap(r) \/ Expire(r)
    PROVE  Tables'
<1> DEFINE chosen == req[r].chosen
<1>0. UNCHANGED <<issued, made, heirs, events, accountTables>>
  BY DEF Logout, Cap, Expire, accounts, accountTables
<1>1. chosen \subseteq SessionType
  BY ByKind DEF IInv, RequestsOK, Logout, Cap, Expire, At, LogoutOK, HygieneOK
<1>2. \/ UNCHANGED <<sessions, outbox>>
      \/ Removes(chosen) /\ \A s \in chosen : \E x \in sessions : x.id = s.id
  <2>1. MayLogout(req[r]) => \A s \in chosen : \E x \in sessions : x.id = s.id  BY DEF MayLogout
  <2>2. ASSUME NEW among, among \subseteq sessions, Unchanged(req[r], among)
        PROVE  \A s \in chosen : \E x \in sessions : x.id = s.id
    BY <2>2 DEF Unchanged, Snapshot
  <2>3. Over \subseteq sessions /\ \A u : Excess(u) \subseteq sessions  BY DEF Over, Excess
  <2> QED  BY <2>1, <2>2, <2>3 DEF Logout, Cap, Expire
<1>3. CASE UNCHANGED <<sessions, outbox>>
  BY <1>0, <1>3, TablesSame DEF IInv, sessionTables
<1>4. CASE Removes(chosen) /\ \A s \in chosen : \E x \in sessions : x.id = s.id
  <2>1. SessionsInv' /\ EvidenceInv' /\ AccessIsWhole'
    BY <1>0, <1>1, <1>4, RemovesOK DEF IInv, Tables
  <2>2. UsersInv'  BY <1>0, UsersSame DEF IInv, Tables
  <2> QED  BY <2>1, <2>2 DEF Tables
<1> QED  BY <1>2, <1>3, <1>4

LEMMA DeliverOK ==
    ASSUME IInv, NEW r \in Requests, DeliverOne(r)
    PROVE  Tables'
<1>0. UNCHANGED <<sessionTables, accountTables>>  BY DEF DeliverOne, accounts, accountTables, sessionTables
<1>1. PICK item \in req[r].items : Delivered(item) \/ UNCHANGED <<events, outbox>>
  BY DEF DeliverOne
<1>2. CASE UNCHANGED <<events, outbox>>
  BY <1>0, <1>2, TablesSame DEF IInv
<1>3. CASE Delivered(item)
  <2>1. DrainOK(req[r])  BY ByKind DEF DeliverOne, At, IInv, RequestsOK
  <2>2. item \in Envelope /\ item.event \in Recorded
    BY <2>1 DEF IInv, Carried, TakenUp, DeliverOne, At, DrainOK
  <2>3. EvidenceTyped'  BY <1>3, <2>2 DEF Delivered, IInv, Tables, EvidenceInv, EvidenceTyped, Envelope
  <2>4. Recorded' = Recorded
    <3>1. \A e \in Recorded : e \in Recorded'  BY <1>3 DEF Recorded, Delivered
    <3>2. \A e \in Recorded' : e \in Recorded  BY <1>3, <2>2 DEF Recorded, Delivered
    <3> QED  BY <3>1, <3>2
  <2>5. Living' = Living /\ made' = made  BY <1>0 DEF Living, sessionTables
  <2>6. Receipted'
    BY <1>3, <2>4, <2>5 DEF Delivered, IInv, Tables, EvidenceInv, Receipted
  <2>7. SessionsInv' /\ UsersInv' /\ AccessIsWhole'
    BY <1>0, SessionsFewer, UsersSame, WholeSame DEF IInv, Tables, AccessIsWhole, sessionTables
  <2> QED  BY <2>3, <2>6, <2>7 DEF Tables, EvidenceInv
<1> QED  BY <1>1, <1>2, <1>3

LEMMA CountOK ==
    ASSUME IInv, NEW r \in Requests, CountFailure(r)
    PROVE  Tables'
<1>0. UNCHANGED <<sessionTables, accountTables, events>>  BY DEF CountFailure, accounts, accountTables, sessionTables
<1>1. PICK failed \in req[r].own : outbox' = {IF x = failed THEN [x EXCEPT !.attempts = @ + 1] ELSE x : x \in outbox}
  BY DEF CountFailure, Counted
<1> DEFINE counted(x) == IF x = failed THEN [x EXCEPT !.attempts = @ + 1] ELSE x
<1>2. \A x \in outbox : counted(x) \in Envelope /\ counted(x).event = x.event
  BY DEF IInv, Tables, EvidenceInv, EvidenceTyped, Envelope
<1>3. outbox' = {counted(x) : x \in outbox}  BY <1>1
<1> HIDE DEF counted
<1>4. EvidenceTyped'  BY <1>0, <1>2, <1>3 DEF IInv, Tables, EvidenceInv, EvidenceTyped
<1>5. Recorded' = Recorded
  <2>1. \A e \in Recorded : e \in Recorded'  BY <1>0, <1>2, <1>3 DEF Recorded
  <2>2. \A e \in Recorded' : e \in Recorded  BY <1>0, <1>2, <1>3 DEF Recorded
  <2> QED  BY <2>1, <2>2
<1>6. Living' = Living /\ made' = made  BY <1>0 DEF Living, sessionTables
<1>7. Receipted'
  <2>1. \A x \in outbox' : \E y \in outbox : x = counted(y) /\ x.event = y.event  BY <1>2, <1>3
  <2>2. \A x \in outbox' : x.event[1] = "ended" => x.event \notin events'
    BY <2>1, <1>0 DEF IInv, Tables, EvidenceInv, Receipted
  <2>3. \A x, y \in outbox' : x.event[1] = "ended" /\ x.event = y.event => x = y
    BY <2>1 DEF IInv, Tables, EvidenceInv, Receipted
  <2> QED  BY <2>2, <2>3, <1>5, <1>6 DEF IInv, Tables, EvidenceInv, Receipted
<1>8. SessionsInv' /\ UsersInv' /\ AccessIsWhole'
  BY <1>0, SessionsFewer, UsersSame, WholeSame DEF IInv, Tables, AccessIsWhole, sessionTables
<1> QED  BY <1>4, <1>7, <1>8 DEF Tables, EvidenceInv

(* Steps that change accounts only.                                        *)
LEMMA SessionsAndEvidenceSame ==
    ASSUME IInv, UNCHANGED <<sessionTables, events, outbox>>
    PROVE  SessionsInv' /\ EvidenceInv'
<1>1. Living' = Living  BY DEF Living, sessionTables
<1> QED  BY <1>1, SessionsFewer, EvidenceSame DEF IInv, Tables, sessionTables

LEMMA ChangeRolesOK ==
    ASSUME IInv, NEW r \in Requests, ChangeRoles(r)
    PROVE  Tables'
<1> DEFINE q == req[r]
           c == q.change
<1>0. UNCHANGED <<sessionTables, outbox, events, identities, managed, grants, reused, born>>
  BY DEF ChangeRoles, Commit, accounts, sessionTables
<1>1. CASE UNCHANGED users
  BY <1>0, <1>1, TablesSame DEF IInv, accountTables
<1>2. CASE MayChangeRoles(q) /\ users' = [users EXCEPT ![c.user].roles = c.next]
  <2>1. q.kind = "roles of user" /\ q.pc = "commit"  BY DEF ChangeRoles, Commit, At
  <2>2. ChangeOK(q)  BY <2>1, ByKind DEF IInv, RequestsOK, Changes
  <2>3. RolesDecided(q, c)  BY <2>1, <2>2 DEF ChangeOK, AuthorityType, Decided
  <2>4. c.user \in DOMAIN users /\ users[c.user].roles = c.was /\ q.managed = managed
    BY <1>2 DEF MayChangeRoles, Same, Guard
  <2>5. c.next \cap Customs \subseteq managed \cup reused
    BY <2>1, <2>4 DEF IInv, Carried, CatalogueKnown, Changes
  <2>6. /\ DOMAIN users' = DOMAIN users
        /\ \A u \in DOMAIN users : /\ users'[u].primary = users[u].primary
                                   /\ users'[u].roles = IF u = c.user THEN c.next ELSE users[u].roles
    BY <1>2 DEF IInv, Tables, UsersInv, UsersTyped, UserType
  <2>7. UsersTyped'
    <3>1. users' \in [DOMAIN users -> UserType]
      BY <1>2, <2>3 DEF RolesDecided, IInv, Tables, UsersInv, UsersTyped, UserType
    <3> QED  BY <1>0, <2>6, <3>1 DEF IInv, Tables, UsersInv, UsersTyped
  <2>8. Identified'  BY <1>0, <2>6 DEF IInv, Tables, UsersInv, Identified
  <2>9. AccessIsWhole'
    <3>1. Admins' # {}
      <4>1. CASE LosesAdmin(c.was, c.next)
        BY <1>2, <2>6, <4>1 DEF MayChangeRoles, OtherAdmin, Admins
      <4>2. CASE ~LosesAdmin(c.was, c.next)
        BY <2>4, <2>6, <4>2 DEF IInv, Tables, AccessIsWhole, LosesAdmin, Admins
      <4> QED  BY <4>1, <4>2
    <3>2. \A u \in DOMAIN users' : users'[u].roles \cap Customs \subseteq managed \cup reused
      BY <2>5, <2>6 DEF IInv, Tables, AccessIsWhole
    <3> QED  BY <1>0, <2>6, <3>1, <3>2 DEF IInv, Tables, AccessIsWhole, sessionTables
  <2>10. SessionsInv' /\ EvidenceInv'  BY <1>0, SessionsAndEvidenceSame
  <2> QED  BY <2>7, <2>8, <2>9, <2>10 DEF Tables, UsersInv
<1> QED  BY <1>1, <1>2 DEF ChangeRoles, Commit, accounts

LEMMA DeleteUserOK ==
    ASSUME IInv, NEW r \in Requests, DeleteUser(r)
    PROVE  Tables'
<1> DEFINE q == req[r]
           c == q.change
           u == c.user
<1>0. UNCHANGED <<issued, made, heirs, outbox, born>>
  BY DEF DeleteUser, Commit
<1>1. CASE UNCHANGED <<accounts, sessions, events>>
  BY <1>0, <1>1, TablesSame DEF IInv, accounts, accountTables, sessionTables
<1>2. CASE /\ MayDelete(q)
           /\ users' = [x \in DOMAIN users \ {u} |-> users[x]]
           /\ identities' = [i \in {j \in DOMAIN identities : identities[j] # u} |-> identities[i]]
           /\ sessions' = {s \in sessions : s.user # u}
           /\ events' = events \cup {<<"ended", id>> : id \in c.ids}
           /\ UNCHANGED <<managed, grants, reused>>
  <2>1. u \in DOMAIN users /\ users[u].roles = c.was /\ SessionsOf(u) = c.ids
    BY <1>2 DEF MayDelete, Same
  <2>2. /\ DOMAIN users' = DOMAIN users \ {u}
        /\ \A x \in DOMAIN users' : users'[x] = users[x]
        /\ DOMAIN identities' = {j \in DOMAIN identities : identities[j] # u}
        /\ \A i \in DOMAIN identities' : identities'[i] = identities[i]
    BY <1>2
  <2>3. UsersTyped'
    <3>1. users' \in [DOMAIN users' -> UserType]  BY <1>2, <2>2 DEF IInv, Tables, UsersInv, UsersTyped
    <3>2. identities' \in [DOMAIN identities' -> Nat]  BY <1>2, <2>2 DEF IInv, Tables, UsersInv, UsersTyped
    <3> QED  BY <1>0, <1>2, <2>2, <3>1, <3>2 DEF IInv, Tables, UsersInv, UsersTyped
  <2>4. Identified'  BY <2>2 DEF IInv, Tables, UsersInv, Identified
  <2>5. SessionsInv'  BY <1>0, <1>2, SessionsFewer DEF IInv, Tables
  <2>6. Living' = Living \ c.ids /\ c.ids \subseteq Living
    BY <1>2, <2>1 DEF Living, SessionsOf, IInv, Tables, SessionsInv, Numbered
  <2>7. c.ids \subseteq 1..made  BY <2>1 DEF SessionsOf, IInv, Tables, SessionsInv, Numbered
  <2>8. Recorded' = Recorded \cup {<<"ended", id>> : id \in c.ids}  BY <1>0, <1>2 DEF Recorded
  <2>9. made \in Nat /\ made' = made  BY <1>0 DEF IInv, Tables, SessionsInv, SessionsTyped
  <2>10. EvidenceTyped'
    <3>1. c.ids \subseteq Nat  BY <2>7, <2>9
    <3> QED  BY <1>0, <1>2, <3>1 DEF IInv, Tables, EvidenceInv, EvidenceTyped, EventType
  <2>11. Receipted'
    <3>1. \A id \in c.ids : <<"ended", id>> \notin Recorded
      BY <2>6 DEF IInv, Tables, EvidenceInv, Receipted
    <3>2. \A e \in Recorded' : e[1] = "ended" => e[2] \in (1..made) \ Living'
      BY <2>6, <2>7, <2>8 DEF IInv, Tables, EvidenceInv, Receipted
    <3>3. \A id \in (1..made) \ Living' : <<"ended", id>> \in Recorded'
      BY <2>6, <2>8 DEF IInv, Tables, EvidenceInv, Receipted
    <3>4. \A x \in outbox : x.event[1] = "ended" => x.event \notin events'
      BY <1>2, <3>1 DEF IInv, Tables, EvidenceInv, Receipted, Recorded
    <3> QED  BY <1>0, <2>9, <3>2, <3>3, <3>4 DEF IInv, Tables, EvidenceInv, Receipted
  <2>12. AccessIsWhole'
    <3>1. Admins' # {}
      <4>1. CASE "admin" \in c.was
        BY <1>2, <2>2, <4>1 DEF MayDelete, OtherAdmin, Admins
      <4>2. CASE "admin" \notin c.was
        BY <2>1, <2>2, <4>2 DEF IInv, Tables, AccessIsWhole, Admins
      <4> QED  BY <4>1, <4>2
    <3>2. \A s \in sessions' : s.user \in DOMAIN users'  BY <1>2, <2>2 DEF IInv, Tables, AccessIsWhole
    <3>3. \A i \in DOMAIN identities' : identities'[i] \in DOMAIN users'  BY <2>2 DEF IInv, Tables, AccessIsWhole
    <3>4. \A x \in DOMAIN users' : users'[x].roles \cap Customs \subseteq managed' \cup reused'
      BY <1>2, <2>2 DEF IInv, Tables, AccessIsWhole
    <3> QED  BY <1>2, <3>1, <3>2, <3>3, <3>4 DEF IInv, Tables, AccessIsWhole
  <2> QED  BY <2>3, <2>4, <2>5, <2>10, <2>11, <2>12 DEF Tables, UsersInv, EvidenceInv
<1> QED  BY <1>1, <1>2 DEF DeleteUser, Commit

LEMMA SaveGrantsOK ==
    ASSUME IInv, NEW r \in Requests, SaveRolePermissions(r)
    PROVE  Tables'
<1> DEFINE q == req[r]
           c == q.change
<1>0. UNCHANGED <<sessionTables, outbox, events, users, identities, reused, born>>
  BY DEF SaveRolePermissions, Commit, accounts, sessionTables
<1>1. CASE UNCHANGED <<managed, grants>>
  BY <1>0, <1>1, TablesSame DEF IInv, accountTables
<1>2. CASE /\ MaySave(q)
           /\ managed' = managed \cup {c.role}
           /\ grants' = {g \in grants : g[1] # c.role} \cup {<<c.role, p>> : p \in c.next}
  <2>1. q.kind = "grants" /\ q.pc = "commit"  BY DEF SaveRolePermissions, Commit, At
  <2>2. ChangeOK(q)  BY <2>1, ByKind DEF IInv, RequestsOK, Changes
  <2>3. GrantsDecided(q, c)  BY <2>1, <2>2 DEF ChangeOK, AuthorityType, Decided
  <2>4. UsersTyped'
    <3>1. c.role \in RoleNames /\ c.next \subseteq Permissions  BY <2>3 DEF GrantsDecided, RoleNames, Builtins
    <3> QED  BY <1>0, <1>2, <3>1 DEF IInv, Tables, UsersInv, UsersTyped
  <2>5. Identified'  BY <1>0 DEF IInv, Tables, UsersInv, Identified
  <2>6. AccessIsWhole'
    BY <1>0, <1>2 DEF IInv, Tables, AccessIsWhole, Admins, sessionTables
  <2>7. SessionsInv' /\ EvidenceInv'  BY <1>0, SessionsAndEvidenceSame
  <2> QED  BY <2>4, <2>5, <2>6, <2>7 DEF Tables, UsersInv
<1> QED  BY <1>1, <1>2 DEF SaveRolePermissions, Commit, accounts

LEMMA NewRoleOK ==
    ASSUME IInv, NEW r \in Requests, CreateCustomRole(r)
    PROVE  Tables'
<1> DEFINE q == req[r]
           c == q.change
<1>0. UNCHANGED <<sessionTables, outbox, events, users, identities, grants, born>>
  BY DEF CreateCustomRole, Commit, accounts, sessionTables
<1>1. CASE UNCHANGED <<managed, reused>>
  BY <1>0, <1>1, TablesSame DEF IInv, accountTables
<1>2. CASE managed' = managed \cup {c.role} /\ reused' = reused \cup {c.role}
  <2>1. q.kind = "new role" /\ q.pc = "commit"  BY DEF CreateCustomRole, Commit, At
  <2>2. ChangeOK(q)  BY <2>1, ByKind DEF IInv, RequestsOK, Changes
  <2>3. c.role \in Customs  BY <2>1, <2>2 DEF ChangeOK, AuthorityType, Decided, NameDecided
  <2>4. UsersTyped'  BY <1>0, <1>2, <2>3 DEF IInv, Tables, UsersInv, UsersTyped, RoleNames
  <2>5. Identified'  BY <1>0 DEF IInv, Tables, UsersInv, Identified
  <2>6. AccessIsWhole'
    BY <1>0, <1>2 DEF IInv, Tables, AccessIsWhole, Admins, sessionTables
  <2>7. SessionsInv' /\ EvidenceInv'  BY <1>0, SessionsAndEvidenceSame
  <2> QED  BY <2>4, <2>5, <2>6, <2>7 DEF Tables, UsersInv
<1> QED  BY <1>1, <1>2 DEF CreateCustomRole, Commit, accounts

LEMMA DeleteRoleOK ==
    ASSUME IInv, NEW r \in Requests, DeleteCustomRole(r)
    PROVE  Tables'
<1> DEFINE q == req[r]
           role == q.change.role
<1>0. UNCHANGED <<sessionTables, outbox, events, identities, reused, born>>
  BY DEF DeleteCustomRole, Commit, accounts, sessionTables
<1>1. CASE UNCHANGED <<users, managed, grants>>
  BY <1>0, <1>1, TablesSame DEF IInv, accountTables
<1>2. CASE /\ users' = [u \in DOMAIN users |-> [users[u] EXCEPT !.roles = @ \ {role}]]
           /\ grants' = {g \in grants : g[1] # role} /\ managed' = managed \ {role}
  <2>1. q.kind = "delete role" /\ q.pc = "commit"  BY DEF DeleteCustomRole, Commit, At
  <2>2. ChangeOK(q)  BY <2>1, ByKind DEF IInv, RequestsOK, Changes
  <2>3. role \in Customs  BY <2>1, <2>2 DEF ChangeOK, AuthorityType, Decided, NameDecided
  <2>4. role # "admin"  BY <2>3, AccountsAssumption DEF Builtins
  <2>5. /\ DOMAIN users' = DOMAIN users
        /\ \A u \in DOMAIN users : /\ users'[u].primary = users[u].primary
                                   /\ users'[u].roles = users[u].roles \ {role}
                                   /\ users'[u] \in UserType
    BY <1>2 DEF IInv, Tables, UsersInv, UsersTyped, UserType
  <2>6. UsersTyped'
    <3>1. users' \in [DOMAIN users' -> UserType]  BY <1>2, <2>5
    <3> QED  BY <1>0, <1>2, <2>5, <3>1 DEF IInv, Tables, UsersInv, UsersTyped
  <2>7. Identified'  BY <1>0, <2>5 DEF IInv, Tables, UsersInv, Identified
  <2>8. AccessIsWhole'
    <3>1. Admins' # {}  BY <2>4, <2>5 DEF IInv, Tables, AccessIsWhole, Admins
    <3>2. \A u \in DOMAIN users' : users'[u].roles \cap Customs \subseteq managed' \cup reused'
      BY <1>0, <1>2, <2>5 DEF IInv, Tables, AccessIsWhole
    <3>3. \A g \in grants' : g[1] \in managed'  BY <1>2 DEF IInv, Tables, AccessIsWhole
    <3> QED  BY <1>0, <2>5, <3>1, <3>2, <3>3 DEF IInv, Tables, AccessIsWhole, sessionTables
  <2>9. SessionsInv' /\ EvidenceInv'  BY <1>0, SessionsAndEvidenceSame
  <2> QED  BY <2>6, <2>7, <2>8, <2>9 DEF Tables, UsersInv
<1> QED  BY <1>1, <1>2 DEF DeleteCustomRole, Commit, accounts

LEMMA RegisterOK ==
    ASSUME IInv, NEW r \in Requests, Register(r)
    PROVE  Tables'
<1> DEFINE i == req[r].identity
           u == born + 1
<1>0. UNCHANGED <<sessionTables, outbox, events, managed, grants, reused>>
  BY DEF Register, OnCallback, sessionTables
<1>1. CASE UNCHANGED <<users, identities, born>>
  BY <1>0, <1>1, TablesSame DEF IInv, accountTables
<1>2. CASE /\ MayRegister(i) /\ born' = u /\ identities' = Bound(identities, i, u)
           /\ users' = Bound(users, u, [roles |-> {}, primary |-> i])
  <2>1. i \in Providers  BY ByKind DEF IInv, RequestsOK, Register, OnCallback, At, CallbackType
  <2>2. born \in Nat /\ u \notin DOMAIN users  BY DEF IInv, Tables, UsersInv, UsersTyped
  <2>3. /\ DOMAIN users' = DOMAIN users \cup {u} /\ DOMAIN identities' = DOMAIN identities \cup {i}
        /\ users'[u] = [roles |-> {}, primary |-> i] /\ \A x \in DOMAIN users : users'[x] = users[x]
        /\ identities'[i] = u /\ \A j \in DOMAIN identities \ {i} : identities'[j] = identities[j]
    BY <1>2, <2>2 DEF Bound
  <2>4. UsersTyped'
    <3>1. [roles |-> {}, primary |-> i] \in UserType  BY <2>1 DEF UserType
    <3>2. users' \in [DOMAIN users' -> UserType]
      BY <1>2, <2>3, <3>1 DEF Bound, IInv, Tables, UsersInv, UsersTyped
    <3>3. identities' \in [DOMAIN identities' -> Nat]
      BY <1>2, <2>2, <2>3 DEF Bound, IInv, Tables, UsersInv, UsersTyped
    <3>6. u \in 1..u /\ \A n \in 1..born : n \in 1..u  BY <2>2
    <3>4. DOMAIN users' \subseteq 1..born' /\ born' \in Nat
      <4>1. DOMAIN users \subseteq 1..born /\ born' = u /\ u \in Nat
        BY <1>2, <2>2 DEF IInv, Tables, UsersInv, UsersTyped
      <4>2. DOMAIN users' = DOMAIN users \cup {u}  BY <2>3
      <4> HIDE DEF u
      <4> QED  BY <4>1, <4>2, <3>6
    <3>5. DOMAIN identities' \subseteq Providers  BY <2>1, <2>3 DEF IInv, Tables, UsersInv, UsersTyped
    <3> QED  BY <1>0, <3>2, <3>3, <3>4, <3>5 DEF IInv, Tables, UsersInv, UsersTyped
  <2>5. i \notin DOMAIN identities /\ \A x \in DOMAIN users : users[x].primary # i
    BY <1>2 DEF MayRegister, PrimaryOf
  <2>6. users'[u].primary = i  BY <2>3
  <2>7. Identified'
    <3>1. \A x \in DOMAIN users' : users'[x].primary \in DOMAIN identities' => identities'[users'[x].primary] = x
      BY <2>3, <2>5, <2>6 DEF IInv, Tables, UsersInv, Identified
    <3>2. \A x, y \in DOMAIN users' : users'[x].primary = users'[y].primary => x = y
      BY <2>3, <2>5, <2>6 DEF IInv, Tables, UsersInv, Identified
    <3> QED  BY <3>1, <3>2 DEF Identified
  <2>8. AccessIsWhole'
    <3>1. Admins' # {}  BY <2>2, <2>3 DEF IInv, Tables, AccessIsWhole, Admins
    <3>2. \A j \in DOMAIN identities' : identities'[j] \in DOMAIN users'  BY <2>3 DEF IInv, Tables, AccessIsWhole
    <3>3. users'[u].roles = {}  BY <2>3
    <3>4. \A x \in DOMAIN users' : users'[x].roles \cap Customs \subseteq managed \cup reused
      BY <2>3, <3>3 DEF IInv, Tables, AccessIsWhole
    <3> QED  BY <1>0, <2>3, <3>1, <3>2, <3>4 DEF IInv, Tables, AccessIsWhole, sessionTables
  <2>9. SessionsInv' /\ EvidenceInv'  BY <1>0, SessionsAndEvidenceSame
  <2> QED  BY <2>4, <2>7, <2>8, <2>9 DEF Tables, UsersInv
<1> QED  BY <1>1, <1>2 DEF Register

LEMMA LinkOK ==
    ASSUME IInv, NEW r \in Requests, LinkOAuthIdentity(r)
    PROVE  Tables'
<1> DEFINE q == req[r]
<1>0. UNCHANGED <<sessionTables, outbox, events, users, managed, grants, reused, born>>
  BY DEF LinkOAuthIdentity, OnCallback, sessionTables
<1>1. CASE UNCHANGED identities
  BY <1>0, <1>1, TablesSame DEF IInv, accountTables
<1>2. CASE MayLink(q) /\ identities' = Bound(identities, q.identity, q.user)
  <2>1. q.identity \in Providers /\ q.user \in Nat
    BY ByKind DEF IInv, RequestsOK, LinkOAuthIdentity, OnCallback, At, CallbackType
  <2>2. q.user \in DOMAIN users /\ PrimaryOf(q.identity) \subseteq {q.user}
    BY <1>2 DEF MayLink, SameAccount, Same
  <2>3. /\ DOMAIN identities' = DOMAIN identities \cup {q.identity} /\ identities'[q.identity] = q.user
        /\ \A j \in DOMAIN identities \ {q.identity} : identities'[j] = identities[j]
    BY <1>2 DEF Bound
  <2>4. UsersTyped'
    <3>1. identities' \in [DOMAIN identities' -> Nat]
      BY <1>2, <2>1, <2>3 DEF Bound, IInv, Tables, UsersInv, UsersTyped
    <3> QED  BY <1>0, <2>1, <2>3, <3>1 DEF IInv, Tables, UsersInv, UsersTyped
  <2>5. Identified'  BY <1>0, <2>2, <2>3 DEF PrimaryOf, IInv, Tables, UsersInv, Identified
  <2>6. AccessIsWhole'  BY <1>0, <2>2, <2>3 DEF IInv, Tables, AccessIsWhole, Admins, sessionTables
  <2>7. SessionsInv' /\ EvidenceInv'  BY <1>0, SessionsAndEvidenceSame
  <2> QED  BY <2>4, <2>5, <2>6, <2>7 DEF Tables, UsersInv
<1> QED  BY <1>1, <1>2 DEF LinkOAuthIdentity

LEMMA SignInOK ==
    ASSUME IInv, NEW r \in Requests, CreateAuthSession(r)
    PROVE  Tables'
<1> DEFINE q == req[r]
           s == [id |-> made + 1, user |-> q.user, cur |-> issued + 1, prev |-> NoToken, grace |-> FALSE, status |-> "live"]
<1>0. UNCHANGED <<accountTables, outbox, events, heirs>>
  BY DEF CreateAuthSession, accounts, accountTables
<1>1. CASE UNCHANGED <<sessions, made, issued>>
  BY <1>0, <1>1, TablesSame DEF IInv, sessionTables
<1>2. CASE MaySignIn(q) /\ sessions' = sessions \cup {s} /\ made' = made + 1 /\ issued' = issued + 1
  <2>1. q.user \in DOMAIN users /\ q.user \in Nat /\ made \in Nat /\ issued \in Nat
    BY <1>2 DEF MaySignIn, Same, IInv, Tables, UsersInv, UsersTyped, SessionsInv, SessionsTyped
  <2>2. /\ s \in SessionType /\ s.id = made + 1 /\ s.user = q.user
        /\ s.cur = issued + 1 /\ s.prev = 0
    BY <2>1 DEF SessionType, NoToken
  <2> HIDE DEF s
  <2>3. SessionsTyped'  BY <1>0, <1>2, <2>1, <2>2 DEF IInv, Tables, SessionsInv, SessionsTyped
  <2>4. \A x \in sessions : x.id # s.id /\ x.cur # s.cur /\ x.prev # s.cur /\ x.cur # s.prev
    BY <2>1, <2>2 DEF IInv, Tables, SessionsInv, Numbered
  <2>5. \A x \in heirs : x[1] # s.cur  BY <2>1, <2>2 DEF IInv, Tables, SessionsInv, Numbered
  <2>6. Numbered'
    <3>1. \A x \in sessions' : x.id \in 1..made' /\ x.cur \in 1..issued' /\ x.prev \in 0..issued'
      BY <1>2, <2>1, <2>2 DEF IInv, Tables, SessionsInv, Numbered
    <3>2. \A x \in heirs' : x[1] \in 1..issued'
      BY <1>0, <1>2, <2>1 DEF IInv, Tables, SessionsInv, Numbered
    <3> QED  BY <1>0, <1>2, <2>4, <2>5, <3>1, <3>2 DEF IInv, Tables, SessionsInv, Numbered
  <2>7. OneHeir'  BY <1>0, <1>2, <2>4 DEF IInv, Tables, SessionsInv, OneHeir
  <2>8. Living' = Living \cup {made + 1}  BY <1>2, <2>2 DEF Living
  <2>9. Recorded' = Recorded  BY <1>0 DEF Recorded
  <2>10. EvidenceInv'
    <3>0. \A n \in 1..made : n \in 1..made' /\ n # made + 1  BY <1>2, <2>1
    <3>1. \A e \in Recorded' : e[1] = "ended" => e[2] \in (1..made') \ Living'
      <4> SUFFICES ASSUME NEW e \in Recorded, e[1] = "ended"  PROVE e[2] \in (1..made') \ Living'
        BY <2>9
      <4>1. e[2] \in (1..made) \ Living  BY DEF IInv, Tables, EvidenceInv, Receipted
      <4> QED  BY <3>0, <4>1, <2>8
    <3>2. \A id \in (1..made') \ Living' : <<"ended", id>> \in Recorded'
      <4>1. \A id \in 1..made' : id # made + 1 => id \in 1..made  BY <1>2, <2>1
      <4>2. \A id \in (1..made) \ Living : <<"ended", id>> \in Recorded  BY DEF IInv, Tables, EvidenceInv, Receipted
      <4> QED  BY <2>8, <2>9, <4>1, <4>2
    <3> QED  BY <1>0, <3>1, <3>2 DEF IInv, Tables, EvidenceInv, Receipted, EvidenceTyped
  <2>11. UsersInv' /\ AccessIsWhole'
    BY <1>0, <1>2, <2>1, <2>2, UsersSame, WholeSame DEF IInv, Tables, AccessIsWhole
  <2> QED  BY <2>3, <2>6, <2>7, <2>10, <2>11 DEF Tables, SessionsInv
<1> QED  BY <1>1, <1>2 DEF CreateAuthSession

LEMMA DisconnectTablesOK ==
    ASSUME IInv, NEW r \in Requests, Disconnect(r)
    PROVE  Tables'
<1> DEFINE q == req[r]
<1>0. UNCHANGED <<sessionTables, events, managed, grants, reused, born>>
  BY DEF Disconnect, sessionTables
<1>1. CASE UNCHANGED <<users, identities, outbox>>
  BY <1>0, <1>1, TablesSame DEF IInv, accountTables
<1>2. CASE MayDisconnect(q) /\ Disconnected(q)
  <2>1. DisconnectOK(q)  BY ByKind DEF IInv, RequestsOK, Disconnect, At
  <2>2. /\ q.user \in DOMAIN users /\ users[q.user].primary = q.primary /\ Own(q.user) = q.own
        /\ q.identity \in DOMAIN identities /\ identities[q.identity] = q.user
    BY <1>2, <2>1 DEF MayDisconnect, SameAccount, Same, DisconnectOK, Own
  <2>3. PICK next \in q.own \ {q.identity} :
          users' = IF q.primary = q.identity THEN [users EXCEPT ![q.user].primary = next] ELSE users
    BY <1>2 DEF Disconnected
  <2>4. next \in DOMAIN identities /\ identities[next] = q.user /\ next \in Providers
    BY <2>2 DEF Own, IInv, Tables, UsersInv, UsersTyped
  <2>5. /\ DOMAIN identities' = DOMAIN identities \ {q.identity}
        /\ \A i \in DOMAIN identities' : identities'[i] = identities[i]
    BY <1>2 DEF Disconnected
  <2>6. /\ DOMAIN users' = DOMAIN users
        /\ \A u \in DOMAIN users : /\ users'[u].roles = users[u].roles
                                   /\ users'[u].primary = IF u = q.user /\ q.primary = q.identity THEN next ELSE users[u].primary
                                   /\ users'[u] \in UserType
    BY <2>3, <2>4 DEF IInv, Tables, UsersInv, UsersTyped, UserType
  <2>7. UsersTyped'
    <3>1. users' \in [DOMAIN users' -> UserType]  BY <2>3, <2>6 DEF IInv, Tables, UsersInv, UsersTyped
    <3>2. identities' \in [DOMAIN identities' -> Nat]  BY <1>2, <2>5 DEF Disconnected, IInv, Tables, UsersInv, UsersTyped
    <3> QED  BY <1>0, <2>5, <2>6, <3>1, <3>2 DEF IInv, Tables, UsersInv, UsersTyped
  <2>8. Identified'
    <3>1. \A u \in DOMAIN users : users[u].primary = next => u = q.user
      BY <2>4 DEF IInv, Tables, UsersInv, Identified
    <3>2. \A u \in DOMAIN users' : users'[u].primary \in DOMAIN identities' => identities'[users'[u].primary] = u
      BY <2>4, <2>5, <2>6 DEF IInv, Tables, UsersInv, Identified
    <3>3. \A u, x \in DOMAIN users' : users'[u].primary = users'[x].primary => u = x
      BY <2>6, <3>1 DEF IInv, Tables, UsersInv, Identified
    <3> QED  BY <3>2, <3>3 DEF Identified
  <2>9. AccessIsWhole'
    <3>1. Admins' = Admins  BY <2>6 DEF Admins
    <3> QED  BY <1>0, <2>5, <2>6, <3>1 DEF IInv, Tables, AccessIsWhole, sessionTables
  <2>10. EvidenceInv'
    <3> DEFINE e == <<"disconnected", q.serial>>
               x == [event |-> e, attempts |-> 0]
    <3>1. x \in Envelope /\ x.event = e /\ e[1] # "ended"
      BY <2>1 DEF Envelope, EventType, DisconnectOK
    <3>2. outbox' = outbox \cup {x}  BY <1>2 DEF Disconnected, Removed
    <3>3. Living' = Living /\ made' = made  BY <1>0 DEF Living, sessionTables
    <3> HIDE DEF x
    <3>4. Recorded' = Recorded \cup {e}
      <4>1. \A y \in Recorded' : y \in Recorded \cup {e}  BY <1>0, <3>1, <3>2 DEF Recorded
      <4>2. \A y \in Recorded \cup {e} : y \in Recorded'  BY <1>0, <3>1, <3>2 DEF Recorded
      <4> QED  BY <4>1, <4>2
    <3>5. EvidenceTyped'  BY <1>0, <3>1, <3>2 DEF IInv, Tables, EvidenceInv, EvidenceTyped
    <3>6. \A y \in outbox' : y.event[1] = "ended" => y \in outbox  BY <3>1, <3>2
    <3>7. \A y \in Recorded' : y[1] = "ended" => y \in Recorded  BY <3>1, <3>4
    <3> HIDE DEF e
    <3>8. Receipted'
      BY <1>0, <3>3, <3>4, <3>6, <3>7 DEF IInv, Tables, EvidenceInv, Receipted
    <3> QED  BY <3>5, <3>8 DEF EvidenceInv
  <2>11. SessionsInv'  BY <1>0, SessionsFewer DEF IInv, Tables, sessionTables
  <2> QED  BY <2>7, <2>8, <2>9, <2>10, <2>11 DEF Tables, UsersInv
<1> QED  BY <1>1, <1>2 DEF Disconnect

LEMMA TimeOK ==
    ASSUME IInv, Time
    PROVE  Tables'
<1>a. PICK s \in sessions :
        \E t : /\ t \in {[s EXCEPT !.status = "idle"], [s EXCEPT !.status = "expired"], [s EXCEPT !.grace = FALSE]}
              /\ Ages(s, t)
  BY DEF Time, GoesIdle, RunsOut, GraceEnds
<1>1. PICK t : /\ t \in {[s EXCEPT !.status = "idle"], [s EXCEPT !.status = "expired"], [s EXCEPT !.grace = FALSE]}
               /\ Ages(s, t)
  BY <1>a
<1>2. t \in SessionType /\ t.id = s.id /\ t.user = s.user /\ t.cur = s.cur /\ t.prev = s.prev
  <2>1. s \in SessionType  BY DEF IInv, Tables, SessionsInv, SessionsTyped
  <2> QED  BY <1>1, <2>1 DEF SessionType
<1>3. sessions' = (sessions \ {s}) \cup {t} /\ UNCHANGED <<accountTables, issued, made, heirs, outbox, events>>
  BY <1>1 DEF Ages, accounts, accountTables
<1>4. SessionsTyped'  BY <1>2, <1>3 DEF IInv, Tables, SessionsInv, SessionsTyped
<1>5. Numbered'  BY <1>2, <1>3 DEF IInv, Tables, SessionsInv, Numbered
<1>6. OneHeir'  BY <1>2, <1>3 DEF IInv, Tables, SessionsInv, OneHeir
<1>7. Living' = Living /\ \A x \in sessions' : x.user \in DOMAIN users
  BY <1>2, <1>3, SameLiving DEF IInv, Tables
<1>8. EvidenceInv' /\ UsersInv' /\ AccessIsWhole'
  BY <1>3, <1>7, EvidenceSame, UsersSame, WholeSame DEF IInv, Tables
<1> QED  BY <1>4, <1>5, <1>6, <1>8 DEF Tables, SessionsInv

LEMMA QuietOK ==
    ASSUME IInv, NEW r \in Requests,
           \/ Start(r) \/ Read(r) \/ StartDrain(r) \/ UpdateOAuthProfile(r) \/ AfterSignIn(r)
           \/ Check(r) \/ AfterRefresh(r) \/ ReadOver(r) \/ SelectOwn(r) \/ EndDrain(r)
    PROVE  Tables' /\ UNCHANGED <<sessionTables, accountTables, outbox, events>>
<1>1. UNCHANGED <<sessionTables, accountTables, outbox, events>>
  <2>1. CASE Start(r)
    BY <2>1 DEF Start, StartRefresh, StartLogout, StartHygiene, StartCallback, StartDisconnect, StartChange,
                accounts, sessionTables, accountTables
  <2>2. CASE Read(r)
    BY <2>2 DEF Read, ReadRoles, ReadDeletion, ReadGrants, ReadNewRole, ReadOldRole, Decide, Refuse,
                accounts, sessionTables, accountTables
  <2>3. CASE UpdateOAuthProfile(r) \/ AfterSignIn(r)
    BY <2>3 DEF UpdateOAuthProfile, OnCallback, AfterSignIn, accounts, sessionTables, accountTables
  <2>4. CASE StartDrain(r) \/ Check(r) \/ AfterRefresh(r) \/ ReadOver(r) \/ SelectOwn(r) \/ EndDrain(r)
    BY <2>4 DEF StartDrain, Check, AfterRefresh, ReadOver, SelectOwn, EndDrain, accounts, sessionTables, accountTables
  <2> QED  BY <2>1, <2>2, <2>3, <2>4
<1> QED  BY <1>1, TablesSame DEF IInv

LEMMA TablesKept ==
    ASSUME IInv, NEW r \in Requests, Start(r) \/ Work(r) \/ StartDrain(r)
    PROVE  Tables'
  BY QuietOK, RotateOK, GraceOK, RemovalOK, DeliverOK, CountOK, ChangeRolesOK, DeleteUserOK, SaveGrantsOK,
     NewRoleOK, DeleteRoleOK, RegisterOK, LinkOK, SignInOK, DisconnectTablesOK
     DEF Work, Act, SessionStep

(* What was recorded stays so, and a custom role comes only of its form.    *)
LEMMA RecordedKept ==
    ASSUME IInv, NEW r \in Requests, Start(r) \/ Work(r) \/ StartDrain(r)
    PROVE  Recorded \subseteq Recorded'
<1>1. ASSUME events \subseteq events', outbox \subseteq outbox'  PROVE Recorded \subseteq Recorded'
  BY <1>1 DEF Recorded
<1>2. CASE \/ Start(r) \/ Read(r) \/ StartDrain(r) \/ UpdateOAuthProfile(r) \/ AfterSignIn(r)
           \/ Check(r) \/ AfterRefresh(r) \/ ReadOver(r) \/ SelectOwn(r) \/ EndDrain(r)
  BY <1>1, <1>2, QuietOK
<1>3. CASE Rotate(r) \/ Grace(r) \/ CreateAuthSession(r)
  BY <1>1, <1>3 DEF Rotate, Grace, CreateAuthSession
<1>4. CASE Logout(r) \/ Cap(r) \/ Expire(r)
  BY <1>1, <1>4 DEF Logout, Cap, Expire, Removes, Enqueue
<1>5. CASE ChangeRoles(r) \/ DeleteUser(r) \/ SaveRolePermissions(r) \/ CreateCustomRole(r) \/ DeleteCustomRole(r)
  BY <1>1, <1>5 DEF ChangeRoles, DeleteUser, SaveRolePermissions, CreateCustomRole, DeleteCustomRole, Commit
<1>6. CASE Register(r) \/ LinkOAuthIdentity(r)
  BY <1>1, <1>6 DEF Register, LinkOAuthIdentity, OnCallback
<1>7. CASE Disconnect(r)
  BY <1>1, <1>7 DEF Disconnect, Disconnected
<1>8. CASE DeliverOne(r)
  <2>1. PICK item \in req[r].items : Delivered(item) \/ UNCHANGED <<events, outbox>>
    BY <1>8 DEF DeliverOne
  <2> QED  BY <1>1, <2>1 DEF Delivered, Recorded
<1>9. CASE CountFailure(r)
  <2>1. PICK failed : outbox' = {IF x = failed THEN [x EXCEPT !.attempts = @ + 1] ELSE x : x \in outbox}
    BY <1>9 DEF CountFailure, Counted
  <2>2. \A x \in outbox : [x EXCEPT !.attempts = @ + 1].event = x.event
    BY DEF IInv, Tables, EvidenceInv, EvidenceTyped, Envelope
  <2>3. \A x \in outbox : \E y \in outbox' : y.event = x.event  BY <2>1, <2>2
  <2> QED  BY <1>9, <2>3 DEF CountFailure, Recorded
<1> QED  BY <1>2, <1>3, <1>4, <1>5, <1>6, <1>7, <1>8, <1>9 DEF Work, Act, SessionStep

LEMMA CatalogueKept ==
    ASSUME IInv, NEW r \in Requests, Start(r) \/ Work(r) \/ StartDrain(r)
    PROVE  reused \subseteq reused' /\ managed' \cap Customs \subseteq managed \cup reused'
<1>1. CASE \/ Start(r) \/ Read(r) \/ StartDrain(r) \/ UpdateOAuthProfile(r) \/ AfterSignIn(r)
           \/ Check(r) \/ AfterRefresh(r) \/ ReadOver(r) \/ SelectOwn(r) \/ EndDrain(r)
  BY <1>1, QuietOK DEF accountTables
<1>2. CASE \/ Rotate(r) \/ Grace(r) \/ CreateAuthSession(r) \/ Logout(r) \/ Cap(r) \/ Expire(r)
           \/ DeliverOne(r) \/ CountFailure(r)
  BY <1>2 DEF Rotate, Grace, CreateAuthSession, Logout, Cap, Expire, DeliverOne, CountFailure, accounts
<1>3. CASE ChangeRoles(r) \/ DeleteUser(r) \/ CreateCustomRole(r) \/ DeleteCustomRole(r)
  BY <1>3 DEF ChangeRoles, DeleteUser, CreateCustomRole, DeleteCustomRole, Commit, accounts
<1>4. CASE SaveRolePermissions(r)
  BY <1>4, AccountsAssumption DEF SaveRolePermissions, MaySave, Commit, accounts
<1>5. CASE Register(r) \/ LinkOAuthIdentity(r) \/ Disconnect(r)
  BY <1>5 DEF Register, LinkOAuthIdentity, Disconnect, OnCallback
<1> QED  BY <1>1, <1>2, <1>3, <1>4, <1>5 DEF Work, Act, SessionStep

LEMMA CarriesNothing ==
    ASSUME NEW r \in Requests, req'[r].kind \notin Changes \cup {"drain"}
    PROVE  (TakenUp(req[r]) /\ CatalogueKnown(req[r]))'
  BY DEF TakenUp, CatalogueKnown, Changes

(* A request that goes on to do something else, or that is over.            *)
LEMMA OtherGoesOn ==
    ASSUME IInv, RequestsOK', NEW r \in Requests,
           \/ SessionStart(r) \/ StartCallback(r) \/ StartDisconnect(r)
           \/ Rotate(r) \/ Check(r) \/ Grace(r) \/ AfterRefresh(r) \/ Cap(r) \/ ReadOver(r) \/ Expire(r)
           \/ Refuse(r) \/ ChangeRoles(r) \/ DeleteUser(r) \/ SaveRolePermissions(r) \/ CreateCustomRole(r)
           \/ DeleteCustomRole(r) \/ Register(r) \/ LinkOAuthIdentity(r) \/ UpdateOAuthProfile(r)
           \/ CreateAuthSession(r) \/ AfterSignIn(r)
    PROVE  /\ \A p \in Requests \ {r} : req'[p] = req[p]
           /\ (TakenUp(req[r]) /\ CatalogueKnown(req[r]))'
<1>0. /\ req = [p \in Requests |-> req[p]] /\ RequestOK(req[r])  BY DEF IInv, RequestsOK
<1>1. ASSUME NEW q, req' = [req EXCEPT ![r] = q]
      PROVE  req'[r] = q /\ \A p \in Requests \ {r} : req'[p] = req[p]
  BY <1>0, <1>1
<1>2. ASSUME Done(r)  PROVE req'[r].kind \notin Changes \cup {"drain"} /\ \A p \in Requests \ {r} : req'[p] = req[p]
  <2>1. req'[r] = Idle /\ \A p \in Requests \ {r} : req'[p] = req[p]  BY <1>1, <1>2 DEF Done
  <2>2. Idle.kind \notin Changes \cup {"drain"}  BY DEF Idle, Changes
  <2> QED  BY <2>1, <2>2
<1>3. ASSUME NEW u, Hygiene(r, u)  PROVE req'[r].kind \notin Changes \cup {"drain"} /\ \A p \in Requests \ {r} : req'[p] = req[p]
  <2> DEFINE q == [kind |-> "hygiene", pc |-> "cap", user |-> u, chosen |-> Excess(u), roles |-> KnownRoles(Excess(u))]
  <2>1. req' = [req EXCEPT ![r] = q]  BY <1>3 DEF Hygiene
  <2>2. q.kind \notin Changes \cup {"drain"}  BY DEF Changes
  <2> QED  BY <1>1, <2>1, <2>2
<1>4. ASSUME NEW pc, req[r].kind \in {"refresh", "callback", "hygiene"}, Goto(r, pc)
      PROVE  req'[r].kind \notin Changes \cup {"drain"} /\ \A p \in Requests \ {r} : req'[p] = req[p]
  <2>1. [req[r] EXCEPT !.pc = pc].kind = req[r].kind
    <3>1. CASE req[r].kind = "hygiene"  BY <1>0, <3>1, ByKind DEF HygieneOK
    <3>2. CASE req[r].kind = "refresh"  BY <1>0, <3>2, ByKind DEF RefreshType
    <3>3. CASE req[r].kind = "callback"  BY <1>0, <3>3, ByKind DEF CallbackType
    <3> QED  BY <1>4, <3>1, <3>2, <3>3
  <2> QED  BY <1>1, <1>4, <2>1 DEF Goto, Changes
<1>5. CASE \/ ChangeRoles(r) \/ DeleteUser(r) \/ SaveRolePermissions(r) \/ CreateCustomRole(r)
           \/ DeleteCustomRole(r) \/ Expire(r) \/ Refuse(r)
  BY <1>5, <1>2, CarriesNothing
     DEF ChangeRoles, DeleteUser, SaveRolePermissions, CreateCustomRole, DeleteCustomRole, Commit, Expire, Refuse
<1>6. CASE AfterRefresh(r) \/ AfterSignIn(r)
  BY <1>6, <1>2, <1>3, CarriesNothing DEF AfterRefresh, AfterSignIn
<1>7. CASE Rotate(r) \/ Check(r) \/ Grace(r) \/ Cap(r) \/ CreateAuthSession(r)
  BY <1>7, <1>2, <1>4, CarriesNothing DEF Rotate, Check, Grace, Cap, CreateAuthSession, At
<1>8. CASE ReadOver(r)
  <2> DEFINE q == [req[r] EXCEPT !.pc = "expire", !.chosen = Over, !.roles = KnownRoles(Over)]
  <2>1. q.kind = "hygiene"  BY <1>0, <1>8, ByKind DEF ReadOver, At, HygieneOK
  <2>2. req' = [req EXCEPT ![r] = q]  BY <1>0, <1>8 DEF ReadOver
  <2> QED  BY <1>1, <2>1, <2>2, CarriesNothing DEF Changes
<1>9. CASE Register(r) \/ LinkOAuthIdentity(r) \/ UpdateOAuthProfile(r)
  <2>1. req[r].kind = "callback" /\ req[r] \in CallbackType
    BY <1>0, <1>9, ByKind DEF Register, LinkOAuthIdentity, UpdateOAuthProfile, OnCallback, At
  <2>2. ASSUME NEW u, SignsIn(r, u)
        PROVE  req'[r].kind \notin Changes \cup {"drain"} /\ \A p \in Requests \ {r} : req'[p] = req[p]
    <3> DEFINE roles == users'[u].roles
               q == [req[r] EXCEPT !.pc = "session", !.user = u, !.roles = roles]
    <3>1. q.kind = "callback"  BY <2>1 DEF CallbackType
    <3>2. req' = [req EXCEPT ![r] = q]  BY <1>0, <2>2 DEF SignsIn
    <3> QED  BY <1>1, <3>1, <3>2 DEF Changes
  <2> QED  BY <1>2, <1>9, <2>2, CarriesNothing DEF Register, LinkOAuthIdentity, UpdateOAuthProfile
<1>10. CASE SessionStart(r) \/ StartCallback(r) \/ StartDisconnect(r)
  <2>1. ASSUME NEW q, q.kind \in {"refresh", "logout", "callback", "disconnect"}, Begin(r, q)
        PROVE  req'[r].kind \notin Changes \cup {"drain"} /\ \A p \in Requests \ {r} : req'[p] = req[p]
    BY <1>1, <2>1 DEF Begin, Changes
  <2>2. CASE SessionStart(r)
    <3>1. CASE StartRefresh(r)
      <4>1. PICK t \in 1..issued, s \in sessions :
              Begin(r, [kind |-> "refresh", pc |-> IF s.cur = t THEN "rotate" ELSE "grace", token |-> t,
                        session |-> s, roles |-> users[s.user].roles, serial |-> served])
        BY <3>1 DEF StartRefresh
      <4> QED  BY <4>1, <2>1, CarriesNothing
    <3>2. CASE StartLogout(r)
      <4>1. PICK chosen : Begin(r, [kind |-> "logout", pc |-> "remove", chosen |-> chosen, roles |-> KnownRoles(chosen)])
        BY <3>2 DEF StartLogout
      <4> QED  BY <4>1, <2>1, CarriesNothing
    <3>3. CASE StartHygiene(r)  BY <3>3, <1>3, CarriesNothing DEF StartHygiene
    <3> QED  BY <2>2, <3>1, <3>2, <3>3 DEF SessionStart
  <2>3. CASE StartCallback(r)
    <3>1. PICK pc, i, u, sid : Begin(r, Callback(pc, i, u, sid))  BY <2>3 DEF StartCallback
    <3>2. Callback(pc, i, u, sid).kind = "callback"  BY DEF Callback
    <3> QED  BY <3>1, <3>2, <2>1, CarriesNothing
  <2>4. CASE StartDisconnect(r)
    BY <2>1, <2>4, CarriesNothing DEF StartDisconnect, Disconnecting
  <2> QED  BY <1>10, <2>2, <2>3, <2>4
<1> QED  BY <1>5, <1>6, <1>7, <1>8, <1>9, <1>10

LEMMA DrainCarries ==
    ASSUME IInv, NEW r \in Requests, Recorded \subseteq Recorded',
           \/ Logout(r) \/ StartDrain(r) \/ SelectOwn(r) \/ DeliverOne(r) \/ CountFailure(r) \/ EndDrain(r)
           \/ Disconnect(r)
    PROVE  /\ \A p \in Requests \ {r} : req'[p] = req[p]
           /\ (TakenUp(req[r]) /\ CatalogueKnown(req[r]))'
<1>0. /\ req = [p \in Requests |-> req[p]] /\ RequestOK(req[r])  BY DEF IInv, RequestsOK
<1>1. ASSUME NEW q, q.kind = "drain", \A x \in q.items : x.event \in Recorded, req' = [req EXCEPT ![r] = q]
      PROVE  /\ \A p \in Requests \ {r} : req'[p] = req[p]
             /\ (TakenUp(req[r]) /\ CatalogueKnown(req[r]))'
  <2>1. req'[r] = q /\ \A p \in Requests \ {r} : req'[p] = req[p]  BY <1>0, <1>1
  <2> QED  BY <1>1, <2>1 DEF TakenUp, CatalogueKnown, Changes
<1>2. ASSUME Done(r)
      PROVE  /\ \A p \in Requests \ {r} : req'[p] = req[p]
             /\ (TakenUp(req[r]) /\ CatalogueKnown(req[r]))'
  <2>1. req'[r] = Idle /\ \A p \in Requests \ {r} : req'[p] = req[p]  BY <1>0, <1>2 DEF Done
  <2>2. Idle.kind \notin Changes \cup {"drain"}  BY DEF Idle, Changes
  <2> QED  BY <2>1, <2>2, CarriesNothing
<1>3. \A x \in Pending : x.event \in Recorded  BY DEF Pending, Recorded
<1>5. CASE Logout(r) \/ Disconnect(r)
  <2>1. ASSUME NEW own, req' = [req EXCEPT ![r] = DeliverOwn(own)]
        PROVE  /\ \A p \in Requests \ {r} : req'[p] = req[p]
               /\ (TakenUp(req[r]) /\ CatalogueKnown(req[r]))'
    <3>1. DeliverOwn(own).kind = "drain" /\ DeliverOwn(own).items = {}  BY DEF DeliverOwn
    <3> QED  BY <2>1, <3>1, <1>1
  <2> QED  BY <1>2, <1>5, <2>1 DEF Logout, Disconnect
<1>6. CASE StartDrain(r)
  BY <1>1, <1>3, <1>6 DEF StartDrain
<1>7. CASE EndDrain(r)
  BY <1>2, <1>7 DEF EndDrain
<1>8. CASE SelectOwn(r) \/ DeliverOne(r) \/ CountFailure(r)
  <2>1. req[r].kind = "drain" /\ DrainOK(req[r])
    BY <1>0, <1>8, ByKind DEF SelectOwn, DeliverOne, CountFailure, At
  <2>2. \A x \in req[r].items : x.event \in Recorded  BY <2>1 DEF IInv, Carried, TakenUp
  <2>3. CASE SelectOwn(r)
    <3> DEFINE kept == {x \in Pending : x.event \in req[r].own}
               q == [req[r] EXCEPT !.pc = "deliver", !.items = kept, !.own = {}]
    <3>1. q.kind = "drain" /\ q.items = kept  BY <2>1 DEF DrainOK
    <3>2. req' = [req EXCEPT ![r] = q]  BY <1>0, <2>3 DEF SelectOwn
    <3> QED  BY <1>1, <1>3, <3>1, <3>2
  <2>4. CASE CountFailure(r)
    <3> DEFINE q == [req[r] EXCEPT !.pc = "deliver", !.own = {}]
    <3>1. q.kind = "drain" /\ q.items = req[r].items  BY <2>1 DEF DrainOK
    <3>2. req' = [req EXCEPT ![r] = q]  BY <1>0, <2>4 DEF CountFailure
    <3> QED  BY <1>1, <2>2, <3>1, <3>2
  <2>5. CASE DeliverOne(r)
    <3>1. PICK item \in req[r].items :
            \/ req' = [req EXCEPT ![r] = [req[r] EXCEPT !.items = @ \ {item}]]
            \/ req' = [req EXCEPT ![r] = [[req[r] EXCEPT !.items = @ \ {item}] EXCEPT !.pc = "count", !.own = {item}]]
      BY <2>5 DEF DeliverOne
    <3> DEFINE rest == [req[r] EXCEPT !.items = @ \ {item}]
               next == [rest EXCEPT !.pc = "count", !.own = {item}]
    <3>2. DrainOK(rest) /\ rest.kind = "drain" /\ rest.items = req[r].items \ {item}  BY <2>1 DEF DrainOK
    <3>3. next.kind = "drain" /\ next.items = rest.items  BY <3>2 DEF DrainOK
    <3> QED  BY <1>1, <2>2, <3>1, <3>2, <3>3
  <2> QED  BY <1>8, <2>3, <2>4, <2>5
<1> QED  BY <1>5, <1>6, <1>7, <1>8

LEMMA ChangeCarries ==
    ASSUME IInv, NEW r \in Requests, (Read(r) /\ ~Refuse(r)) \/ (\E kind \in Changes : StartChange(r, kind))
    PROVE  /\ \A p \in Requests \ {r} : req'[p] = req[p]
           /\ (TakenUp(req[r]) /\ CatalogueKnown(req[r]))'
<1>0. /\ req = [p \in Requests |-> req[p]] /\ RequestOK(req[r])  BY DEF IInv, RequestsOK
<1>1. UNCHANGED <<managed, reused>>  BY QuietOK DEF accountTables, Start
<1>2. ASSUME NEW kind \in Changes, StartChange(r, kind)
      PROVE  /\ \A p \in Requests \ {r} : req'[p] = req[p]
             /\ (TakenUp(req[r]) /\ CatalogueKnown(req[r]))'
  <2>1. PICK actor, sid : Begin(r, Authority(kind, actor, sid))  BY <1>2 DEF StartChange
  <2> DEFINE q == Authority(kind, actor, sid)
  <2>2. q.kind = kind /\ q.pc = "read" /\ q.managed = managed  BY DEF Authority
  <2>3. req'[r] = q /\ \A p \in Requests \ {r} : req'[p] = req[p]  BY <1>0, <2>1 DEF Begin
  <2> QED  BY <1>1, <2>2, <2>3 DEF TakenUp, CatalogueKnown, Changes
<1>3. CASE Read(r) /\ ~Refuse(r)
  <2>1. PICK kind, change :
          /\ Decide(r, kind, change) /\ kind \in Changes
          /\ kind = "roles of user" => change.next \cap Customs \subseteq managed \cup reused
    <3>1. CASE At(r, "roles of user", "read") /\ ReadRoles(r)
      <4>1. PICK u \in DOMAIN users, role \in Options :
              Decide(r, "roles of user", [user |-> u, was |-> users[u].roles, next |-> Toggled(users[u].roles, role)])
        BY <3>1 DEF ReadRoles
      <4> DEFINE change == [user |-> u, was |-> users[u].roles, next |-> Toggled(users[u].roles, role)]
      <4>2. change.next = Toggled(users[u].roles, role)  OBVIOUS
      <4>3. change.next \cap Customs \subseteq managed \cup reused
        BY <4>2, AccountsAssumption DEF IInv, Tables, AccessIsWhole, Toggled, Options
      <4> QED  BY <4>1, <4>3 DEF Changes
    <3>2. CASE \/ At(r, "delete user", "read") /\ ReadDeletion(r)
               \/ At(r, "grants", "read") /\ ReadGrants(r)
               \/ At(r, "new role", "read") /\ ReadNewRole(r)
               \/ At(r, "delete role", "read") /\ ReadOldRole(r)
      <4>1. \E kind \in Changes \ {"roles of user"} : \E change : Decide(r, kind, change)
        BY <3>2 DEF ReadDeletion, ReadGrants, ReadNewRole, ReadOldRole, Changes
      <4> QED  BY <4>1
    <3> QED  BY <1>3, <3>1, <3>2 DEF Read
  <2> DEFINE d == [req[r] EXCEPT !.pc = "commit", !.change = change]
  <2>2. req[r].kind = kind /\ req[r].pc = "read" /\ req[r] \in AuthorityType
    BY <2>1, AuthorityIs DEF Decide, At, IInv
  <2>3. d.kind = kind /\ d.change = change /\ d.managed = req[r].managed /\ d.pc = "commit"
    BY <2>2, DecisionReads
  <2>4. req'[r] = d /\ \A p \in Requests \ {r} : req'[p] = req[p]  BY <1>0, <2>1 DEF Decide
  <2>5. managed \cap Customs \subseteq req[r].managed \cup reused
    BY <2>1, <2>2 DEF IInv, Carried, CatalogueKnown
  <2> HIDE DEF d
  <2>6. d.kind # "drain"  BY <2>1, <2>3 DEF Changes
  <2>7. TakenUp(req[r])'  BY <2>4, <2>6 DEF TakenUp
  <2>8. d.kind = "roles of user" => change.next \cap Customs \subseteq d.managed \cup reused
    BY <2>1, <2>3, <2>5
  <2>9. d.kind = "roles of user" => d.change.next \cap Customs \subseteq d.managed \cup reused
    BY <2>3, <2>8
  <2>10. CatalogueKnown(req[r])'  BY <1>1, <2>3, <2>4, <2>9 DEF CatalogueKnown
  <2> QED  BY <2>4, <2>7, <2>10
<1> QED  BY <1>2, <1>3

-----------------------------------------------------------------------------
LEMMA InitOK == Init => IInv
<1> SUFFICES ASSUME Init  PROVE IInv
  OBVIOUS
<1>1. Primary1 \in Providers /\ Primary2 \in Providers /\ Primary1 # Primary2
  <2>1. \E i \in Providers : TRUE  BY AccountsAssumption
  <2>2. Primary1 \in Providers  BY <2>1 DEF Primary1
  <2>3. \E i \in Providers : i # Primary1  BY AccountsAssumption
  <2> QED  BY <2>2, <2>3 DEF Primary2
<1>2. PICK start \in Starts :
        /\ users = [u \in {1, 2} |-> IF u = 1 THEN [roles |-> {"admin"}, primary |-> Primary1]
                                              ELSE [roles |-> start.roles, primary |-> Primary2]]
        /\ identities = [i \in {Primary1} \cup start.own |-> IF i = Primary1 THEN 1 ELSE 2]
        /\ grants = Customs \X start.grants /\ plan = start.plan /\ served = start.served
  BY DEF Init
<1>3. start.roles \subseteq RoleNames /\ start.own \subseteq Providers /\ start.grants \subseteq Permissions /\ start.served \in Nat
  BY AccountsAssumption
<1>4. /\ DOMAIN users = {1, 2} /\ DOMAIN identities = {Primary1} \cup start.own
      /\ users[1].roles = {"admin"} /\ users[1].primary = Primary1
      /\ users[2].roles = start.roles /\ users[2].primary = Primary2
      /\ \A i \in DOMAIN identities : identities[i] = IF i = Primary1 THEN 1 ELSE 2
  BY <1>2
<1>5. UsersTyped
  <2>1. users[1] \in UserType /\ users[2] \in UserType  BY <1>1, <1>2, <1>3 DEF UserType, RoleNames, Builtins
  <2>2. users \in [DOMAIN users -> UserType]  BY <1>2, <1>4, <2>1
  <2>3. identities \in [DOMAIN identities -> Nat]  BY <1>2, <1>4
  <2>4. grants \subseteq RoleNames \X Permissions  BY <1>2, <1>3 DEF RoleNames
  <2>5. managed \subseteq RoleNames /\ reused \subseteq Customs /\ born = 2  BY DEF Init, RoleNames
  <2> QED  BY <1>1, <1>3, <1>4, <2>2, <2>3, <2>4, <2>5 DEF UsersTyped
<1>6. Identified  BY <1>1, <1>4 DEF Identified
<1>7. \A s \in sessions : /\ s \in SessionType /\ s.id \in {1, 2} /\ s.user = s.id /\ s.cur = s.id /\ s.prev = 0
                          /\ s = [id |-> s.id, user |-> s.id, cur |-> s.id, prev |-> NoToken, grace |-> FALSE, status |-> "live"]
  <2> DEFINE row(u) == [id |-> u, user |-> u, cur |-> u, prev |-> NoToken, grace |-> FALSE, status |-> "live"]
  <2>1. sessions = {row(u) : u \in {1, 2}}  BY DEF Init
  <2>2. \A u \in {1, 2} : /\ row(u) \in SessionType /\ row(u).id = u /\ row(u).user = u /\ row(u).cur = u /\ row(u).prev = 0
                          /\ row(u) = [id |-> u, user |-> u, cur |-> u, prev |-> NoToken, grace |-> FALSE, status |-> "live"]
    BY DEF SessionType, NoToken
  <2> HIDE DEF row
  <2> QED  BY <2>1, <2>2
<1>8. issued = 2 /\ made = 2 /\ heirs = {} /\ events = {} /\ outbox = {}  BY DEF Init
<1>9. SessionsInv
  <2>1. SessionsTyped  BY <1>7, <1>8 DEF SessionsTyped
  <2>2. \A s, x \in sessions : s.id = x.id => s = x  BY <1>7
  <2>3. Numbered  BY <1>7, <1>8, <2>2 DEF Numbered
  <2>4. OneHeir  BY <1>7, <1>8 DEF OneHeir
  <2> QED  BY <2>1, <2>3, <2>4 DEF SessionsInv
<1>10. Living = {1, 2}
  <2> DEFINE row(u) == [id |-> u, user |-> u, cur |-> u, prev |-> NoToken, grace |-> FALSE, status |-> "live"]
  <2>1. sessions = {row(u) : u \in {1, 2}}  BY DEF Init
  <2>2. \A u : row(u).id = u  OBVIOUS
  <2> HIDE DEF row
  <2> QED  BY <2>1, <2>2 DEF Living
<1>11. EvidenceInv
  <2>1. Recorded = {}  BY <1>8 DEF Recorded
  <2>2. (1..2) \ {1, 2} = {}  OBVIOUS
  <2> QED  BY <1>8, <1>10, <2>1, <2>2 DEF EvidenceInv, EvidenceTyped, Receipted
<1>12. AccessIsWhole
  <2>1. Admins # {}  BY <1>4 DEF Admins
  <2>2. managed = Customs  BY DEF Init
  <2> QED  BY <1>2, <1>4, <1>7, <2>1, <2>2 DEF AccessIsWhole
<1>13. \A r \in Requests : req[r] = Idle  BY DEF Init
<1>14. RequestsOK  BY <1>13, IdleOK DEF Init, RequestsOK
<1>15. Carried
  <2>1. Idle.kind \notin Changes \cup {"drain"}  BY DEF Idle, Changes
  <2> QED  BY <1>13, <2>1 DEF Carried, TakenUp, CatalogueKnown, Changes
<1> QED  BY <1>2, <1>3, <1>5, <1>6, <1>9, <1>11, <1>12, <1>14, <1>15 DEF IInv, Tables, UsersInv

LEMMA RequestKept ==
    ASSUME IInv, NEW r \in Requests, Start(r) \/ Work(r) \/ StartDrain(r)
    PROVE  IInv'
<1>1. Tables'  BY TablesKept
<1>2. served' \in Nat
  <2>1. ASSUME NEW q, Begin(r, q)  PROVE served' \in Nat  BY <2>1 DEF Begin, IInv
  <2>2. CASE Start(r)
    <3>1. CASE StartHygiene(r)  BY <3>1 DEF StartHygiene, IInv
    <3>2. CASE StartRefresh(r) \/ StartLogout(r)  BY <3>2, <2>1 DEF StartRefresh, StartLogout
    <3>3. CASE StartCallback(r) \/ StartDisconnect(r)  BY <3>3, <2>1 DEF StartCallback, StartDisconnect
    <3>4. CASE \E kind \in Changes : StartChange(r, kind)  BY <3>4, <2>1 DEF StartChange
    <3> QED  BY <2>2, <3>1, <3>2, <3>3, <3>4 DEF Start
  <2>3. CASE Read(r) \/ StartDrain(r)
    BY <2>3 DEF IInv, Read, ReadRoles, ReadDeletion, ReadGrants, ReadNewRole, ReadOldRole, Decide, Refuse, StartDrain
  <2>4. CASE Act(r)
    BY <2>4 DEF IInv, Act, ChangeRoles, DeleteUser, SaveRolePermissions, CreateCustomRole, DeleteCustomRole, Commit,
                Register, LinkOAuthIdentity, UpdateOAuthProfile, OnCallback, CreateAuthSession, AfterSignIn, Disconnect
  <2>5. CASE SessionStep(r)
    BY <2>5 DEF IInv, SessionStep, Rotate, Check, Grace, Logout, AfterRefresh, Cap, ReadOver, Expire, SelectOwn,
                DeliverOne, CountFailure, EndDrain
  <2> QED  BY <2>2, <2>3, <2>4, <2>5 DEF Work
<1>3. RequestsOK'
  BY <1>1, SessionRequests, AccountStarts, DecisionsOK, ActsOK DEF Work, Tables, UsersInv
<1>4. Carried'
  <2>1. Recorded \subseteq Recorded'  BY RecordedKept
  <2>2. /\ \A p \in Requests \ {r} : req'[p] = req[p]
        /\ (TakenUp(req[r]) /\ CatalogueKnown(req[r]))'
    BY <1>3, <2>1, DrainCarries, ChangeCarries, OtherGoesOn DEF Work, Start, SessionStart, SessionStep, Read, Act
  <2>3. ASSUME NEW p \in Requests \ {r}  PROVE (TakenUp(req[p]) /\ CatalogueKnown(req[p]))'
    <3>1. req'[p] = req[p] /\ TakenUp(req[p]) /\ CatalogueKnown(req[p])  BY <2>2 DEF IInv, Carried
    <3>2. TakenUp(req[p])'  BY <2>1, <3>1 DEF TakenUp
    <3>3. CatalogueKnown(req[p])'  BY <3>1, CatalogueKept DEF CatalogueKnown
    <3> QED  BY <3>2, <3>3
  <2> QED  BY <2>2, <2>3 DEF Carried
<1> QED  BY <1>1, <1>2, <1>3, <1>4 DEF IInv

LEMMA TimeKept ==
    ASSUME IInv, Time
    PROVE  IInv'
<1>1. UNCHANGED <<req, served, events, outbox, managed, reused>>
  BY DEF Time, GoesIdle, RunsOut, GraceEnds, Ages, accounts
<1>2. RequestsOK'  BY <1>1 DEF IInv, RequestsOK
<1>3. Carried'  BY <1>1 DEF IInv, Carried, TakenUp, CatalogueKnown, Recorded
<1> QED  BY <1>1, <1>2, <1>3, TimeOK DEF IInv

LEMMA IInvKept == IInv /\ [Next]_vars => IInv'
<1>1. ASSUME IInv, UNCHANGED vars  PROVE IInv'
  <2>1. Tables'  BY <1>1, TablesSame DEF IInv, vars, sessionTables, accountTables
  <2>2. RequestsOK' /\ served' \in Nat  BY <1>1 DEF IInv, RequestsOK, vars
  <2>3. Carried'  BY <1>1 DEF IInv, Carried, TakenUp, CatalogueKnown, Recorded, vars
  <2> QED  BY <2>1, <2>2, <2>3 DEF IInv
<1> QED  BY <1>1, RequestKept, TimeKept DEF Next

LEMMA IInvHolds == Spec => []IInv
  BY InitOK, IInvKept, PTL DEF Spec

(* A receipt is one envelope or one event, so the two numbers add up to one. *)
LEMMA ReceiptsCounted == IInv => EndsAreEvidenced
<1> SUFFICES ASSUME IInv, NEW id \in 1..made  PROVE Receipts(id) = IF id \in Living THEN 0 ELSE 1
  BY DEF EndsAreEvidenced
<1> DEFINE e == <<"ended", id>>
           open == {x \in outbox : x.event = e}
           closed == {x \in events : x = e}
<1>0. e[1] = "ended" /\ e[2] = id  OBVIOUS
<1>1. Receipts(id) = Cardinality(open) + Cardinality(closed)  BY DEF Receipts
<1>2. Receipted  BY DEF IInv, Tables, EvidenceInv
<1> HIDE DEF e
<1>3. CASE id \in Living
  <2>1. e \notin Recorded  BY <1>0, <1>2, <1>3 DEF Receipted
  <2>2. open = {} /\ closed = {}  BY <2>1 DEF Recorded
  <2> QED  BY <1>1, <1>3, <2>2, FS_EmptySet
<1>4. CASE id \notin Living
  <2>1. e \in Recorded  BY <1>2, <1>4 DEF Receipted, e
  <2>2. CASE e \in events
    <3>1. open = {}  BY <1>0, <1>2, <2>2 DEF Receipted
    <3>2. closed = {e}  BY <2>2
    <3>3. Cardinality(open) = 0 /\ Cardinality(closed) = 1  BY <3>1, <3>2, FS_EmptySet, FS_Singleton, Zenon
    <3> QED  BY <1>1, <1>4, <3>3
  <2>3. CASE e \notin events
    <3>1. closed = {}  BY <2>3
    <3>2. PICK x \in outbox : x.event = e  BY <2>1, <2>3 DEF Recorded
    <3>3. open = {x}  BY <1>0, <1>2, <3>2 DEF Receipted
    <3>4. Cardinality(open) = 1 /\ Cardinality(closed) = 0  BY <3>1, <3>3, FS_EmptySet, FS_Singleton, Zenon
    <3> QED  BY <1>1, <1>4, <3>4
  <2> QED  BY <2>2, <2>3
<1> QED  BY <1>3, <1>4

(* A refresh token is exchanged at most once and continues at most one      *)
(* session: the rotation compares the row with the one read, and a token    *)
(* that was exchanged is nobody's current one.                              *)
THEOREM OneHeirHolds == Spec => []OneHeir
<1>1. IInv => OneHeir  BY DEF IInv, Tables, SessionsInv
<1> QED  BY <1>1, IInvHolds, PTL

(* Every session that ended has its one receipt, some administrator remains, *)
(* and nothing refers to an account or a role that is gone.                  *)
THEOREM AccessHolds == Spec => []AccessSound
<1>1. IInv => AccessSound  BY ReceiptsCounted DEF IInv, Tables, AccessSound
<1> QED  BY <1>1, IInvHolds, PTL

-----------------------------------------------------------------------------
(* Which identities an account has, and what it holds.                      *)
LEMMA IdentitiesSame ==
    ASSUME IInv, NEW r \in Requests,
           Start(r) \/ Work(r) \/ StartDrain(r), ~DeleteUser(r), ~Register(r), ~LinkOAuthIdentity(r), ~Disconnect(r)
    PROVE  identities' = identities
<1>1. CASE \/ Start(r) \/ Read(r) \/ StartDrain(r) \/ UpdateOAuthProfile(r) \/ AfterSignIn(r)
           \/ Check(r) \/ AfterRefresh(r) \/ ReadOver(r) \/ SelectOwn(r) \/ EndDrain(r)
  BY <1>1, QuietOK DEF accountTables
<1>2. CASE \/ Rotate(r) \/ Grace(r) \/ Logout(r) \/ Cap(r) \/ Expire(r) \/ DeliverOne(r) \/ CountFailure(r)
           \/ CreateAuthSession(r)
  BY <1>2 DEF Rotate, Grace, Logout, Cap, Expire, DeliverOne, CountFailure, CreateAuthSession, accounts
<1>3. CASE ChangeRoles(r) \/ SaveRolePermissions(r) \/ CreateCustomRole(r) \/ DeleteCustomRole(r)
  BY <1>3 DEF ChangeRoles, SaveRolePermissions, CreateCustomRole, DeleteCustomRole, Commit, accounts
<1> QED  BY <1>1, <1>2, <1>3 DEF Work, Act, SessionStep

LEMMA OwnKept ==
    ASSUME IInv, NEW r \in Requests, Start(r) \/ Work(r) \/ StartDrain(r),
           NEW u \in DOMAIN users, u \in DOMAIN users', Own(u) # {}
    PROVE  Own(u)' # {}
<1> DEFINE q == req[r]
<1>0. Own(u)' = {i \in DOMAIN identities' : identities'[i] = u}  BY DEF Own
<1>1. CASE identities' = identities
  BY <1>1 DEF Own
<1>2. CASE DeleteUser(r)
  <2>1. CASE UNCHANGED accounts  BY <2>1, <1>1 DEF accounts
  <2>2. CASE /\ users' = [x \in DOMAIN users \ {q.change.user} |-> users[x]]
             /\ identities' = [i \in {j \in DOMAIN identities : identities[j] # q.change.user} |-> identities[i]]
    BY <1>0, <2>2 DEF Own
  <2> QED  BY <1>2, <2>1, <2>2 DEF DeleteUser, Commit
<1>3. CASE Register(r)
  <2>1. CASE MayRegister(q.identity) /\ identities' = Bound(identities, q.identity, born + 1)
    BY <1>0, <2>1 DEF Own, Bound, MayRegister
  <2> QED  BY <1>1, <1>3, <2>1 DEF Register
<1>4. CASE LinkOAuthIdentity(r)
  <2>1. CASE MayLink(q) /\ identities' = Bound(identities, q.identity, q.user)
    <3>1. q.identity \in DOMAIN identities => identities[q.identity] = q.user
      BY <2>1 DEF MayLink, Identifies
    <3> QED  BY <1>0, <2>1, <3>1 DEF Own, Bound
  <2> QED  BY <1>1, <1>4, <2>1 DEF LinkOAuthIdentity
<1>5. CASE Disconnect(r)
  <2>1. CASE MayDisconnect(q) /\ Disconnected(q)
    <3>1. PICK next \in q.own \ {q.identity} : TRUE  BY <2>1 DEF Disconnected
    <3>2. q.own = Own(q.user)  BY <2>1 DEF MayDisconnect
    <3>3. DisconnectOK(q)  BY <1>5, ByKind DEF IInv, RequestsOK, Disconnect, At
    <3>4. identities[q.identity] = q.user /\ identities[next] = q.user /\ next \in DOMAIN identities
      BY <3>1, <3>2, <3>3 DEF Own, DisconnectOK
    <3>5. identities' = [i \in DOMAIN identities \ {q.identity} |-> identities[i]]  BY <2>1 DEF Disconnected
    <3>6. CASE u = q.user  BY <1>0, <3>1, <3>4, <3>5, <3>6
    <3>7. CASE u # q.user  BY <1>0, <3>4, <3>5, <3>7 DEF Own
    <3> QED  BY <3>6, <3>7
  <2> QED  BY <1>1, <1>5, <2>1 DEF Disconnect
<1> QED  BY <1>1, <1>2, <1>3, <1>4, <1>5, IdentitiesSame

LEMMA EntersByOne ==
    ASSUME UsersInv', NEW u \in DOMAIN users'
    PROVE  \E i \in Providers : Owners(i)' = {u}
<1>1. PICK i \in Providers : i = users'[u].primary  BY DEF UsersInv, UsersTyped, UserType
<1>2. CASE i \in DOMAIN identities'
  <2>1. identities'[i] = u  BY <1>1, <1>2 DEF UsersInv, Identified
  <2> QED  BY <1>2, <2>1 DEF Owners
<1>3. CASE i \notin DOMAIN identities'
  <2>1. PrimaryOf(i)' = {u}  BY <1>1 DEF PrimaryOf, UsersInv, Identified
  <2> QED  BY <1>3, <2>1 DEF Owners
<1> QED  BY <1>2, <1>3

(* The roles accounts have and what roles give change only by the forms.    *)
LEMMA AccessSame ==
    ASSUME IInv, NEW r \in Requests, Start(r) \/ Work(r) \/ StartDrain(r),
           ~ChangeRoles(r), ~DeleteUser(r), ~SaveRolePermissions(r), ~CreateCustomRole(r), ~DeleteCustomRole(r)
    PROVE  /\ UNCHANGED <<managed, grants>>
           /\ \A u \in DOMAIN users : u \in DOMAIN users' /\ users'[u].roles = users[u].roles
<1>1. CASE \/ Start(r) \/ Read(r) \/ StartDrain(r) \/ UpdateOAuthProfile(r) \/ AfterSignIn(r)
           \/ Check(r) \/ AfterRefresh(r) \/ ReadOver(r) \/ SelectOwn(r) \/ EndDrain(r)
  BY <1>1, QuietOK DEF accountTables
<1>2. CASE \/ Rotate(r) \/ Grace(r) \/ Logout(r) \/ Cap(r) \/ Expire(r) \/ DeliverOne(r) \/ CountFailure(r)
           \/ CreateAuthSession(r)
  BY <1>2 DEF Rotate, Grace, Logout, Cap, Expire, DeliverOne, CountFailure, CreateAuthSession, accounts
<1>3. CASE Register(r) \/ LinkOAuthIdentity(r) \/ Disconnect(r)
  <2>1. UNCHANGED <<managed, grants>>  BY <1>3 DEF Register, LinkOAuthIdentity, Disconnect, OnCallback
  <2>2. CASE users' = users  BY <2>1, <2>2
  <2>3. CASE Register(r)
    <3>1. users' = users \/ users' = Bound(users, born + 1, [roles |-> {}, primary |-> req[r].identity])
      BY <2>3 DEF Register
    <3>2. born + 1 \notin DOMAIN users  BY DEF IInv, Tables, UsersInv, UsersTyped
    <3>3. ASSUME NEW x  PROVE users' = Bound(users, born + 1, x) => \A u \in DOMAIN users : u \in DOMAIN users' /\ users'[u] = users[u]
      BY <3>2 DEF Bound
    <3> QED  BY <2>1, <2>2, <3>1, <3>3
  <2>4. CASE Disconnect(r)
    <3>1. users' = users \/ \E u, next : users' = [users EXCEPT ![u].primary = next]
      BY <2>4 DEF Disconnect, Disconnected
    <3> QED  BY <2>1, <3>1 DEF IInv, Tables, UsersInv, UsersTyped, UserType
  <2>5. CASE LinkOAuthIdentity(r)  BY <2>2, <2>5 DEF LinkOAuthIdentity
  <2> QED  BY <1>3, <2>3, <2>4, <2>5
<1> QED  BY <1>1, <1>2, <1>3 DEF Work, Act, SessionStep

(* What a set of roles gives, permission by permission.                     *)
LEMMA GivenByRole ==
    ASSUME NEW roles, NEW m, NEW g, NEW p
    PROVE  p \in Effective(roles, m, g) <=> \E role \in roles : p \in RolePermissions(role, m, g)
  BY DEF Effective

LEMMA HeldAs ==
    /\ \A u \in DOMAIN users : Holds(u) = Effective(users[u].roles, managed, grants)
    /\ \A u : Holds(u)' = IF u \in DOMAIN users' THEN Effective(users'[u].roles, managed', grants') ELSE {}
  BY DEF Holds

LEMMA NothingGained ==
    ASSUME \A u \in DOMAIN users : Holds(u)' \subseteq Holds(u), Admins \subseteq Admins'
    PROVE  Licensed
  BY DEF Licensed, Gained, Deposed

LEMMA FormActs ==
    ASSUME IInv, NEW r \in Requests, req[r].kind \in Changes, req[r].pc = "commit", Done(r), Guard(req[r]),
           \/ "admin" \in req[r].roles
           \/ /\ \A u \in DOMAIN users : Holds(u)' \subseteq Holds(u) \cup Effective(req[r].roles, managed, grants)
              /\ Admins \subseteq Admins'
    PROVE  Licensed
<1> DEFINE q == req[r]
<1>1. ActedBy(r)
  <2>1. Idle.kind \notin Changes  BY DEF Idle, Changes
  <2>2. req'[r] = Idle  BY DEF Done, IInv, RequestsOK
  <2> QED  BY <2>1, <2>2 DEF ActedBy
<1>2. q.actor \in DOMAIN users /\ users[q.actor].roles = q.roles  BY DEF Guard, Same
<1>3. CASE "admin" \in q.roles  BY <1>1, <1>2, <1>3 DEF Licensed, Admins
<1>4. CASE "admin" \notin q.roles
  <2>1. Holds(q.actor) = Effective(q.roles, managed, grants)  BY <1>2, HeldAs
  <2>2. Gained \subseteq Holds(q.actor)  BY <1>4, <2>1 DEF Gained
  <2>3. Deposed = {}  BY <1>4 DEF Deposed
  <2> QED  BY <1>1, <2>2, <2>3 DEF Licensed
<1> QED  BY <1>3, <1>4

LEMMA ChangeRolesLicensed ==
    ASSUME IInv, NEW r \in Requests, ChangeRoles(r)
    PROVE  Licensed
<1> DEFINE q == req[r]
           c == q.change
<1>1. CASE UNCHANGED accounts
  BY <1>1, NothingGained DEF ChangeRoles, Commit, accounts, Holds, Admins
<1>2. CASE MayChangeRoles(q) /\ users' = [users EXCEPT ![c.user].roles = c.next] /\ UNCHANGED <<managed, grants>>
  <2>1. q.kind = "roles of user" /\ q.pc = "commit" /\ Done(r)  BY DEF ChangeRoles, Commit, At
  <2>2. ChangeOK(q)  BY <2>1, ByKind DEF IInv, RequestsOK, Changes
  <2>3. RolesDecided(q, c)  BY <2>1, <2>2 DEF ChangeOK, AuthorityType, Decided
  <2>4. Guard(q) /\ c.user \in DOMAIN users /\ users[c.user].roles = c.was /\ q.managed = managed /\ q.grants = grants
    BY <1>2 DEF MayChangeRoles, Same, Guard
  <2>5. /\ DOMAIN users' = DOMAIN users
        /\ \A u \in DOMAIN users : users'[u].roles = IF u = c.user THEN c.next ELSE users[u].roles
    BY <1>2 DEF IInv, Tables, UsersInv, UsersTyped, UserType
  <2>6. CASE "admin" \in q.roles  BY <2>1, <2>4, <2>6, FormActs DEF Changes
  <2>7. CASE "admin" \notin q.roles
    <3>1. /\ "admin" \notin c.was
          /\ Effective(c.next, managed, grants) \subseteq Effective(q.roles, managed, grants)
      BY <2>3, <2>4, <2>7 DEF RolesDecided, Within
    <3>2. \A u \in DOMAIN users : Holds(u)' \subseteq Holds(u) \cup Effective(q.roles, managed, grants)
      BY <1>2, <2>5, <3>1, HeldAs
    <3>3. Admins \subseteq Admins'  BY <2>4, <2>5, <3>1 DEF Admins
    <3> QED  BY <2>1, <2>4, <3>2, <3>3, FormActs DEF Changes
  <2> QED  BY <2>6, <2>7
<1> QED  BY <1>1, <1>2 DEF ChangeRoles, Commit

LEMMA DeleteUserLicensed ==
    ASSUME IInv, NEW r \in Requests, DeleteUser(r)
    PROVE  Licensed
<1> DEFINE q == req[r]
           c == q.change
<1>1. CASE UNCHANGED accounts
  BY <1>1, NothingGained DEF accounts, Holds, Admins
<1>2. CASE MayDelete(q) /\ users' = [x \in DOMAIN users \ {c.user} |-> users[x]] /\ UNCHANGED <<managed, grants>>
  <2>1. q.kind = "delete user" /\ q.pc = "commit" /\ Done(r)  BY DEF DeleteUser, Commit, At
  <2>2. ChangeOK(q)  BY <2>1, ByKind DEF IInv, RequestsOK, Changes
  <2>3. DeletionDecided(q, c)  BY <2>1, <2>2 DEF ChangeOK, AuthorityType, Decided
  <2>4. Guard(q) /\ users[c.user].roles = c.was  BY <1>2 DEF MayDelete, Same
  <2>5. \A u \in DOMAIN users : Holds(u)' \subseteq Holds(u)  BY <1>2, HeldAs
  <2>6. CASE "admin" \in q.roles  BY <2>1, <2>4, <2>6, FormActs DEF Changes
  <2>7. CASE "admin" \notin q.roles
    <3>1. "admin" \notin c.was  BY <2>3, <2>7 DEF DeletionDecided, Within
    <3>2. Admins \subseteq Admins'  BY <1>2, <2>4, <3>1 DEF Admins
    <3> QED  BY <2>1, <2>4, <2>5, <3>2, FormActs DEF Changes
  <2> QED  BY <2>6, <2>7
<1> QED  BY <1>1, <1>2 DEF DeleteUser, Commit

LEMMA GrantsLicensed ==
    ASSUME IInv, NEW r \in Requests, SaveRolePermissions(r)
    PROVE  Licensed
<1> DEFINE q == req[r]
           c == q.change
<1>1. CASE UNCHANGED accounts
  BY <1>1, NothingGained DEF accounts, Holds, Admins
<1>2. CASE /\ MaySave(q) /\ managed' = managed \cup {c.role} /\ UNCHANGED users
           /\ grants' = {g \in grants : g[1] # c.role} \cup {<<c.role, p>> : p \in c.next}
  <2>1. q.kind = "grants" /\ q.pc = "commit" /\ Done(r)  BY DEF SaveRolePermissions, Commit, At
  <2>2. ChangeOK(q)  BY <2>1, ByKind DEF IInv, RequestsOK, Changes
  <2>3. GrantsDecided(q, c)  BY <2>1, <2>2 DEF ChangeOK, AuthorityType, Decided
  <2>4. Guard(q) /\ q.managed = managed /\ q.grants = grants  BY <1>2 DEF MaySave, Guard
  <2>5. \A u \in DOMAIN users : Holds(u)' \subseteq Holds(u) \cup c.next
    <3>1. c.role # "admin"  BY <2>3, AccountsAssumption DEF GrantsDecided, Builtins
    <3>2. \A p : <<c.role, p>> \in grants' <=> p \in c.next  BY <1>2
    <3>3. \A role, p : role # c.role => (<<role, p>> \in grants' <=> <<role, p>> \in grants)  BY <1>2
    <3>4. RolePermissions(c.role, managed', grants') \subseteq c.next
      BY <1>2, <3>1, <3>2 DEF RolePermissions
    <3>5. \A role : role # c.role => RolePermissions(role, managed', grants') = RolePermissions(role, managed, grants)
      BY <1>2, <3>3 DEF RolePermissions
    <3>6. ASSUME NEW u \in DOMAIN users, NEW p \in Holds(u)'  PROVE p \in Holds(u) \cup c.next
      <4>1. p \in Effective(users[u].roles, managed', grants')  BY <1>2, <3>6, HeldAs
      <4>2. PICK role \in users[u].roles : p \in RolePermissions(role, managed', grants')  BY <4>1, GivenByRole
      <4>3. CASE role = c.role  BY <3>4, <4>2, <4>3
      <4>4. CASE role # c.role
        <5>1. p \in RolePermissions(role, managed, grants)  BY <3>5, <4>2, <4>4
        <5> QED  BY <5>1, GivenByRole, HeldAs
      <4> QED  BY <4>3, <4>4
    <3> QED  BY <3>6
  <2>6. Admins' = Admins  BY <1>2 DEF Admins
  <2>7. "admin" \in q.roles \/ c.next \subseteq Effective(q.roles, managed, grants)
    BY <2>3, <2>4 DEF GrantsDecided
  <2> QED  BY <2>1, <2>4, <2>5, <2>6, <2>7, FormActs DEF Changes
<1> QED  BY <1>1, <1>2 DEF SaveRolePermissions, Commit

(* A new role gives nothing, and what a deleted one gave is gone.           *)
LEMMA RolesLicensed ==
    ASSUME IInv, NEW r \in Requests, CreateCustomRole(r) \/ DeleteCustomRole(r)
    PROVE  Licensed
<1> DEFINE q == req[r]
           role == q.change.role
<1>1. CASE UNCHANGED accounts
  BY <1>1, NothingGained DEF accounts, Holds, Admins
<1>2. CASE ~UNCHANGED accounts
  <2>1. q.kind \in {"new role", "delete role"} /\ q.pc = "commit"
    BY DEF CreateCustomRole, DeleteCustomRole, Commit, At
  <2>2. ChangeOK(q)  BY <2>1, ByKind DEF IInv, RequestsOK, Changes
  <2>3. NameDecided(q.change)  BY <2>1, <2>2 DEF ChangeOK, AuthorityType, Decided
  <2>4. role \notin Builtins  BY <2>3, AccountsAssumption DEF NameDecided
  <2>5. /\ DOMAIN users' = DOMAIN users
        /\ \A u \in DOMAIN users : users'[u].roles \in {users[u].roles, users[u].roles \ {role}}
        /\ managed' \ {role} = managed \ {role}
        /\ \A x, p : x # role => (<<x, p>> \in grants' <=> <<x, p>> \in grants)
        /\ \/ \A p : <<role, p>> \notin grants'
           \/ \A u \in DOMAIN users : role \notin users'[u].roles
    <3>1. CASE CreateCustomRole(r)
      <4>1. MayCreate(q) /\ managed' = managed \cup {role} /\ UNCHANGED <<users, grants>>
        BY <1>2, <3>1 DEF CreateCustomRole, Commit
      <4>2. \A p : <<role, p>> \notin grants  BY <4>1 DEF MayCreate
      <4> QED  BY <4>1, <4>2
    <3>2. CASE DeleteCustomRole(r)
      <4>1. /\ users' = [u \in DOMAIN users |-> [users[u] EXCEPT !.roles = @ \ {role}]]
            /\ grants' = {g \in grants : g[1] # role} /\ managed' = managed \ {role}
        BY <1>2, <3>2 DEF DeleteCustomRole, Commit
      <4>2. \A u \in DOMAIN users : users'[u].roles = users[u].roles \ {role}
        BY <4>1 DEF IInv, Tables, UsersInv, UsersTyped, UserType
      <4> QED  BY <4>1, <4>2
    <3> QED  BY <3>1, <3>2
  <2>6. \A x : x # role => RolePermissions(x, managed', grants') = RolePermissions(x, managed, grants)
    BY <2>5 DEF RolePermissions
  <2>7. (\A p : <<role, p>> \notin grants') => RolePermissions(role, managed', grants') = {}
    BY <2>4 DEF RolePermissions, Defaults, Builtins
  <2>8. ASSUME NEW u \in DOMAIN users, NEW p \in Holds(u)'  PROVE p \in Holds(u)
    <3>1. p \in Effective(users'[u].roles, managed', grants')  BY <2>5, <2>8, HeldAs
    <3>2. PICK x \in users'[u].roles : p \in RolePermissions(x, managed', grants')  BY <3>1, GivenByRole
    <3>3. x # role  BY <2>5, <2>7, <3>2
    <3>4. x \in users[u].roles /\ p \in RolePermissions(x, managed, grants)  BY <2>5, <2>6, <3>2, <3>3
    <3> QED  BY <3>4, GivenByRole, HeldAs
  <2>9. Admins \subseteq Admins'  BY <2>4, <2>5 DEF Admins, Builtins
  <2> QED  BY <2>8, <2>9, NothingGained
<1> QED  BY <1>1, <1>2

LEMMA StepLicensed ==
    ASSUME IInv, NEW r \in Requests, Start(r) \/ Work(r) \/ StartDrain(r)
    PROVE  Licensed
<1>1. ASSUME UNCHANGED <<managed, grants>>, \A u \in DOMAIN users : u \in DOMAIN users' /\ users'[u].roles = users[u].roles
      PROVE  Licensed
  <2>1. \A u \in DOMAIN users : Holds(u)' = Holds(u)  BY <1>1, HeldAs
  <2>2. Admins \subseteq Admins'  BY <1>1 DEF Admins
  <2> QED  BY <2>1, <2>2, NothingGained
<1> QED  BY <1>1, AccessSame, ChangeRolesLicensed, DeleteUserLicensed, GrantsLicensed, RolesLicensed

(* Every account is entered by an identity that leads to it alone, its      *)
(* primary one is linked to nobody else, and it keeps one.                  *)
THEOREM IdentitiesHold == Spec => OneAccountPerIdentity
<1>1. ASSUME IInv, IInv', [Next]_vars  PROVE [\A u \in DOMAIN users' : Entered(u)]_vars
  <2> SUFFICES ASSUME Next, NEW u \in DOMAIN users'  PROVE Entered(u)
    BY <1>1
  <2>1. UsersInv'  BY <1>1 DEF IInv, Tables
  <2>2. \E i \in Providers : Owners(i)' = {u}  BY <2>1, EntersByOne
  <2>3. /\ \A i \in DOMAIN identities' : users'[u].primary = i => identities'[i] = u
        /\ \A x \in DOMAIN users' \ {u} : users'[x].primary # users'[u].primary
    BY <2>1 DEF UsersInv, Identified
  <2>4. ASSUME u \in DOMAIN users, Own(u) # {}  PROVE Own(u)' # {}
    <3>1. CASE Time  BY <2>4, <3>1 DEF Time, GoesIdle, RunsOut, GraceEnds, Ages, accounts, Own
    <3> QED  BY <1>1, <2>4, <3>1, OwnKept DEF Next
  <2> QED  BY <2>2, <2>3, <2>4 DEF Entered
<1> QED  BY <1>1, IInvHolds, PTL DEF Spec, OneAccountPerIdentity

(* What a step gives to anyone, whoever acted held; an administrator loses   *)
(* the role by an administrator only.                                        *)
THEOREM AuthorityHolds == Spec => NobodyExceeds
<1>1. ASSUME IInv, [Next]_vars  PROVE [Licensed]_vars
  <2>1. CASE Time
    BY <2>1, NothingGained DEF Time, GoesIdle, RunsOut, GraceEnds, Ages, accounts, Holds, Admins
  <2> QED  BY <1>1, <2>1, StepLicensed DEF Next
<1> QED  BY <1>1, IInvHolds, PTL DEF Spec, NobodyExceeds
=============================================================================
