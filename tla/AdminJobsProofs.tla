--------------------------- MODULE AdminJobsProofs ---------------------------
(***************************************************************************)
(* What holds of the background work for any number of jobs, pages,        *)
(* workers, requests, incidents, reviewers and faults.                     *)
(*                                                                         *)
(* AdminJobs: no page is touched twice by a job, done means all, an        *)
(* outcome is final, and nothing is committed for a user who lost the      *)
(* grant.  Each claim has an attempt number of its own, so a row that is   *)
(* as one worker claimed it is as no other did; and what a job has touched *)
(* is what lies before its cursor, or before the next one while a slice is *)
(* committed and its row not yet advanced.                                 *)
(*                                                                         *)
(* AuditOutages: health data leaves only with its evidence recorded, and   *)
(* an incident is decided once.                                            *)
(***************************************************************************)
EXTENDS MCAdminJobs, FiniteSetTheorems, TLAPS

Phases == {"send", "claim", "start", "apply", "finish", "fail"}
WorkerType == [phase : Phases, job : Jobs, message : BOOLEAN, claim : Row, ids : (SUBSET Pages) \cup {None}]
Workerly == worker = [w \in Workers |-> worker[w]] /\ \A w \in Workers : worker[w] = Idle \/ worker[w] \in WorkerType
Typed == TypeOK /\ Workerly

(* Worker w claimed job j.                                                  *)
Claimed(w, j) == worker[w] # Idle /\ worker[w].job = j /\ worker[w].claim # NoRow
(* A claim is a row that runs, and each has an attempt number of its own.   *)
ClaimsDiffer ==
    /\ \A w \in Workers, j \in Jobs : Claimed(w, j) =>
          /\ worker[w].claim.status = "running" /\ row[j].status # "none"
          /\ 1 <= worker[w].claim.attempts /\ worker[w].claim.attempts <= row[j].attempts
    /\ \A w, v \in Workers, j \in Jobs :
          Claimed(w, j) /\ Claimed(v, j) /\ worker[w].claim.attempts = worker[v].claim.attempts => w = v
(* Until its slice is done and the row advanced, the row is as claimed.     *)
Working == {"start", "apply", "finish"}
RowsHeld == \A w \in Workers : worker[w].phase \in Working => Claimed(w, Job(w)) /\ Holds(w)
(* Where a row stands.                                                      *)
RowSound(j) ==
    LET r == row[j]
    IN  /\ r.status = "none" => r.cursor = 0 /\ r.attempts = 0 /\ resolved[j] = None
        /\ r.status # "none" /\ r.ids # None => resolved[j] = r.ids /\ r.cursor <= Cardinality(r.ids)
        /\ r.ids = None => r.cursor = 0
        /\ r.updated = r.cursor
        /\ r.status \in {"queued", "running"} => r.cursor = 0 \/ (r.ids # None /\ r.cursor < Cardinality(r.ids))
        /\ r.status = "queued" => r.attempts <= r.cursor /\ (r.ids = None => resolved[j] = None)
        /\ r.status = "running" => r.attempts <= r.cursor + 1
        /\ r.status = "done" => r.ids # None /\ r.cursor = Cardinality(r.ids)
(* What a worker works on.                                                  *)
Targets(w) ==
    /\ worker[w].phase = "start" =>
          worker[w].ids = worker[w].claim.ids /\ (worker[w].ids = None => resolved[Job(w)] = None)
    /\ worker[w].phase \in {"apply", "finish"} =>
          /\ worker[w].ids # None /\ resolved[Job(w)] = worker[w].ids
          /\ worker[w].claim.cursor <= Cardinality(worker[w].ids)
    /\ worker[w].phase = "fail" => worker[w].claim # NoRow
(* What a job has touched: the pages before its n-th.                       *)
Reached(ids, n) == [p \in Pages |-> IF ids # None /\ p \in First(ids, n) THEN 1 ELSE 0]
TouchedTo(j, n) == touched[j] = Reached(resolved[j], n)
Touching ==
    /\ \A j \in Jobs : \/ TouchedTo(j, row[j].cursor)
                       \/ TouchedTo(j, row[j].cursor + Limit) /\ row[j].status \in {"running", "failed"}
    /\ \A w \in Workers : /\ worker[w].phase \in {"start", "apply"} => TouchedTo(Job(w), row[Job(w)].cursor)
                          /\ worker[w].phase = "finish" => TouchedTo(Job(w), row[Job(w)].cursor + Limit)
Rows == \A j \in Jobs : RowSound(j)
AllTargets == \A w \in Workers : Targets(w)
IInv == Typed /\ ClaimsDiffer /\ RowsHeld /\ Rows /\ AllTargets /\ Touching

-----------------------------------------------------------------------------
(* Pages by rank.                                                           *)
LEMMA Ranks ==
    ASSUME NEW ids \in SUBSET Pages
    PROVE  /\ IsFiniteSet(ids) /\ Cardinality(ids) \in Nat /\ Cardinality(ids) <= Cardinality(Pages)
           /\ \A p \in ids : /\ Cardinality({q \in ids : q < p}) \in Nat
                             /\ Cardinality({q \in ids : q < p}) < Cardinality(ids)
<1>1. IsFiniteSet(Pages) /\ Pages \subseteq Nat  BY AdminJobsAssumption
<1>2. IsFiniteSet(ids) /\ Cardinality(ids) <= Cardinality(Pages)  BY <1>1, FS_Subset
<1>3. Cardinality(ids) \in Nat  BY <1>2, FS_CardinalityType
<1>4. ASSUME NEW p \in ids
      PROVE  /\ Cardinality({q \in ids : q < p}) \in Nat
             /\ Cardinality({q \in ids : q < p}) < Cardinality(ids)
  <2>1. PICK S : S = {q \in ids : q < p}  OBVIOUS
  <2>2. S \subseteq ids  BY <2>1
  <2>3. S # ids  BY <1>1, <2>1
  <2>4. IsFiniteSet(S) /\ Cardinality(S) <= Cardinality(ids) /\ Cardinality(S) # Cardinality(ids)
    BY <1>2, <2>2, <2>3, FS_Subset
  <2>5. Cardinality(S) \in Nat  BY <2>4, FS_CardinalityType
  <2> QED  BY <1>3, <2>1, <2>4, <2>5
<1> QED  BY <1>2, <1>3, <1>4

LEMMA FirstFacts ==
    ASSUME NEW ids \in SUBSET Pages
    PROVE  /\ First(ids, 0) = {}
           /\ \A m, n \in Nat : m <= n => First(ids, m) \subseteq First(ids, n)
           /\ \A n \in Nat : Cardinality(ids) <= n => First(ids, n) = ids
<1>1. \A p \in ids : /\ Cardinality({q \in ids : q < p}) \in Nat
                     /\ Cardinality({q \in ids : q < p}) < Cardinality(ids)
  BY Ranks
<1>2. Cardinality(ids) \in Nat  BY Ranks
<1>3. First(ids, 0) = {}  BY <1>1 DEF First
<1>4. \A m, n \in Nat : m <= n => First(ids, m) \subseteq First(ids, n)  BY <1>1 DEF First
<1>5. \A n \in Nat : Cardinality(ids) <= n => First(ids, n) = ids  BY <1>1, <1>2 DEF First
<1> QED  BY <1>3, <1>4, <1>5

Size == Cardinality(Pages)
LEMMA SizeIs == Size \in Nat \ {0} /\ Limit \in Nat \ {0} /\ \A S \in SUBSET Pages : None # S
<1>1. IsFiniteSet(Pages) /\ Pages # {} /\ Limit \in Nat \ {0} /\ \A S \in SUBSET Pages : None # S
  BY AdminJobsAssumption
<1>2. Cardinality(Pages) \in Nat /\ Cardinality(Pages) # 0  BY <1>1, FS_CardinalityType, FS_EmptySet
<1> QED  BY <1>1, <1>2 DEF Size

-----------------------------------------------------------------------------
LEMMA Busy ==
    ASSUME IInv, NEW w \in Workers, worker[w].phase # "idle"
    PROVE  worker[w] # Idle /\ worker[w] \in WorkerType /\ Job(w) \in Jobs /\ Job(w) = worker[w].job
<1>1. worker[w] # Idle  BY DEF Idle
<1>2. worker[w] \in WorkerType  BY <1>1 DEF IInv, Typed, Workerly
<1> QED  BY <1>1, <1>2 DEF WorkerType, Job

LEMMA Went ==
    ASSUME IInv, NEW w \in Workers, worker[w].phase # "idle", NEW to \in Phases, Goes(w, to)
    PROVE  \E x \in WorkerType :
             /\ worker' = [worker EXCEPT ![w] = x] /\ x.phase = to /\ x.job = worker[w].job
             /\ x.message = worker[w].message /\ x.claim = worker[w].claim /\ x.ids = worker[w].ids
<1> DEFINE x == [worker[w] EXCEPT !.phase = to]
<1>1. worker' = [worker EXCEPT ![w] = x]  BY DEF Goes
<1>2. worker[w] \in WorkerType  BY Busy
<1>3. /\ x \in WorkerType /\ x.phase = to /\ x.job = worker[w].job /\ x.message = worker[w].message
      /\ x.claim = worker[w].claim /\ x.ids = worker[w].ids
  BY <1>2 DEF WorkerType
<1> QED  BY <1>1, <1>3

LEMMA WorkerTyped ==
    ASSUME IInv, NEW w \in Workers, NEW x, x = Idle \/ x \in WorkerType, worker' = [worker EXCEPT ![w] = x]
    PROVE  Workerly' /\ worker'[w] = x /\ \A v \in Workers \ {w} : worker'[v] = worker[v]
<1>1. worker'[w] = x /\ \A v \in Workers \ {w} : worker'[v] = worker[v]  BY DEF IInv, Typed, Workerly
<1> QED  BY <1>1 DEF IInv, Typed, Workerly

OthersTyped == /\ bound \in Bindings /\ faults \subseteq Faults /\ row \in [Jobs -> Row] /\ sent \in [Jobs -> Nat]
               /\ standing \in {"granted", "revoked", "deleted"} /\ found \subseteq Pages
               /\ resolved \in [Jobs -> (SUBSET Pages) \cup {None}] /\ touched \in [Jobs -> [Pages -> Nat]]
LEMMA TypedIs == Typed <=> OthersTyped /\ Workerly
<1>1. ASSUME Workerly  PROVE \A w \in Workers : worker[w] = Idle \/ (worker[w].job \in Jobs /\ worker[w].claim \in Row)
  BY <1>1 DEF Workerly, WorkerType
<1> QED  BY <1>1 DEF Typed, TypeOK, OthersTyped
LEMMA TypedIsNext == Typed' <=> OthersTyped' /\ Workerly'
  BY TypedIs, PTL

(* Steps that change no row and nothing touched, and leave worker w with    *)
(* nothing in hand but, at most, the claim it had.                          *)
LEMMA Aside ==
    ASSUME IInv, NEW w \in Workers, NEW x, x = Idle \/ x \in WorkerType, worker' = [worker EXCEPT ![w] = x],
           x # Idle => /\ x.phase \notin Working /\ (x.phase = "fail" => x.claim # NoRow)
                       /\ x.claim = NoRow \/ (worker[w] # Idle /\ x.claim = worker[w].claim /\ x.job = worker[w].job),
           OthersTyped', UNCHANGED <<row, resolved, touched>>
    PROVE  IInv'
<1>1. Workerly' /\ worker'[w] = x /\ \A v \in Workers \ {w} : worker'[v] = worker[v]  BY WorkerTyped
<1>2. Typed'  BY <1>1, TypedIsNext
<1>3. \A v \in Workers, j \in Jobs : Claimed(v, j)' => Claimed(v, j) /\ worker'[v].claim = worker[v].claim
  BY <1>1 DEF Claimed
<1>4. ClaimsDiffer'
  <2>1. \A v \in Workers, j \in Jobs : Claimed(v, j)' =>
          /\ worker'[v].claim.status = "running" /\ row'[j].status # "none"
          /\ 1 <= worker'[v].claim.attempts /\ worker'[v].claim.attempts <= row'[j].attempts
    BY <1>3 DEF IInv, ClaimsDiffer
  <2>2. \A u, v \in Workers, j \in Jobs :
          Claimed(u, j)' /\ Claimed(v, j)' /\ worker'[u].claim.attempts = worker'[v].claim.attempts => u = v
    BY <1>3 DEF IInv, ClaimsDiffer
  <2> QED  BY <2>1, <2>2 DEF ClaimsDiffer
<1>5. \A v \in Workers : worker'[v].phase \in Working => v # w  BY <1>1 DEF Idle, Working
<1>6. RowsHeld'
  <2>1. ASSUME NEW v \in Workers, worker'[v].phase \in Working  PROVE Claimed(v, Job(v))' /\ Holds(v)'
    <3>1. worker'[v] = worker[v]  BY <1>1, <1>5, <2>1
    <3> QED  BY <2>1, <3>1 DEF IInv, RowsHeld, Claimed, Holds, Job
  <2> QED  BY <2>1 DEF RowsHeld
<1>7. Rows'  BY DEF IInv, Rows, RowSound
<1>8. AllTargets'
  <2>1. ASSUME NEW v \in Workers  PROVE Targets(v)'
    <3>1. worker'[v].phase \in Working => worker'[v] = worker[v]  BY <1>1, <1>5
    <3>2. Targets(v)  BY DEF IInv, AllTargets
    <3>3. worker'[v].phase = "fail" => worker'[v].claim # NoRow  BY <1>1, <3>2 DEF Targets, Idle
    <3> QED  BY <3>1, <3>2, <3>3 DEF Targets, Working, Job
  <2> QED  BY <2>1 DEF AllTargets
<1>9. Touching'
  <2>1. ASSUME NEW v \in Workers
        PROVE  /\ worker'[v].phase \in {"start", "apply"} => TouchedTo(Job(v), row[Job(v)].cursor)'
               /\ worker'[v].phase = "finish" => TouchedTo(Job(v), row[Job(v)].cursor + Limit)'
    <3>1. worker'[v].phase \in Working => worker'[v] = worker[v]  BY <1>1, <1>5
    <3> QED  BY <3>1 DEF IInv, Touching, TouchedTo, Working, Job
  <2>2. \A j \in Jobs : \/ TouchedTo(j, row[j].cursor)'
                        \/ TouchedTo(j, row[j].cursor + Limit)' /\ row'[j].status \in {"running", "failed"}
    BY DEF IInv, Touching, TouchedTo
  <2> QED  BY <2>1, <2>2 DEF Touching
<1> QED  BY <1>2, <1>4, <1>6, <1>7, <1>8, <1>9 DEF IInv

(* Steps of the queue, of people, and of what goes wrong.                   *)
LEMMA Around ==
    ASSUME IInv, UNCHANGED <<row, resolved, touched, worker>>, OthersTyped'
    PROVE  IInv'
<1>1. Workerly' /\ Typed'  BY TypedIsNext DEF IInv, Typed, Workerly
<1>2. ClaimsDiffer' /\ RowsHeld' /\ Rows' /\ AllTargets'
  BY DEF IInv, ClaimsDiffer, Claimed, RowsHeld, Holds, Job, Rows, RowSound, AllTargets, Targets
<1>3. Touching'  BY DEF IInv, Touching, TouchedTo, Job
<1> QED  BY <1>1, <1>2, <1>3 DEF IInv

LEMMA Others == ASSUME IInv  PROVE OthersTyped
  BY TypedIs DEF IInv

LEMMA DuplicateStep == ASSUME IInv, NEW j \in Jobs, Duplicate(j)  PROVE IInv'
<1>1. sent' \in [Jobs -> Nat]
  <2>1. sent \in [Jobs -> Nat] /\ sent[j] + 1 \in Nat  BY Others DEF OthersTyped
  <2> QED  BY <2>1 DEF Duplicate
<1>2. OthersTyped'  BY <1>1, Others DEF Duplicate, Fails, OthersTyped
<1> QED  BY <1>2, Around DEF Duplicate

LEMMA RevokeStep == ASSUME IInv, Revoke  PROVE IInv'
<1>1. standing' \in {"granted", "revoked", "deleted"}  BY Others DEF Revoke, OthersTyped
<1>2. OthersTyped'  BY <1>1, Others DEF Revoke, OthersTyped
<1> QED  BY <1>2, Around DEF Revoke

LEMMA EditStep == ASSUME IInv, NEW p \in Pages, Edit(p)  PROVE IInv'
<1>1. OthersTyped'  BY Others DEF Edit, OthersTyped
<1> QED  BY <1>1, Around DEF Edit

LEMMA DeliverStep == ASSUME IInv, NEW w \in Workers, NEW j \in Jobs, Deliver(w, j)  PROVE IInv'
<1> DEFINE x == Taken("claim", j, TRUE)
<1>1. NoRow \in Row  BY Ranks, SizeIs DEF NoRow, Row, Size
<1>2. x \in WorkerType /\ x.phase = "claim" /\ x.claim = NoRow  BY <1>1 DEF Taken, WorkerType, Phases
<1>3. worker' = [worker EXCEPT ![w] = x] /\ UNCHANGED <<row, resolved, touched>>  BY DEF Deliver
<1>4. OthersTyped'
  <2>1. sent' \in [Jobs -> Nat]
    <3>1. sent \in [Jobs -> Nat] /\ sent[j] > 0 /\ sent' = [sent EXCEPT ![j] = @ - 1]
      BY Others DEF Deliver, OthersTyped
    <3>2. sent[j] - 1 \in Nat  BY <3>1
    <3> QED  BY <3>1, <3>2
  <2> QED  BY <2>1, Others DEF Deliver, OthersTyped
<1>5. x.phase \notin Working  BY <1>2 DEF Working
<1> HIDE DEF x
<1> QED  BY <1>2, <1>3, <1>4, <1>5, Aside

LEMMA DiesStep == ASSUME IInv, NEW w \in Workers, Dies(w)  PROVE IInv'
<1>1. worker' = [worker EXCEPT ![w] = Idle] /\ UNCHANGED <<row, resolved, touched>>  BY DEF Dies, Returns
<1>2. Job(w) \in Jobs  BY DEF Dies, IInv, Typed, Workerly, WorkerType, Job
<1>3. OthersTyped'
  <2>1. sent' \in [Jobs -> Nat]
    <3>1. sent \in [Jobs -> Nat]  BY Others DEF OthersTyped
    <3>2. sent[Job(w)] + 1 \in Nat /\ sent[Job(w)] \in Nat  BY <1>2, <3>1
    <3> QED  BY <1>2, <3>1, <3>2 DEF Dies
  <2> QED  BY <2>1, Others DEF Dies, Fails, OthersTyped
<1> QED  BY <1>1, <1>3, Aside

(* A worker goes on to one of its steps that need no row in hand.           *)
LEMMA GoesAside ==
    ASSUME IInv, NEW w \in Workers, worker[w].phase # "idle", NEW to \in {"send", "claim", "fail"},
           Goes(w, to) \/ Returns(w), to = "fail" => worker[w].claim # NoRow,
           OthersTyped', UNCHANGED <<row, resolved, touched>>
    PROVE  IInv'
<1>1. CASE Returns(w)  BY <1>1, Aside DEF Returns
<1>2. CASE Goes(w, to)
  <2>1. to \in Phases /\ to \notin Working  BY DEF Phases, Working
  <2>2. PICK x \in WorkerType :
          worker' = [worker EXCEPT ![w] = x] /\ x.phase = to /\ x.job = worker[w].job /\ x.claim = worker[w].claim
    BY <1>2, <2>1, Went
  <2>3. worker[w] # Idle  BY Busy
  <2> QED  BY <2>1, <2>2, <2>3, Aside
<1> QED  BY <1>1, <1>2

LEMMA SendStep == ASSUME IInv, NEW w \in Workers, Send(w)  PROVE IInv'
<1>1. worker[w].phase = "send" /\ UNCHANGED <<row, resolved, touched>>  BY DEF Send
<1>2. Job(w) \in Jobs  BY <1>1, Busy
<1>3. OthersTyped'
  <2>1. sent' \in [Jobs -> Nat]
    <3>1. sent \in [Jobs -> Nat]  BY Others DEF OthersTyped
    <3>2. sent' = sent \/ sent' = [sent EXCEPT ![Job(w)] = @ + 1]  BY DEF Send
    <3>3. sent[Job(w)] + 1 \in Nat  BY <1>2, <3>1
    <3> QED  BY <1>2, <3>1, <3>2, <3>3
  <2>2. faults' \subseteq Faults  BY Others DEF Send, Fails, NoFault, OthersTyped
  <2> QED  BY <2>1, <2>2, Others DEF Send, OthersTyped
<1>4. Goes(w, "claim") \/ (Goes(w, "fail") /\ worker[w].claim # NoRow) \/ Returns(w)  BY DEF Send
<1> QED  BY <1>1, <1>3, <1>4, GoesAside

-----------------------------------------------------------------------------
(* What a step on the row of job j must leave, worker w having x in hand.   *)
HandSound(j, x) ==
    /\ x.phase \in Working => x.claim # NoRow /\ row[j] = x.claim
    /\ x.phase = "start" => x.ids = x.claim.ids /\ (x.ids = None => resolved[j] = None)
    /\ x.phase \in {"apply", "finish"} =>
          x.ids # None /\ resolved[j] = x.ids /\ x.claim.cursor <= Cardinality(x.ids)
    /\ x.phase = "fail" => x.claim # NoRow
    /\ x.phase \in {"start", "apply"} => TouchedTo(j, row[j].cursor)
    /\ x.phase = "finish" => TouchedTo(j, row[j].cursor + Limit)
JobTouched(j) == \/ TouchedTo(j, row[j].cursor)
                 \/ TouchedTo(j, row[j].cursor + Limit) /\ row[j].status \in {"running", "failed"}

Unmoved(j) == \A i \in Jobs \ {j} : row'[i] = row[i] /\ resolved'[i] = resolved[i] /\ touched'[i] = touched[i]
OthersHold(w, j, x) ==
    \A v \in Workers \ {w} :
        /\ worker[v].phase \in Working => Job(v) # j
        /\ Claimed(v, j) => /\ row'[j].status # "none" /\ row[j].attempts <= row'[j].attempts
                            /\ x # Idle /\ x.claim # NoRow => x.claim.attempts # worker[v].claim.attempts
HandClaimed(j, x) ==
    x # Idle /\ x.claim # NoRow => /\ x.claim.status = "running" /\ row'[j].status # "none"
                                  /\ 1 <= x.claim.attempts /\ x.claim.attempts <= row'[j].attempts

LEMMA RowMoves ==
    ASSUME IInv, NEW w \in Workers, NEW j \in Jobs, NEW x, x = Idle \/ (x \in WorkerType /\ x.job = j),
           worker' = [worker EXCEPT ![w] = x], OthersTyped',
           Unmoved(j), OthersHold(w, j, x), HandClaimed(j, x),
           x # Idle => HandSound(j, x)',
           RowSound(j)', JobTouched(j)'
    PROVE  IInv'
<1> USE DEF Unmoved, OthersHold, HandClaimed
<1>1. Workerly' /\ worker'[w] = x /\ \A v \in Workers \ {w} : worker'[v] = worker[v]  BY WorkerTyped
<1>2. Typed'  BY <1>1, TypedIsNext
<1>3. \A v \in Workers \ {w}, i \in Jobs : Claimed(v, i)' => Claimed(v, i)  BY <1>1 DEF Claimed
<1>4. \A i \in Jobs : Claimed(w, i)' => i = j /\ x # Idle /\ x.claim # NoRow  BY <1>1 DEF Claimed
<1>5. row \in [Jobs -> Row] /\ row' \in [Jobs -> Row] /\ \A r \in Row : r.attempts \in Nat /\ r.cursor \in Nat
  BY Others, SizeIs DEF OthersTyped, Row, Size
<1>6. \A v \in Workers : worker[v] # Idle => worker[v].claim \in Row  BY DEF IInv, Typed, Workerly, WorkerType
<1>7. ClaimsDiffer'
  <2>1. ASSUME NEW v \in Workers, NEW i \in Jobs, Claimed(v, i)'
        PROVE  /\ worker'[v].claim.status = "running" /\ row'[i].status # "none"
               /\ 1 <= worker'[v].claim.attempts /\ worker'[v].claim.attempts <= row'[i].attempts
    <3>1. CASE v = w  BY <1>1, <1>4, <2>1, <3>1
    <3>2. CASE v # w
      <4>1. Claimed(v, i) /\ worker'[v] = worker[v] /\ worker[v].claim \in Row
        BY <1>1, <1>3, <1>6, <2>1, <3>2 DEF Claimed
      <4>2. /\ worker[v].claim.status = "running" /\ row[i].status # "none"
            /\ 1 <= worker[v].claim.attempts /\ worker[v].claim.attempts <= row[i].attempts
        BY <4>1 DEF IInv, ClaimsDiffer
      <4>3. row'[i].status # "none" /\ row[i].attempts <= row'[i].attempts
        <5>1. CASE i = j  BY <3>2, <4>1, <5>1
        <5>2. CASE i # j  BY <1>5, <4>2, <5>2
        <5> QED  BY <5>1, <5>2
      <4> QED  BY <1>5, <4>1, <4>2, <4>3
    <3> QED  BY <3>1, <3>2
  <2>2. ASSUME NEW u \in Workers, NEW v \in Workers, NEW i \in Jobs, Claimed(u, i)', Claimed(v, i)',
               worker'[u].claim.attempts = worker'[v].claim.attempts
        PROVE  u = v
    <3>1. CASE u = w /\ v # w
      <4>1. i = j /\ x # Idle /\ x.claim # NoRow /\ Claimed(v, j)  BY <1>3, <1>4, <2>2, <3>1
      <4> QED  BY <1>1, <2>2, <3>1, <4>1
    <3>2. CASE v = w /\ u # w
      <4>1. i = j /\ x # Idle /\ x.claim # NoRow /\ Claimed(u, j)  BY <1>3, <1>4, <2>2, <3>2
      <4> QED  BY <1>1, <2>2, <3>2, <4>1
    <3>3. CASE u # w /\ v # w  BY <1>1, <1>3, <2>2, <3>3 DEF IInv, ClaimsDiffer
    <3> QED  BY <3>1, <3>2, <3>3
  <2> QED  BY <2>1, <2>2 DEF ClaimsDiffer
<1>8. \A v \in Workers \ {w} : worker[v].phase \in Working => Job(v) \in Jobs \ {j} /\ Claimed(v, Job(v)) /\ Holds(v)
  BY Busy DEF IInv, RowsHeld, Working
<1>9. \A v \in Workers \ {w} : Job(v)' = Job(v)  BY <1>1 DEF Job
<1>10. x # Idle => Job(w)' = j  BY <1>1 DEF Job, WorkerType
<1>11. x.phase \in Working => x # Idle  BY DEF Idle, Working
<1>12. RowsHeld'
  <2>1. ASSUME NEW v \in Workers, worker'[v].phase \in Working  PROVE Claimed(v, Job(v))' /\ Holds(v)'
    <3>1. CASE v = w  BY <1>1, <1>10, <1>11, <2>1, <3>1 DEF HandSound, Claimed, Holds, WorkerType
    <3>2. CASE v # w  BY <1>1, <1>8, <1>9, <2>1, <3>2 DEF Claimed, Holds
    <3> QED  BY <3>1, <3>2
  <2> QED  BY <2>1 DEF RowsHeld
<1>13. Rows'
  <2>1. ASSUME NEW i \in Jobs \ {j}  PROVE RowSound(i)'
    <3>1. RowSound(i)  BY DEF IInv, Rows
    <3> QED  BY <3>1 DEF RowSound
  <2> QED  BY <2>1 DEF Rows
<1>14. AllTargets'
  <2>1. ASSUME NEW v \in Workers  PROVE Targets(v)'
    <3>1. CASE v = w  BY <1>1, <1>10, <1>11, <3>1 DEF HandSound, Targets, Working, Idle
    <3>2. CASE v # w
      <4>1. Targets(v) /\ worker'[v] = worker[v]  BY <1>1, <3>2 DEF IInv, AllTargets
      <4>2. worker[v].phase \in Working => resolved'[Job(v)] = resolved[Job(v)]  BY <1>8, <3>2
      <4> QED  BY <1>9, <3>2, <4>1, <4>2 DEF Targets, Working
    <3> QED  BY <3>1, <3>2
  <2> QED  BY <2>1 DEF AllTargets
<1>15. Touching'
  <2>1. ASSUME NEW v \in Workers
        PROVE  /\ worker'[v].phase \in {"start", "apply"} => TouchedTo(Job(v), row[Job(v)].cursor)'
               /\ worker'[v].phase = "finish" => TouchedTo(Job(v), row[Job(v)].cursor + Limit)'
    <3>1. CASE v = w  BY <1>1, <1>10, <1>11, <3>1 DEF HandSound, Working, TouchedTo
    <3>2. CASE v # w
      <4>1. worker'[v] = worker[v] /\ Job(v)' = Job(v)  BY <1>1, <1>9, <3>2
      <4>2. worker[v].phase \in Working =>
              /\ resolved'[Job(v)] = resolved[Job(v)] /\ row'[Job(v)] = row[Job(v)]
              /\ touched'[Job(v)] = touched[Job(v)]
        BY <1>8, <3>2
      <4> QED  BY <4>1, <4>2 DEF IInv, Touching, TouchedTo, Working
    <3> QED  BY <3>1, <3>2
  <2>2. \A i \in Jobs : JobTouched(i)'
    <3>1. ASSUME NEW i \in Jobs \ {j}  PROVE JobTouched(i)'
      <4>1. JobTouched(i)  BY DEF IInv, Touching, JobTouched
      <4> QED  BY <4>1 DEF JobTouched, TouchedTo
    <3> QED  BY <3>1
  <2> QED  BY <2>1, <2>2 DEF Touching, JobTouched
<1> QED  BY <1>2, <1>7, <1>12, <1>13, <1>14, <1>15 DEF IInv

(* Who holds a row is the only one that does.                               *)
LEMMA Alone ==
    ASSUME IInv, NEW w \in Workers, worker[w].phase # "idle", worker[w].claim # NoRow, Holds(w)
    PROVE  /\ Claimed(w, Job(w)) /\ row[Job(w)] = worker[w].claim /\ row[Job(w)].status = "running"
           /\ 1 <= row[Job(w)].attempts
           /\ \A v \in Workers \ {w} : /\ worker[v].phase \in Working => Job(v) # Job(w)
                                       /\ Claimed(v, Job(w)) => worker[v].claim.attempts # worker[w].claim.attempts
<1>1. Claimed(w, Job(w)) /\ Job(w) \in Jobs  BY Busy DEF Claimed
<1>2. row[Job(w)] = worker[w].claim  BY DEF Holds
<1>3. row[Job(w)].status = "running" /\ 1 <= row[Job(w)].attempts  BY <1>1, <1>2 DEF IInv, ClaimsDiffer
<1>4. ASSUME NEW v \in Workers \ {w}, Claimed(v, Job(w))  PROVE worker[v].claim.attempts # worker[w].claim.attempts
  BY <1>1, <1>4 DEF IInv, ClaimsDiffer
<1>5. ASSUME NEW v \in Workers \ {w}, worker[v].phase \in Working, Job(v) = Job(w)  PROVE FALSE
  <2>1. Claimed(v, Job(w)) /\ worker[v].claim = row[Job(w)]  BY <1>5 DEF IInv, RowsHeld, Holds
  <2> QED  BY <1>2, <1>4, <2>1
<1> QED  BY <1>1, <1>2, <1>3, <1>4, <1>5

LEMMA Held ==
    ASSUME IInv, NEW w \in Workers, worker[w].phase \in Working
    PROVE  worker[w].phase # "idle" /\ worker[w].claim # NoRow /\ Holds(w)
  BY DEF IInv, RowsHeld, Claimed, Working

LEMMA RowFields ==
    ASSUME NEW r \in Row
    PROVE  /\ r.status \in {"none", "queued", "running", "done", "failed"} /\ r.attempts \in 0..Size
           /\ r.ids \in (SUBSET Pages) \cup {None} /\ r.cursor \in 0..Size /\ r.updated \in 0..Size
           /\ r.attempts \in Nat /\ r.cursor \in Nat /\ r.updated \in Nat
           /\ r \in [status : {r.status}, attempts : {r.attempts}, ids : {r.ids}, cursor : {r.cursor},
                     updated : {r.updated}]
  BY SizeIs DEF Row, Size

LEMMA EnqueueStep ==
    ASSUME IInv, NEW w \in Workers, NEW j \in Jobs, NEW ids \in ((SUBSET Pages) \ {{}}) \cup {None},
           Enqueue(w, j, ids)
    PROVE  IInv'
<1> DEFINE x == Taken("send", j, FALSE)
           r == [row[j] EXCEPT !.status = "queued", !.ids = ids]
<1>1. /\ row[j].status = "none" /\ resolved' = [resolved EXCEPT ![j] = ids] /\ row' = [row EXCEPT ![j] = r]
      /\ worker' = [worker EXCEPT ![w] = x]
      /\ UNCHANGED <<bound, sent, standing, found, faults, touched>>
  BY DEF Enqueue
<1>2. NoRow \in Row  BY Ranks, SizeIs DEF NoRow, Row, Size
<1>3. x \in WorkerType /\ x.phase = "send" /\ x.claim = NoRow /\ x.job = j
  BY <1>2 DEF Taken, WorkerType, Phases
<1>4. OthersTyped /\ row[j] \in Row  BY Others DEF OthersTyped
<1>5. RowSound(j) /\ JobTouched(j)  BY DEF IInv, Rows, Touching, JobTouched
<1>6. row[j].cursor = 0 /\ row[j].attempts = 0 /\ resolved[j] = None /\ row[j].updated = 0
  BY <1>1, <1>5 DEF RowSound
<1>7. /\ r \in Row /\ r.status = "queued" /\ r.ids = ids /\ r.cursor = 0 /\ r.attempts = 0 /\ r.updated = 0
  BY <1>4, <1>6 DEF Row
<1> HIDE DEF x, r
<1>8. row'[j] = r /\ resolved'[j] = ids /\ touched'[j] = touched[j]
      /\ \A i \in Jobs \ {j} : row'[i] = row[i] /\ resolved'[i] = resolved[i] /\ touched'[i] = touched[i]
  BY <1>1, <1>4 DEF OthersTyped
<1>9. OthersTyped'  BY <1>1, <1>4, <1>7 DEF OthersTyped
<1>10. RowSound(j)'
  <2>1. ids # None => ids \in SUBSET Pages /\ Cardinality(ids) \in Nat  BY Ranks
  <2> QED  BY <1>7, <1>8, <2>1 DEF RowSound
<1>11. touched[j] = Reached(None, 0)
  <2>1. \A n : Reached(None, n) = Reached(None, 0)  BY DEF Reached
  <2> QED  BY <1>5, <1>6, <2>1 DEF JobTouched, TouchedTo
<1>12. JobTouched(j)'
  <2>1. \A S \in SUBSET Pages : Reached(S, 0) = Reached(None, 0)  BY FirstFacts DEF Reached
  <2>2. Reached(ids, 0) = Reached(None, 0)  BY <2>1
  <2> QED  BY <1>7, <1>8, <1>11, <2>2 DEF JobTouched, TouchedTo
<1>13. \A v \in Workers : ~Claimed(v, j)  BY <1>1 DEF IInv, ClaimsDiffer
<1>14. \A v \in Workers \ {w} : worker[v].phase \in Working => Job(v) # j  BY <1>13 DEF IInv, RowsHeld
<1>15. HandSound(j, x)'  BY <1>3 DEF HandSound, Working
<1>16. OthersHold(w, j, x)  BY <1>13, <1>14 DEF OthersHold
<1>17. HandClaimed(j, x)  BY <1>3 DEF HandClaimed
<1>18. Unmoved(j)  BY <1>8 DEF Unmoved
<1> QED  BY <1>1, <1>3, <1>9, <1>10, <1>12, <1>15, <1>16, <1>17, <1>18, RowMoves

LEMMA ClaimStep == ASSUME IInv, NEW w \in Workers, Claim(w)  PROVE IInv'
<1>1. worker[w].phase = "claim" /\ UNCHANGED <<bound, sent, standing, found, faults, resolved, touched>>
  BY DEF Claim
<1>0. PICK j \in Jobs : j = Job(w)  BY <1>1, Busy
<1>2. worker[w] # Idle /\ worker[w] \in WorkerType /\ j \in Jobs /\ j = worker[w].job  BY <1>0, <1>1, Busy
<1>3. OthersTyped  BY Others
<1>4. CASE ~Claimable(j)
  <2>1. UNCHANGED row /\ Returns(w)  BY <1>0, <1>4 DEF Claim
  <2>2. OthersTyped'  BY <1>1, <1>3, <2>1 DEF OthersTyped
  <2> QED  BY <1>1, <2>1, <2>2, GoesAside
<1>5. CASE Claimable(j)
  <2>a. PICK r : r = [row[j] EXCEPT !.status = "running", !.attempts = @ + 1]  OBVIOUS
  <2>b. PICK x : x = [worker[w] EXCEPT !.phase = "start", !.claim = r, !.ids = r.ids]  OBVIOUS
  <2>1. row' = [row EXCEPT ![j] = r] /\ worker' = [worker EXCEPT ![w] = x]
    BY <1>0, <1>5, <2>a, <2>b DEF Claim
  <2>2. row[j] \in Row /\ row[j].status = "queued"  BY <1>2, <1>3, <1>5 DEF OthersTyped, Claimable
  <2>3. RowSound(j) /\ JobTouched(j)  BY <1>2 DEF IInv, Rows, Touching, JobTouched
  <2>4. /\ row[j].attempts <= row[j].cursor /\ row[j].attempts \in Nat /\ row[j].cursor \in Nat
        /\ row[j].cursor = 0 \/ (row[j].ids # None /\ row[j].cursor < Cardinality(row[j].ids))
    BY <2>2, <2>3, RowFields DEF RowSound
  <2>5. row[j].attempts + 1 \in 1..Size
    <3>1. row[j].cursor + 1 <= Size
      <4>1. CASE row[j].cursor = 0  BY <4>1, SizeIs
      <4>2. CASE row[j].cursor # 0
        <5>1. row[j].ids \in SUBSET Pages /\ row[j].cursor < Cardinality(row[j].ids)
          BY <2>2, <2>4, <4>2, RowFields
        <5>2. Cardinality(row[j].ids) \in Nat /\ Cardinality(row[j].ids) <= Size  BY <5>1, Ranks DEF Size
        <5> QED  BY <2>4, <5>1, <5>2, SizeIs
      <4> QED  BY <4>1, <4>2
    <3> QED  BY <2>4, <3>1, SizeIs
  <2>6. /\ r \in Row /\ r.status = "running" /\ r.attempts = row[j].attempts + 1 /\ r.ids = row[j].ids
        /\ r.cursor = row[j].cursor /\ r.updated = row[j].updated
    <3>1. /\ r.status = "running" /\ r.attempts = row[j].attempts + 1 /\ r.ids = row[j].ids
          /\ r.cursor = row[j].cursor /\ r.updated = row[j].updated
      BY <2>2, <2>a DEF Row
    <3>2. row[j].attempts + 1 \in 0..Size  BY <2>5, SizeIs
    <3>3. r \in Row  BY <2>2, <2>a, <3>2 DEF Row, Size
    <3> QED  BY <3>1, <3>3
  <2>7. x \in WorkerType /\ x.phase = "start" /\ x.job = j /\ x.claim = r /\ x.ids = r.ids
    BY <1>2, <2>6, <2>b DEF WorkerType, Phases, Row
  <2>8. r # NoRow  BY <2>6 DEF NoRow
  <2>9. /\ row'[j] = r /\ \A i \in Jobs \ {j} : row'[i] = row[i]
        /\ resolved' = resolved /\ touched' = touched
    BY <1>1, <1>2, <1>3, <2>1 DEF OthersTyped
  <2>10. OthersTyped'  BY <1>1, <1>2, <1>3, <2>1, <2>6 DEF OthersTyped
  <2>11. RowSound(j)'  BY <2>2, <2>3, <2>4, <2>6, <2>9 DEF RowSound
  <2>12. TouchedTo(j, row[j].cursor)  BY <2>2, <2>3 DEF JobTouched
  <2>13. TouchedTo(j, row[j].cursor)'  BY <2>6, <2>9, <2>12 DEF TouchedTo
  <2>14. HandSound(j, x)'
    <3>1. x.ids = None => resolved'[j] = None  BY <2>2, <2>3, <2>6, <2>7, <2>9 DEF RowSound
    <3>2. x.claim # NoRow /\ row'[j] = x.claim /\ x.ids = x.claim.ids  BY <2>7, <2>8, <2>9
    <3>3. x.phase = "start"  BY <2>7
    <3> QED  BY <2>13, <3>1, <3>2, <3>3 DEF HandSound
  <2>15. \A v \in Workers \ {w} : worker[v].phase \in Working => Job(v) # j
    BY <2>2 DEF IInv, RowsHeld, ClaimsDiffer, Holds
  <2>16. OthersHold(w, j, x)
    <3>1. ASSUME NEW v \in Workers \ {w}, Claimed(v, j)
          PROVE  worker[v].claim.attempts \in Nat /\ worker[v].claim.attempts <= row[j].attempts
      <4>1. worker[v].claim.attempts <= row[j].attempts  BY <1>2, <3>1 DEF IInv, ClaimsDiffer
      <4>2. worker[v].claim \in Row  BY <3>1 DEF Claimed, IInv, Typed, Workerly, WorkerType
      <4> QED  BY <4>1, <4>2, RowFields
    <3>2. row'[j].status # "none" /\ row[j].attempts <= row'[j].attempts  BY <2>4, <2>6, <2>9
    <3> QED  BY <2>4, <2>6, <2>7, <2>15, <3>1, <3>2 DEF OthersHold
  <2>17. HandClaimed(j, x)  BY <2>4, <2>6, <2>7, <2>9 DEF HandClaimed
  <2>18. Unmoved(j)  BY <2>9 DEF Unmoved
  <2>19. JobTouched(j)'  BY <2>13 DEF JobTouched
  <2>20. j \in Jobs /\ worker' = [worker EXCEPT ![w] = x]  BY <1>2, <2>1
  <2>21. x = Idle \/ (x \in WorkerType /\ x.job = j)  BY <2>7
  <2> QED  BY <2>10, <2>11, <2>14, <2>16, <2>17, <2>18, <2>19, <2>20, <2>21, RowMoves
<1> QED  BY <1>4, <1>5

(* The holder of row j goes on with x in hand: what it leaves of RowMoves.  *)
LEMMA HolderMoves ==
    ASSUME IInv, NEW w \in Workers, NEW j \in Jobs, j = Job(w),
           worker[w].phase # "idle", worker[w].claim # NoRow, Holds(w),
           NEW x, x = Idle \/ (x \in WorkerType /\ x.job = j /\ x.claim = worker[w].claim),
           worker' = [worker EXCEPT ![w] = x], OthersTyped',
           Unmoved(j), row'[j].status # "none", row'[j].attempts = row[j].attempts,
           x # Idle => HandSound(j, x)', RowSound(j)', JobTouched(j)'
    PROVE  IInv'
<1>1. /\ row[j] = worker[w].claim /\ row[j].status = "running" /\ 1 <= row[j].attempts
      /\ \A v \in Workers \ {w} : /\ worker[v].phase \in Working => Job(v) # j
                                  /\ Claimed(v, j) => worker[v].claim.attempts # worker[w].claim.attempts
  BY Alone
<1>2. row[j].attempts \in Nat  BY Others, RowFields DEF OthersTyped
<1>3. OthersHold(w, j, x)  BY <1>1, <1>2 DEF OthersHold
<1>5. HandClaimed(j, x)  BY <1>1, <1>2 DEF HandClaimed
<1>6. x = Idle \/ (x \in WorkerType /\ x.job = j)  OBVIOUS
<1> QED  BY <1>3, <1>5, <1>6, RowMoves

LEMMA StartStep == ASSUME IInv, NEW w \in Workers, Start(w)  PROVE IInv'
<1> DEFINE may == IF Job(w) \in PluginJobs THEN standing # "deleted" ELSE standing = "granted"
<1>1. worker[w].phase = "start" /\ UNCHANGED <<bound, row, sent, standing, found, faults, touched>>
  BY DEF Start
<1>0. PICK j \in Jobs : j = Job(w)  BY <1>1, Busy
<1>2. worker[w] # Idle /\ worker[w] \in WorkerType /\ j \in Jobs /\ j = worker[w].job  BY <1>0, <1>1, Busy
<1>3. worker[w].phase # "idle" /\ worker[w].claim # NoRow /\ Holds(w)  BY <1>1, Held DEF Working
<1>4. OthersTyped /\ found \in SUBSET Pages /\ row[j] \in Row  BY <1>2, Others DEF OthersTyped
<1>5. CASE ~may
  <2>1. Goes(w, "fail") /\ UNCHANGED resolved  BY <1>5 DEF Start
  <2>2. OthersTyped'  BY <1>1, <1>4, <2>1 DEF OthersTyped
  <2> QED  BY <1>1, <1>3, <2>1, <2>2, GoesAside
<1>6. CASE may
  <2>a. PICK ids : ids = IF worker[w].ids = None THEN found ELSE worker[w].ids  OBVIOUS
  <2>b. PICK x : x = [worker[w] EXCEPT !.phase = "apply", !.ids = ids]  OBVIOUS
  <2>1. /\ worker' = [worker EXCEPT ![w] = x]
        /\ resolved' = [resolved EXCEPT ![j] = IF resolved[j] = None THEN ids ELSE resolved[j]]
    BY <1>0, <1>6, <2>a, <2>b DEF Start
  <2>2. ids \in SUBSET Pages  BY <1>2, <1>4, <2>a DEF WorkerType
  <2>3. ids # None /\ (worker[w].ids # None => ids = worker[w].ids)  BY <2>2, <2>a, SizeIs
  <2>4. x \in WorkerType /\ x.phase = "apply" /\ x.job = j /\ x.claim = worker[w].claim /\ x.ids = ids
    BY <1>2, <2>2, <2>b DEF WorkerType, Phases
  <2>5. row[j] = worker[w].claim /\ row[j].status = "running"  BY <1>0, <1>3, Alone
  <2>6. Targets(w) /\ RowSound(j)  BY <1>2 DEF IInv, AllTargets, Rows
  <2>7. worker[w].ids = row[j].ids /\ (row[j].ids = None => resolved[j] = None)
    BY <1>0, <1>1, <2>5, <2>6 DEF Targets
  <2>8. row[j].ids # None => resolved[j] = row[j].ids /\ row[j].cursor <= Cardinality(row[j].ids)
    BY <2>5, <2>6 DEF RowSound
  <2>9. /\ row[j].ids = None => resolved'[j] = ids
        /\ row[j].ids # None => resolved'[j] = resolved[j] /\ resolved[j] = ids
    BY <1>2, <1>4, <2>1, <2>3, <2>7, <2>8 DEF OthersTyped
  <2>10. resolved'[j] = ids  BY <2>9
  <2>11. Unmoved(j)  BY <1>1, <1>4, <2>1 DEF OthersTyped, Unmoved
  <2>12. OthersTyped'
    <3>1. resolved' \in [Jobs -> (SUBSET Pages) \cup {None}]  BY <1>2, <1>4, <2>1, <2>2 DEF OthersTyped
    <3> QED  BY <1>1, <1>4, <3>1 DEF OthersTyped
  <2>13. RowSound(j)'  BY <1>1, <2>5, <2>6, <2>7, <2>8, <2>9 DEF RowSound
  <2>14. TouchedTo(j, row[j].cursor)  BY <1>0, <1>1 DEF IInv, Touching
  <2>15. TouchedTo(j, row[j].cursor)'
    <3>1. CASE row[j].ids = None
      <4>1. row[j].cursor = 0  BY <2>6, <3>1 DEF RowSound
      <4>2. Reached(None, 0) = Reached(ids, 0)  BY <2>2, FirstFacts DEF Reached
      <4> QED  BY <1>1, <2>7, <2>10, <2>14, <3>1, <4>1, <4>2 DEF TouchedTo
    <3>2. CASE row[j].ids # None  BY <1>1, <2>9, <2>14, <3>2 DEF TouchedTo
    <3> QED  BY <3>1, <3>2
  <2>16. row[j].cursor \in Nat /\ Cardinality(ids) \in Nat  BY <1>4, <2>2, RowFields, Ranks
  <2>17. row[j].cursor <= Cardinality(ids)
    <3>1. CASE row[j].ids = None  BY <2>6, <2>16, <3>1 DEF RowSound
    <3>2. CASE row[j].ids # None  BY <2>8, <2>9, <3>2
    <3> QED  BY <3>1, <3>2
  <2>18. HandSound(j, x)'
    <3>1. x.phase = "apply" /\ x.claim # NoRow /\ row'[j] = x.claim  BY <1>1, <1>3, <2>4, <2>5
    <3>2. x.ids # None /\ resolved'[j] = x.ids /\ x.claim.cursor <= Cardinality(x.ids)
      BY <2>3, <2>4, <2>5, <2>10, <2>17
    <3> QED  BY <2>15, <3>1, <3>2 DEF HandSound
  <2>19. JobTouched(j)'  BY <2>15 DEF JobTouched
  <2>20. row'[j].status # "none" /\ row'[j].attempts = row[j].attempts  BY <1>1, <2>5
  <2> QED  BY <1>0, <1>3, <2>1, <2>4, <2>11, <2>12, <2>13, <2>18, <2>19, <2>20, HolderMoves
<1> QED  BY <1>5, <1>6

(* A slice taken from what was reached reaches the next cursor.             *)
LEMMA SliceReaches ==
    ASSUME NEW ids \in SUBSET Pages, NEW c \in Nat, NEW t, t = Reached(ids, c)
    PROVE  /\ [p \in Pages |-> IF p \in First(ids, c + Limit) \ First(ids, c) THEN t[p] + 1 ELSE t[p]]
                = Reached(ids, c + Limit)
           /\ Reached(ids, c + Limit) \in [Pages -> Nat]
<1>1. c + Limit \in Nat /\ c <= c + Limit  BY SizeIs
<1>2. First(ids, c) \subseteq First(ids, c + Limit)  BY <1>1, FirstFacts
<1>3. ids # None  BY SizeIs
<1> QED  BY <1>2, <1>3 DEF Reached

LEMMA ApplyStep == ASSUME IInv, NEW w \in Workers, Apply(w)  PROVE IInv'
<1>1. worker[w].phase = "apply" /\ UNCHANGED <<bound, row, sent, standing, found, resolved>>  BY DEF Apply
<1>0. PICK j \in Jobs : j = Job(w)  BY <1>1, Busy
<1>2. worker[w] # Idle /\ worker[w] \in WorkerType /\ j = worker[w].job  BY <1>0, <1>1, Busy
<1>3. worker[w].phase # "idle" /\ worker[w].claim # NoRow /\ Holds(w)  BY <1>1, Held DEF Working
<1>4. OthersTyped /\ row[j] \in Row /\ faults' \subseteq Faults
  BY Others DEF OthersTyped, Apply, Fails, NoFault
<1>5. CASE Goes(w, "fail") /\ UNCHANGED touched
  <2>1. OthersTyped'  BY <1>1, <1>4, <1>5 DEF OthersTyped
  <2> QED  BY <1>1, <1>3, <1>5, <2>1, GoesAside
<1>6. CASE ~(Goes(w, "fail") /\ UNCHANGED touched)
  <2>1. PICK ids \in SUBSET Pages : ids = worker[w].ids /\ resolved[j] = ids
    <3>1. Targets(w)  BY DEF IInv, AllTargets
    <3>2. worker[w].ids # None /\ resolved[j] = worker[w].ids  BY <1>0, <1>1, <3>1 DEF Targets
    <3> QED  BY <1>2, <3>2 DEF WorkerType
  <2>2. PICK c \in Nat : c = row[j].cursor  BY <1>4, RowFields
  <2>3. row[j] = worker[w].claim /\ row[j].status = "running"  BY <1>0, <1>3, Alone
  <2>4. Slice(w) = First(ids, c + Limit) \ First(ids, c)  BY <2>1, <2>2, <2>3 DEF Slice
  <2>5. touched[j] = Reached(ids, c)  BY <1>0, <1>1, <2>1, <2>2 DEF IInv, Touching, TouchedTo
  <2>6. touched' = [touched EXCEPT ![j] =
           [p \in Pages |-> IF p \in Slice(w) THEN touched[j][p] + 1 ELSE touched[j][p]]]
    BY <1>0, <1>6 DEF Apply
  <2>7. touched' = [touched EXCEPT ![j] = Reached(ids, c + Limit)] /\ Reached(ids, c + Limit) \in [Pages -> Nat]
    <3>1. PICK t : t = touched[j]  OBVIOUS
    <3>2. t = Reached(ids, c)  BY <2>5, <3>1
    <3>3. /\ [p \in Pages |-> IF p \in First(ids, c + Limit) \ First(ids, c) THEN t[p] + 1 ELSE t[p]]
               = Reached(ids, c + Limit)
          /\ Reached(ids, c + Limit) \in [Pages -> Nat]
      BY <3>2, SliceReaches
    <3> QED  BY <2>4, <2>6, <3>1, <3>3
  <2>8. touched'[j] = Reached(ids, c + Limit) /\ Unmoved(j)  BY <1>1, <1>4, <2>7 DEF OthersTyped, Unmoved
  <2>9. OthersTyped'
    <3>1. touched' \in [Jobs -> [Pages -> Nat]]  BY <1>4, <2>7 DEF OthersTyped
    <3> QED  BY <1>1, <1>4, <3>1 DEF OthersTyped
  <2>10. TouchedTo(j, row[j].cursor + Limit)'  BY <1>1, <2>1, <2>2, <2>8 DEF TouchedTo
  <2>11. JobTouched(j)'  BY <1>1, <2>3, <2>10 DEF JobTouched
  <2>12. RowSound(j)'
    <3>1. RowSound(j)  BY DEF IInv, Rows
    <3> QED  BY <1>1, <3>1 DEF RowSound
  <2>13. PICK to \in {"finish", "fail"} : Goes(w, to)  BY <1>6 DEF Apply
  <2>14. PICK x \in WorkerType :
           /\ worker' = [worker EXCEPT ![w] = x] /\ x.phase = to /\ x.job = worker[w].job
           /\ x.claim = worker[w].claim /\ x.ids = worker[w].ids
    <3>1. to \in Phases  BY DEF Phases
    <3> QED  BY <1>3, <2>13, <3>1, Went
  <2>15. HandSound(j, x)'
    <3>1. x.claim # NoRow /\ row'[j] = x.claim  BY <1>1, <1>3, <2>3, <2>14
    <3>2. x.ids # None /\ resolved'[j] = x.ids  BY <1>1, <2>1, <2>14, SizeIs
    <3>3. x.claim.cursor <= Cardinality(x.ids)
      <4>1. Targets(w)  BY DEF IInv, AllTargets
      <4> QED  BY <1>1, <2>14, <4>1 DEF Targets
    <3>4. x.phase \in {"finish", "fail"}  BY <2>14
    <3> QED  BY <2>10, <3>1, <3>2, <3>3, <3>4 DEF HandSound
  <2>16. row'[j].status # "none" /\ row'[j].attempts = row[j].attempts  BY <1>1, <2>3
  <2>17. x = Idle \/ (x \in WorkerType /\ x.job = j /\ x.claim = worker[w].claim)  BY <1>2, <2>14
  <2> QED  BY <1>0, <1>3, <2>8, <2>9, <2>11, <2>12, <2>14, <2>15, <2>16, <2>17, HolderMoves
<1> QED  BY <1>5, <1>6

(* Where the next slice begins.                                             *)
LEMMA NextCursorFacts ==
    ASSUME IInv, NEW w \in Workers, worker[w].phase = "finish"
    PROVE  LET c == worker[w].claim.cursor
               n == NextCursor(w)
               s == Cardinality(worker[w].ids)
           IN  /\ c \in Nat /\ s \in Nat /\ n \in Nat /\ c <= n /\ n <= s /\ s <= Size
               /\ n < s => n = c + Limit /\ c + 1 <= n
               /\ ~(n < s) => n = s /\ s <= c + Limit
<1> DEFINE c == worker[w].claim.cursor
           n == NextCursor(w)
           s == Cardinality(worker[w].ids)
<1>1. worker[w] \in WorkerType /\ Targets(w)  BY Busy DEF IInv, AllTargets
<1>2. c \in Nat  BY <1>1, RowFields DEF WorkerType
<1>3. worker[w].ids \in SUBSET Pages /\ c <= s  BY <1>1 DEF WorkerType, Targets
<1>4. s \in Nat /\ s <= Size  BY <1>3, Ranks DEF Size
<1>5. n = IF c + Limit < s THEN c + Limit ELSE s  BY DEF NextCursor
<1>6. Limit \in Nat \ {0}  BY SizeIs
<1> HIDE DEF c, n, s
<1>7. /\ c \in Nat /\ s \in Nat /\ n \in Nat /\ c <= n /\ n <= s /\ s <= Size
      /\ n < s => n = c + Limit /\ c + 1 <= n
      /\ ~(n < s) => n = s /\ s <= c + Limit
  BY <1>2, <1>3, <1>4, <1>5, <1>6
<1> QED  BY <1>7 DEF c, n, s

LEMMA FinishStep == ASSUME IInv, NEW w \in Workers, Finish(w)  PROVE IInv'
<1>1. worker[w].phase = "finish" /\ UNCHANGED <<bound, sent, standing, found, resolved, touched>>  BY DEF Finish
<1>0. PICK j \in Jobs : j = Job(w)  BY <1>1, Busy
<1>2. worker[w] # Idle /\ worker[w] \in WorkerType /\ j = worker[w].job  BY <1>0, <1>1, Busy
<1>3. worker[w].phase # "idle" /\ worker[w].claim # NoRow /\ Holds(w)  BY <1>1, Held DEF Working
<1>4. OthersTyped /\ row[j] \in Row /\ faults' \subseteq Faults
  BY <1>3, Others DEF OthersTyped, Finish, Fails, NoFault
<1>5. PICK ids \in SUBSET Pages : ids = worker[w].ids /\ ids # None /\ resolved[j] = ids
  <2>1. Targets(w)  BY DEF IInv, AllTargets
  <2>2. worker[w].ids # None /\ resolved[j] = worker[w].ids  BY <1>0, <1>1, <2>1 DEF Targets
  <2> QED  BY <1>2, <2>2 DEF WorkerType
<1>6. PICK c \in Nat, n \in Nat, s \in Nat :
        /\ c = worker[w].claim.cursor /\ n = NextCursor(w) /\ s = Cardinality(ids) /\ c <= n /\ n <= s /\ s <= Size
        /\ n < s => n = c + Limit /\ c + 1 <= n
        /\ ~(n < s) => n = s /\ s <= c + Limit
  BY <1>1, <1>5, NextCursorFacts
<1>7. row[j] = worker[w].claim /\ row[j].status = "running"  BY <1>0, <1>3, Alone
<1>8. PICK r : r = [Advanced(w) EXCEPT !.status = IF n < s THEN "queued" ELSE "done"]  OBVIOUS
<1>9. RowSound(j) /\ row[j].updated = c /\ row[j].attempts \in Nat /\ row[j].attempts <= c + 1
  <2>1. RowSound(j)  BY DEF IInv, Rows
  <2> QED  BY <1>4, <1>6, <1>7, <2>1, RowFields DEF RowSound
<1>10. /\ r \in Row /\ r.ids = ids /\ r.cursor = n /\ r.updated = n /\ r.attempts = row[j].attempts
       /\ n < s => r.status = "queued"
       /\ ~(n < s) => r.status = "done"
  <2>1. Advanced(w) = [row[j] EXCEPT !.ids = ids, !.cursor = n, !.updated = row[j].updated + (n - c)]
    BY <1>5, <1>6, <1>7 DEF Advanced
  <2>2. row[j].updated + (n - c) = n /\ n \in 0..Size  BY <1>6, <1>9, SizeIs
  <2>3. Advanced(w) = [row[j] EXCEPT !.ids = ids, !.cursor = n, !.updated = n]  BY <2>1, <2>2
  <2> QED  BY <1>4, <1>8, <2>2, <2>3 DEF Row, Size
<1>11. row' = [row EXCEPT ![j] = r]
  <2>1. Advanced(w).cursor = n  BY <1>4, <1>6, <1>7 DEF Advanced, Row
  <2> QED  BY <1>0, <1>3, <1>5, <1>6, <1>8, <2>1 DEF Finish
<1>12. row'[j] = r /\ Unmoved(j) /\ OthersTyped'
  BY <1>1, <1>4, <1>10, <1>11 DEF OthersTyped, Unmoved
<1>13. touched[j] = Reached(ids, c + Limit)
  BY <1>0, <1>1, <1>5, <1>6, <1>7 DEF IInv, Touching, TouchedTo
<1>14. touched[j] = Reached(ids, n)
  <2>1. CASE n < s  BY <1>6, <1>13, <2>1
  <2>2. CASE ~(n < s)
    <3>1. c + Limit \in Nat /\ s <= c + Limit /\ n = s  BY <1>6, <2>2, SizeIs
    <3>2. First(ids, c + Limit) = ids /\ First(ids, n) = ids  BY <1>6, <3>1, FirstFacts
    <3> QED  BY <1>13, <3>2 DEF Reached
  <2> QED  BY <2>1, <2>2
<1>15. JobTouched(j)'  BY <1>1, <1>5, <1>10, <1>12, <1>14 DEF JobTouched, TouchedTo
<1>16. RowSound(j)'
  <2>1. r.ids # None /\ resolved'[j] = r.ids /\ Cardinality(r.ids) = s  BY <1>1, <1>5, <1>6, <1>10
  <2>2. CASE n < s  BY <1>6, <1>9, <1>10, <1>12, <2>1, <2>2 DEF RowSound
  <2>3. CASE ~(n < s)  BY <1>6, <1>9, <1>10, <1>12, <2>1, <2>3 DEF RowSound
  <2> QED  BY <2>2, <2>3
<1>17. PICK x : /\ worker' = [worker EXCEPT ![w] = x]
                /\ x = Idle \/ (/\ x \in WorkerType /\ x.phase \in {"send", "fail"} /\ x.job = j
                                /\ x.claim = worker[w].claim)
  <2>1. Returns(w) \/ Goes(w, "send") \/ Goes(w, "fail")  BY <1>3 DEF Finish
  <2>2. ASSUME NEW to \in {"send", "fail"}, Goes(w, to)
        PROVE  \E x \in WorkerType : /\ worker' = [worker EXCEPT ![w] = x] /\ x.phase = to /\ x.job = j
                                     /\ x.claim = worker[w].claim
    <3>1. to \in Phases  BY DEF Phases
    <3> QED  BY <1>2, <1>3, <2>2, <3>1, Went
  <2> QED  BY <2>1, <2>2 DEF Returns
<1>18. x # Idle => HandSound(j, x)'  BY <1>3, <1>17 DEF HandSound, Working
<1>19. row'[j].status # "none" /\ row'[j].attempts = row[j].attempts  BY <1>10, <1>12
<1>20. x = Idle \/ (x \in WorkerType /\ x.job = j /\ x.claim = worker[w].claim)  BY <1>17
<1> QED  BY <1>0, <1>3, <1>12, <1>15, <1>16, <1>17, <1>18, <1>19, <1>20, HolderMoves

LEMMA FailStep == ASSUME IInv, NEW w \in Workers, Fail(w)  PROVE IInv'
<1>1. /\ worker[w].phase = "fail" /\ worker' = [worker EXCEPT ![w] = Idle] /\ Returns(w)
      /\ UNCHANGED <<bound, sent, standing, found, faults, resolved, touched>>
  BY DEF Fail, Returns
<1>0. PICK j \in Jobs : j = Job(w)  BY <1>1, Busy
<1>2. worker[w].phase # "idle" /\ worker[w].claim # NoRow  BY <1>1 DEF IInv, AllTargets, Targets
<1>3. OthersTyped /\ row[j] \in Row  BY Others DEF OthersTyped
<1>4. CASE ~Holds(w)
  <2>1. UNCHANGED row  BY <1>4 DEF Fail
  <2>2. OthersTyped'  BY <1>1, <1>3, <2>1 DEF OthersTyped
  <2> QED  BY <1>1, <1>2, <2>1, <2>2, GoesAside
<1>5. CASE Holds(w)
  <2>1. row[j].status = "running"  BY <1>0, <1>2, <1>5, Alone
  <2>2. PICK r : r = [row[j] EXCEPT !.status = "failed"]  OBVIOUS
  <2>3. /\ r \in Row /\ r.status = "failed" /\ r.ids = row[j].ids /\ r.cursor = row[j].cursor
        /\ r.attempts = row[j].attempts /\ r.updated = row[j].updated
    BY <1>3, <2>2 DEF Row
  <2>4. row' = [row EXCEPT ![j] = r]  BY <1>0, <1>5, <2>2 DEF Fail
  <2>5. row'[j] = r /\ Unmoved(j) /\ OthersTyped'  BY <1>1, <1>3, <2>3, <2>4 DEF OthersTyped, Unmoved
  <2>6. RowSound(j) /\ JobTouched(j)  BY DEF IInv, Rows, Touching, JobTouched
  <2>7. RowSound(j)'  BY <1>1, <2>1, <2>3, <2>5, <2>6 DEF RowSound
  <2>8. JobTouched(j)'  BY <1>1, <2>1, <2>3, <2>5, <2>6 DEF JobTouched, TouchedTo
  <2>9. row'[j].status # "none" /\ row'[j].attempts = row[j].attempts  BY <2>3, <2>5
  <2> QED  BY <1>0, <1>1, <1>2, <1>5, <2>5, <2>7, <2>8, <2>9, HolderMoves
<1> QED  BY <1>4, <1>5

-----------------------------------------------------------------------------
LEMMA Initially == Init => IInv
<1> SUFFICES ASSUME Init  PROVE IInv  OBVIOUS
<1>1. NoRow \in Row /\ 0 \in 0..Size  BY Ranks, SizeIs DEF NoRow, Row, Size
<1>2. \A w \in Workers : worker[w] = Idle  BY DEF Init
<1>3. OthersTyped  BY <1>1 DEF Init, OthersTyped
<1>4. Typed  BY <1>2, <1>3, TypedIs DEF Workerly, Init
<1>5. ClaimsDiffer /\ RowsHeld /\ AllTargets
  BY <1>2 DEF ClaimsDiffer, Claimed, RowsHeld, AllTargets, Targets, Working, Idle
<1>6. \A j \in Jobs : /\ row[j].status = "none" /\ row[j].attempts = 0 /\ row[j].ids # None /\ row[j].cursor = 0
                      /\ row[j].updated = 0 /\ resolved[j] = None
  <2>1. {} # None  BY SizeIs
  <2> QED  BY <2>1 DEF Init, NoRow
<1>7. Rows  BY <1>6 DEF Rows, RowSound
<1>8. \A j \in Jobs : TouchedTo(j, row[j].cursor)  BY <1>6 DEF Init, TouchedTo, Reached
<1>9. Touching  BY <1>2, <1>8 DEF Touching, Idle
<1> QED  BY <1>4, <1>5, <1>7, <1>9 DEF IInv

LEMMA EachStep == IInv /\ [Next]_vars => IInv'
<1> SUFFICES ASSUME IInv, [Next]_vars  PROVE IInv'  OBVIOUS
<1>1. CASE UNCHANGED vars
  <2>1. UNCHANGED <<row, resolved, touched, worker>> /\ OthersTyped'
    BY <1>1, Others DEF vars, OthersTyped
  <2> QED  BY <2>1, Around
<1>2. ASSUME NEW w \in Workers, Handle(w) \/ Receive(w) \/ Dies(w)  PROVE IInv'
  <2>1. Handle(w) => IInv'
    BY SendStep, ClaimStep, StartStep, ApplyStep, FinishStep, FailStep DEF Handle
  <2>2. Receive(w) => IInv'  BY DeliverStep DEF Receive
  <2> QED  BY <1>2, <2>1, <2>2, DiesStep
<1>3. ASSUME NEW w \in Workers, NEW j \in Jobs, NEW ids \in ((SUBSET Pages) \ {{}}) \cup {None}, Enqueue(w, j, ids)
      PROVE  IInv'
  BY <1>3, EnqueueStep
<1>4. ASSUME NEW j \in Jobs, Duplicate(j)  PROVE IInv'  BY <1>4, DuplicateStep
<1>5. ASSUME NEW p \in Pages, Edit(p)  PROVE IInv'  BY <1>5, EditStep
<1> QED  BY <1>1, <1>2, <1>3, <1>4, <1>5, RevokeStep DEF Next

LEMMA AlwaysIInv == Spec => []IInv
  BY Initially, EachStep, PTL DEF Spec

(* A page is changed at most once by a job, whatever is delivered twice,    *)
(* lost or cut off, and a job that is done changed all it was to change.    *)
THEOREM JobsHold == Spec => []JobsSound
<1>1. ASSUME IInv  PROVE JobsSound
  <2>1. TypeOK  BY <1>1 DEF IInv, Typed
  <2>2. \A j \in Jobs, p \in Pages : \A n : Reached(resolved[j], n)[p] <= 1  BY DEF Reached
  <2>3. TouchedOnce  BY <1>1, <2>2 DEF IInv, Touching, TouchedTo, TouchedOnce
  <2>4. ASSUME NEW j \in Jobs, row[j].status = "done"
        PROVE  /\ {p \in Pages : touched[j][p] > 0} = resolved[j]
               /\ row[j].updated = Cardinality(resolved[j])
    <3>1. RowSound(j) /\ TouchedTo(j, row[j].cursor)  BY <1>1, <2>4 DEF IInv, Rows, Touching
    <3>2. row[j] \in Row  BY <1>1, Others DEF OthersTyped
    <3>3. PICK S \in SUBSET Pages : S = resolved[j] /\ row[j].cursor = Cardinality(S) /\ S # None
      BY <2>4, <3>1, <3>2, RowFields DEF RowSound
    <3>4. Cardinality(S) \in Nat  BY Ranks
    <3>5. First(S, row[j].cursor) = S  BY <3>3, <3>4, FirstFacts
    <3>6. \A p \in Pages : touched[j][p] = IF p \in S THEN 1 ELSE 0
      BY <3>1, <3>3, <3>5 DEF TouchedTo, Reached
    <3>7. row[j].updated = Cardinality(S)  BY <3>1, <3>3 DEF RowSound
    <3> QED  BY <3>3, <3>6, <3>7
  <2> QED  BY <2>1, <2>3, <2>4 DEF JobsSound, DoneMeansAll
<1> QED  BY <1>1, AlwaysIInv, PTL

(* Done and failed are final, cursors only advance, and nothing is changed  *)
(* for a user who does not hold the grant when it is committed.             *)
THEOREM StepsHold == Spec => StepsAreLicensed
<1>1. ASSUME IInv, Next, NEW j \in Jobs  PROVE OutcomeIsFinal(j) /\ RevokedDoesNothing(j)
  <2>1. OthersTyped /\ row[j] \in Row /\ row[j].cursor \in Nat  BY <1>1, Others, RowFields DEF OthersTyped
  <2>2. row'[j] = row[j] => OutcomeIsFinal(j)  BY <2>1 DEF OutcomeIsFinal
  <2>3. ASSUME NEW w \in Workers, Apply(w)  PROVE OutcomeIsFinal(j) /\ RevokedDoesNothing(j)
    <3>1. row'[j] = row[j]  BY <2>3 DEF Apply
    <3>2. touched'[j] # touched[j] => j = Job(w) /\ Permitted(w)  BY <2>1, <2>3 DEF Apply, OthersTyped
    <3> QED  BY <2>2, <3>1, <3>2 DEF RevokedDoesNothing, Permitted
  <2>4. ASSUME NEW w \in Workers, Claim(w) \/ Finish(w) \/ Fail(w)
        PROVE  OutcomeIsFinal(j) /\ RevokedDoesNothing(j)
    <3>1. touched' = touched  BY <2>4 DEF Claim, Finish, Fail
    <3>2. CASE row'[j] = row[j]  BY <2>2, <3>1, <3>2 DEF RevokedDoesNothing
    <3>3. CASE row'[j] # row[j]
      <4>1. CASE Claim(w)
        <5>1. row[j].status = "queued" /\ row'[j] = [row[j] EXCEPT !.status = "running", !.attempts = @ + 1]
          BY <2>1, <3>3, <4>1 DEF Claim, Claimable, OthersTyped
        <5>2. row'[j].cursor = row[j].cursor  BY <2>1, <5>1 DEF Row
        <5> QED  BY <2>1, <3>1, <5>1, <5>2 DEF OutcomeIsFinal, RevokedDoesNothing
      <4>2. CASE Finish(w)
        <5>1. worker[w].phase = "finish" /\ j = Job(w) /\ Holds(w)  BY <2>1, <3>3, <4>2 DEF Finish, OthersTyped
        <5>2. worker[w].phase # "idle" /\ worker[w].claim # NoRow  BY <1>1, <5>1, Held DEF Working
        <5>3. row[j] = worker[w].claim /\ row[j].status = "running"  BY <1>1, <5>1, <5>2, Alone
        <5>4. row[j].cursor <= NextCursor(w)  BY <1>1, <5>1, <5>3, NextCursorFacts
        <5>5. \E st : row'[j] = [Advanced(w) EXCEPT !.status = st]  BY <2>1, <4>2, <5>1 DEF Finish, OthersTyped
        <5>6. row'[j].cursor = NextCursor(w)  BY <2>1, <5>3, <5>5 DEF Advanced, Row
        <5> QED  BY <3>1, <5>3, <5>4, <5>6 DEF OutcomeIsFinal, RevokedDoesNothing
      <4>3. CASE Fail(w)
        <5>1. worker[w].phase = "fail" /\ j = Job(w) /\ Holds(w)  BY <2>1, <3>3, <4>3 DEF Fail, OthersTyped
        <5>2. worker[w].phase # "idle" /\ worker[w].claim # NoRow
          BY <1>1, <5>1 DEF IInv, AllTargets, Targets
        <5>3. row[j].status = "running"  BY <1>1, <5>1, <5>2, Alone
        <5>4. row'[j] = [row[j] EXCEPT !.status = "failed"]  BY <2>1, <4>3, <5>1 DEF Fail, OthersTyped
        <5>5. row'[j].cursor = row[j].cursor  BY <2>1, <5>4 DEF Row
        <5> QED  BY <2>1, <3>1, <5>3, <5>5 DEF OutcomeIsFinal, RevokedDoesNothing
      <4> QED  BY <2>4, <4>1, <4>2, <4>3
    <3> QED  BY <3>2, <3>3
  <2>5. ASSUME NEW w \in Workers, Send(w) \/ Start(w) \/ Receive(w) \/ Dies(w)
        PROVE  UNCHANGED <<row, touched>>
    BY <2>5 DEF Send, Start, Receive, Deliver, Dies
  <2>6. ASSUME NEW w \in Workers, NEW i \in Jobs, NEW ids, Enqueue(w, i, ids)
        PROVE  OutcomeIsFinal(j) /\ RevokedDoesNothing(j)
    <3>1. touched' = touched  BY <2>6 DEF Enqueue
    <3>2. CASE row'[j] = row[j]  BY <2>2, <3>1, <3>2 DEF RevokedDoesNothing
    <3>3. CASE row'[j] # row[j]
      <4>1. row[j].status = "none" /\ row'[j] = [row[j] EXCEPT !.status = "queued", !.ids = ids]
        BY <2>1, <2>6, <3>3 DEF Enqueue, OthersTyped
      <4>2. row'[j].cursor = row[j].cursor  BY <2>1, <4>1 DEF Row
      <4> QED  BY <2>1, <3>1, <4>1, <4>2 DEF OutcomeIsFinal, RevokedDoesNothing
    <3> QED  BY <3>2, <3>3
  <2>7. ASSUME (\E i \in Jobs : Duplicate(i)) \/ (\E p \in Pages : Edit(p)) \/ Revoke
        PROVE  UNCHANGED <<row, touched>>
    BY <2>7 DEF Duplicate, Edit, Revoke
  <2>8. UNCHANGED <<row, touched>> => OutcomeIsFinal(j) /\ RevokedDoesNothing(j)
    BY <2>2 DEF RevokedDoesNothing
  <2> QED  BY <1>1, <2>3, <2>4, <2>5, <2>6, <2>7, <2>8 DEF Next, Handle
<1>2. IInv /\ [Next]_vars => [\A j \in Jobs : OutcomeIsFinal(j) /\ RevokedDoesNothing(j)]_vars
  BY <1>1
<1> QED  BY <1>2, AlwaysIInv, PTL DEF Spec, StepsAreLicensed

-----------------------------------------------------------------------------
(* Evidence (AuditOutages).  A request owes evidence of what was health data *)
(* when it began; classes only rise, so whatever it reads of them later says *)
(* so too, and what it has read is announced or has left already.            *)
Classes == 0..2
Requested == [pc : {"idle", "run", "classify", "write", "late", "done", "refused"},
              cached : Classes \cup {None}, pending : SUBSET Pages, seen : SUBSET Pages,
              rows : SUBSET Pages, left : SUBSET Pages, owed : SUBSET Pages,
              call : BOOLEAN, called : BOOLEAN]
ReadsTyped == policy \in Classes /\ floor \in [Pages -> Classes] /\ req \in [Requests -> Requested]
Owes(q) ==
    /\ \A p \in q.owed : Audit!Class(policy, p) = 2 /\ (q.cached # None => Audit!Class(q.cached, p) = 2)
    /\ q.seen \subseteq q.pending \cup q.left
    /\ q.pc = "write" => q.pending \cap q.owed \subseteq q.rows
    /\ q.pc = "idle" => q.cached = None /\ q.left = {}
Evident(r, q) == \A p \in q.left \cap q.owed : [by |-> r, page |-> p] \in trail
ReadsInv == ReadsTyped /\ \A r \in Requests : Owes(req[r]) /\ Evident(r, req[r])

(* What leaves was announced or had left.                                    *)
LEMMA LeavingFacts ==
    ASSUME NEW q \in Requested, q.seen \subseteq q.pending \cup q.left
    PROVE  LET l == Audit!Leaving(q)
           IN  /\ l \in Requested /\ l.seen = q.seen /\ l.pending = {} /\ l.owed = q.owed
               /\ l.cached = q.cached /\ l.pc \in {"run", "done"}
               /\ l.left \subseteq q.left \cup q.pending /\ l.seen \subseteq l.left
  BY DEF Audit!Leaving, Requested

(* One request goes on while classes and the trail only grow.                *)
LEMMA OneGoesOn ==
    ASSUME ReadsInv, NEW r \in Requests, NEW q \in Requested, req' = [req EXCEPT ![r] = q],
           UNCHANGED <<policy, floor>>, trail \subseteq trail',
           Owes(q), \A p \in q.left \cap q.owed : [by |-> r, page |-> p] \in trail'
    PROVE  ReadsInv'
<1>1. ReadsTyped'  BY DEF ReadsInv, ReadsTyped
<1>2. \A s \in Requests : req'[s] = IF s = r THEN q ELSE req[s]  BY DEF ReadsInv, ReadsTyped
<1>3. \A c, p : Audit!Class(c, p)' = Audit!Class(c, p)  BY DEF Audit!Class
<1>4. ASSUME NEW s \in Requests  PROVE Owes(req[s])' /\ Evident(s, req[s])'
  <2>1. CASE s = r  BY <1>2, <1>3, <2>1 DEF Owes, Evident, Audit!Class
  <2>2. CASE s # r
    <3>1. req'[s] = req[s] /\ Owes(req[s]) /\ Evident(s, req[s])  BY <1>2, <2>2 DEF ReadsInv
    <3> QED  BY <3>1, <1>3 DEF Owes, Evident, Audit!Class
  <2> QED  BY <2>1, <2>2
<1> QED  BY <1>1, <1>4 DEF ReadsInv

LEMMA RaiseKeeps ==
    ASSUME ReadsInv, Audit!Raise  PROVE ReadsInv'
<1>1. /\ policy' \in Classes /\ policy' >= policy /\ floor' \in [Pages -> Classes]
      /\ \A p \in Pages : floor'[p] >= floor[p]
  BY DEF ReadsInv, ReadsTyped, Audit!Raise, Classes
<1>2. UNCHANGED <<req, trail>>  BY DEF Audit!Raise
<1>3. ASSUME NEW c \in Classes, NEW d \in Classes, d >= c, NEW p \in Pages, Audit!Class(c, p) = 2
      PROVE  (IF d > floor'[p] THEN d ELSE floor'[p]) = 2
  <2>1. c \in Int /\ d \in Int /\ floor[p] \in 0..2 /\ floor'[p] \in 0..2 /\ floor'[p] >= floor[p] /\ c <= 2 /\ d <= 2
    BY <1>1, <1>3 DEF ReadsInv, ReadsTyped, Classes
  <2> QED  BY <1>3, <2>1 DEF Audit!Class
<1>4. ASSUME NEW r \in Requests  PROVE Owes(req[r])' /\ Evident(r, req[r])'
  <2>1. Owes(req[r]) /\ Evident(r, req[r]) /\ req[r] \in Requested  BY DEF ReadsInv, ReadsTyped
  <2>2. req[r].owed \subseteq Pages /\ req[r].cached \in Classes \cup {None}  BY <2>1 DEF Requested
  <2>3. ASSUME NEW p \in req[r].owed  PROVE Audit!Class(policy, p)' = 2
    BY <1>1, <1>3, <2>1, <2>2 DEF Owes, Audit!Class, ReadsInv, ReadsTyped
  <2>4. ASSUME NEW p \in req[r].owed, req[r].cached # None
        PROVE (IF req[r].cached > floor'[p] THEN req[r].cached ELSE floor'[p]) = 2
    <3>1. req[r].cached \in Classes /\ Audit!Class(req[r].cached, p) = 2 /\ p \in Pages  BY <2>1, <2>2, <2>4 DEF Owes
    <3>2. req[r].cached >= req[r].cached  BY <3>1 DEF Classes
    <3> QED  BY <1>3, <3>1, <3>2
  <2> QED  BY <1>2, <2>1, <2>3, <2>4 DEF Owes, Evident, Audit!Class
<1> QED  BY <1>1, <1>2, <1>4 DEF ReadsInv, ReadsTyped

(* What the classifier does not find classified is no health data, and what  *)
(* it does not find to be health data is not owed.                           *)
LEMMA RowsCover ==
    ASSUME ReadsInv, NEW r \in Requests
    PROVE  /\ Audit!Policy(req[r]) \in Classes
           /\ \A p \in req[r].owed : Audit!Class(Audit!Policy(req[r]), p) = 2
           /\ req[r].pending \cap req[r].owed \subseteq Audit!Rows(r)
           /\ Audit!Rows(r) \subseteq Pages
           /\ ~ Audit!Strict(req[r], Audit!Rows(r)) => req[r].pending \cap req[r].owed = {}
<1>1. req[r] \in Requested /\ Owes(req[r]) /\ policy \in Classes  BY DEF ReadsInv, ReadsTyped
<1>2. Audit!Policy(req[r]) \in Classes  BY <1>1 DEF Audit!Policy, Requested
<1>3. \A p \in req[r].owed : Audit!Class(Audit!Policy(req[r]), p) = 2  BY <1>1 DEF Owes, Audit!Policy
<1>4. req[r].pending \cap req[r].owed \subseteq Audit!Rows(r)  BY <1>3 DEF Audit!Rows
<1>5. Audit!Rows(r) \subseteq Pages  BY <1>1 DEF Audit!Rows, Requested
<1>6. ~ Audit!Strict(req[r], Audit!Rows(r)) => req[r].pending \cap req[r].owed = {}
  BY <1>3, <1>4 DEF Audit!Strict
<1> QED  BY <1>2, <1>3, <1>4, <1>5, <1>6

LEMMA ClassifyKeeps ==
    ASSUME ReadsInv, NEW r \in Requests, Audit!PrepareReadAudits(r)  PROVE ReadsInv'
<1> DEFINE q == req[r]
           known == [q EXCEPT !.cached = Audit!Policy(q)]
<1>1. q \in Requested /\ Owes(q) /\ Evident(r, q)  BY DEF ReadsInv, ReadsTyped
<1>2. UNCHANGED <<policy, floor, trail>>  BY DEF Audit!PrepareReadAudits
<1>3. known \in Requested /\ known.cached = Audit!Policy(q) /\ known.seen = q.seen /\ known.pending = q.pending
      /\ known.left = q.left /\ known.owed = q.owed /\ known.pc = q.pc /\ known.rows = q.rows
  BY <1>1, RowsCover DEF Requested
<1>4. Owes(known)
  BY <1>1, <1>3, RowsCover DEF Owes, Audit!PrepareReadAudits, Audit!Is
<1>5. ASSUME NEW k \in Requested, Owes(k), k.pending = q.pending, k.owed = q.owed, k.left = q.left,
             q.pending \cap q.owed = {}, req' = [req EXCEPT ![r] = Audit!Leaving(k)]
      PROVE  ReadsInv'
  <2>1. k.seen \subseteq k.pending \cup k.left  BY <1>5 DEF Owes
  <2>2. PICK l \in Requested : l = Audit!Leaving(k)  BY <1>5, <2>1, LeavingFacts
  <2>3. /\ l.seen = k.seen /\ l.pending = {} /\ l.owed = k.owed /\ l.cached = k.cached /\ l.pc \in {"run", "done"}
        /\ l.left \subseteq k.left \cup k.pending /\ l.seen \subseteq l.left
    BY <1>5, <2>1, <2>2, LeavingFacts
  <2>4. Owes(l)  BY <1>5, <2>3 DEF Owes
  <2>5. \A p \in l.left \cap l.owed : [by |-> r, page |-> p] \in trail'
    BY <1>1, <1>2, <1>5, <2>3 DEF Evident
  <2> QED  BY <1>2, <1>5, <2>2, <2>4, <2>5, OneGoesOn
<1>6. CASE q.pending = {} /\ Audit!Goto(r, Audit!Leaving(q))
  BY <1>1, <1>5, <1>6 DEF Audit!Goto
<1>7. CASE Audit!Refuse(r)
  <2>1. PICK k \in Requested : k = [q EXCEPT !.pc = "refused"]  BY <1>1 DEF Requested
  <2>2. k.seen = q.seen /\ k.pending = q.pending /\ k.left = q.left /\ k.owed = q.owed /\ k.cached = q.cached
        /\ k.pc = "refused"  BY <1>1, <2>1 DEF Requested
  <2>3. Owes(k)  BY <1>1, <2>2 DEF Owes
  <2> QED  BY <1>1, <1>2, <1>7, <2>1, <2>2, <2>3, OneGoesOn DEF Audit!Refuse, Audit!Goto, Evident
<1>8. CASE Audit!Rows(r) = {} /\ Audit!Goto(r, Audit!Leaving(known))
  BY <1>3, <1>4, <1>5, <1>8, RowsCover DEF Audit!Goto
<1>9. CASE Audit!Goto(r, [known EXCEPT !.pc = "write", !.rows = Audit!Rows(r)])
  <2>1. PICK k \in Requested : k = [known EXCEPT !.pc = "write", !.rows = Audit!Rows(r)]
    BY <1>3, RowsCover DEF Requested
  <2>2. k.seen = q.seen /\ k.pending = q.pending /\ k.left = q.left /\ k.owed = q.owed /\ k.cached = known.cached
        /\ k.pc = "write" /\ k.rows = Audit!Rows(r)  BY <1>3, <2>1 DEF Requested
  <2>3. Owes(k)  BY <1>3, <1>4, <2>2, RowsCover DEF Owes
  <2> QED  BY <1>1, <1>2, <1>9, <2>1, <2>2, <2>3, OneGoesOn DEF Audit!Goto, Evident
<1>10. CASE /\ ~ Audit!Strict(q, Audit!Rows(r))
            /\ Audit!Goto(r, [Audit!Leaving(known) EXCEPT !.pc = "late", !.rows = Audit!Rows(r)])
  <2>1. known.seen \subseteq known.pending \cup known.left  BY <1>4 DEF Owes
  <2>2. PICK l \in Requested : l = Audit!Leaving(known)  BY <1>3, <2>1, LeavingFacts
  <2>3. /\ l.seen = q.seen /\ l.pending = {} /\ l.owed = q.owed /\ l.cached = known.cached
        /\ l.left \subseteq q.left \cup q.pending /\ l.seen \subseteq l.left
    BY <1>3, <2>1, <2>2, LeavingFacts
  <2>4. PICK k \in Requested : k = [l EXCEPT !.pc = "late", !.rows = Audit!Rows(r)]
    BY <2>2, RowsCover DEF Requested
  <2>5. k.seen = l.seen /\ k.pending = l.pending /\ k.left = l.left /\ k.owed = l.owed /\ k.cached = l.cached
        /\ k.pc = "late"  BY <2>2, <2>4 DEF Requested
  <2>6. Owes(k)  BY <1>3, <1>4, <2>3, <2>5 DEF Owes
  <2>7. \A p \in k.left \cap k.owed : [by |-> r, page |-> p] \in trail'
    BY <1>1, <1>2, <1>10, <2>3, <2>5, RowsCover DEF Evident
  <2> QED  BY <1>2, <1>10, <2>2, <2>4, <2>6, <2>7, OneGoesOn DEF Audit!Goto
<1> QED  BY <1>6, <1>7, <1>8, <1>9, <1>10 DEF Audit!PrepareReadAudits

LEMMA RequestKeeps ==
    ASSUME ReadsInv, NEW r \in Requests,
           Audit!Begin(r) \/ Audit!Read(r) \/ Audit!Peek(r) \/ Audit!Flush(r)
    PROVE  ReadsInv'
<1>1. req[r] \in Requested /\ Owes(req[r]) /\ Evident(r, req[r])  BY DEF ReadsInv, ReadsTyped
<1>2. UNCHANGED <<policy, floor, trail>>
  BY DEF Audit!Begin, Audit!Read, Audit!Peek, Audit!Flush
<1>3. ASSUME NEW k \in Requested, req' = [req EXCEPT ![r] = k], Owes(k), k.left = req[r].left,
             k.owed = req[r].owed \/ k.left = {}
      PROVE  ReadsInv'
  BY <1>1, <1>2, <1>3, OneGoesOn DEF Evident
<1>4. CASE Audit!Begin(r)
  <2>1. PICK k \in Requested : k = [req[r] EXCEPT !.pc = "run", !.owed = {p \in Pages : Audit!Class(policy, p) = 2}]
    BY <1>1 DEF Requested
  <2>2. /\ k.pc = "run" /\ k.cached = req[r].cached /\ k.left = req[r].left /\ k.seen = req[r].seen
        /\ k.pending = req[r].pending /\ \A p \in k.owed : Audit!Class(policy, p) = 2
    BY <1>1, <2>1 DEF Requested
  <2>3. req[r].cached = None /\ req[r].left = {}  BY <1>1, <1>4 DEF Owes, Audit!Begin, Audit!Is
  <2>4. Owes(k)  BY <1>1, <2>2, <2>3 DEF Owes
  <2> QED  BY <1>3, <1>4, <2>1, <2>2, <2>3, <2>4 DEF Audit!Begin, Audit!Goto
<1>5. CASE Audit!Read(r)
  <2>1. PICK p \in Pages : req' = [req EXCEPT ![r] = [req[r] EXCEPT !.pending = @ \cup {p}, !.seen = @ \cup {p}]]
    BY <1>5 DEF Audit!Read, Audit!Goto
  <2>2. PICK k \in Requested : k = [req[r] EXCEPT !.pending = @ \cup {p}, !.seen = @ \cup {p}]
    BY <1>1 DEF Requested
  <2>3. /\ k.pc = req[r].pc /\ k.cached = req[r].cached /\ k.left = req[r].left /\ k.owed = req[r].owed
        /\ k.seen = req[r].seen \cup {p} /\ k.pending = req[r].pending \cup {p}
    BY <1>1, <2>2 DEF Requested
  <2>4. Owes(k)  BY <1>1, <1>5, <2>3 DEF Owes, Audit!Read, Audit!Is
  <2> QED  BY <1>3, <2>1, <2>2, <2>3, <2>4
<1>6. CASE Audit!Peek(r)
  <2>1. PICK k \in Requested : k = [req[r] EXCEPT !.cached = policy]  BY <1>1 DEF Requested, ReadsInv, ReadsTyped
  <2>2. /\ k.pc = req[r].pc /\ k.cached = policy /\ k.left = req[r].left /\ k.owed = req[r].owed
        /\ k.seen = req[r].seen /\ k.pending = req[r].pending
    BY <1>1, <2>1 DEF Requested
  <2>3. Owes(k)  BY <1>1, <1>6, <2>2 DEF Owes, Audit!Peek, Audit!Is
  <2> QED  BY <1>3, <1>6, <2>1, <2>2, <2>3 DEF Audit!Peek, Audit!Goto
<1>7. CASE Audit!Flush(r)
  <2>1. PICK call \in BOOLEAN : req' = [req EXCEPT ![r] = [req[r] EXCEPT !.pc = "classify", !.call = call]]
    BY <1>7 DEF Audit!Flush, Audit!Goto
  <2>2. PICK k \in Requested : k = [req[r] EXCEPT !.pc = "classify", !.call = call]  BY <1>1 DEF Requested
  <2>3. /\ k.pc = "classify" /\ k.cached = req[r].cached /\ k.left = req[r].left /\ k.owed = req[r].owed
        /\ k.seen = req[r].seen /\ k.pending = req[r].pending
    BY <1>1, <2>2 DEF Requested
  <2>4. Owes(k)  BY <1>1, <2>3 DEF Owes
  <2> QED  BY <1>3, <2>1, <2>2, <2>3, <2>4
<1> QED  BY <1>4, <1>5, <1>6, <1>7

LEMMA WritesKeep ==
    ASSUME ReadsInv, NEW r \in Requests, Audit!WriteAuditRows(r) \/ Audit!WriteLate(r)
    PROVE  ReadsInv'
<1>1. req[r] \in Requested /\ Owes(req[r]) /\ Evident(r, req[r])  BY DEF ReadsInv, ReadsTyped
<1>2. UNCHANGED <<policy, floor>>  BY DEF Audit!WriteAuditRows, Audit!WriteLate
<1>3. trail \subseteq trail'  BY DEF Audit!WriteAuditRows, Audit!WriteLate, Audit!Recorded
<1>4. ASSUME NEW k \in Requested, req' = [req EXCEPT ![r] = k], k.pc \notin {"write", "idle"},
             k.seen = req[r].seen, k.pending = req[r].pending, k.left = req[r].left, k.owed = req[r].owed,
             k.cached = req[r].cached
      PROVE  ReadsInv'
  <2>1. Owes(k)  BY <1>1, <1>4 DEF Owes
  <2> QED  BY <1>1, <1>2, <1>3, <1>4, <2>1, OneGoesOn DEF Evident
<1>5. CASE Audit!WriteAuditRows(r) /\ Audit!Recorded(r) /\ Audit!Goto(r, Audit!Leaving(req[r]))
  <2>1. req[r].seen \subseteq req[r].pending \cup req[r].left  BY <1>1 DEF Owes
  <2>2. PICK l \in Requested : l = Audit!Leaving(req[r])  BY <1>1, <2>1, LeavingFacts
  <2>3. /\ l.seen = req[r].seen /\ l.pending = {} /\ l.owed = req[r].owed /\ l.cached = req[r].cached
        /\ l.pc \in {"run", "done"}
        /\ l.left \subseteq req[r].left \cup req[r].pending /\ l.seen \subseteq l.left
    BY <1>1, <2>1, <2>2, LeavingFacts
  <2>4. Owes(l)  BY <1>1, <2>3 DEF Owes
  <2>5. req[r].pending \cap req[r].owed \subseteq req[r].rows
    BY <1>1, <1>5 DEF Owes, Audit!WriteAuditRows, Audit!Is
  <2>6. \A p \in req[r].rows : [by |-> r, page |-> p] \in trail'  BY <1>5 DEF Audit!Recorded
  <2>7. \A p \in l.left \cap l.owed : [by |-> r, page |-> p] \in trail'
    BY <1>1, <1>3, <2>3, <2>5, <2>6 DEF Evident
  <2> QED  BY <1>2, <1>3, <1>5, <2>2, <2>4, <2>7, OneGoesOn DEF Audit!Goto
<1>6. CASE Audit!WriteAuditRows(r) /\ Audit!Refuse(r)
  <2>1. PICK k \in Requested : k = [req[r] EXCEPT !.pc = "refused"]  BY <1>1 DEF Requested
  <2>2. /\ k.pc = "refused" /\ k.seen = req[r].seen /\ k.pending = req[r].pending /\ k.left = req[r].left
        /\ k.owed = req[r].owed /\ k.cached = req[r].cached
    BY <1>1, <2>1 DEF Requested
  <2> QED  BY <1>4, <1>6, <2>1, <2>2 DEF Audit!Refuse, Audit!Goto
<1>7. CASE Audit!WriteLate(r)
  <2>1. PICK k \in Requested : k = [req[r] EXCEPT !.pc = "done"]  BY <1>1 DEF Requested
  <2>2. /\ k.pc = "done" /\ k.seen = req[r].seen /\ k.pending = req[r].pending /\ k.left = req[r].left
        /\ k.owed = req[r].owed /\ k.cached = req[r].cached
    BY <1>1, <2>1 DEF Requested
  <2> QED  BY <1>4, <1>7, <2>1, <2>2 DEF Audit!WriteLate, Audit!Goto
<1> QED  BY <1>5, <1>6, <1>7 DEF Audit!WriteAuditRows

-----------------------------------------------------------------------------
(* Reviews (AuditOutages).  A decision is the receipt of the database until *)
(* the incident is old; who found neither a receipt nor an old incident is  *)
(* the first to decide, because nothing is pruned under a reviewer.         *)
DecidedOn(i) == \E x \in decided : x[1] = i
Reviews == Reviewers \X Decisions
Review == [pc : {"idle"}] \cup [pc : {"look", "write", "agree", "mark"}, at : Incidents, choice : Decisions]
ReviewsTyped ==
    /\ rev \in [Reviewers -> Review]
    /\ marker \in [Incidents -> Reviews \cup {None}] /\ receipt \in [Incidents -> Reviews \cup {None}]
    /\ journal \subseteq Incidents
    /\ decided \subseteq Incidents \X Reviews
ReceiptsDecide == \A i \in Incidents :
    /\ receipt[i] # None => <<i, receipt[i]>> \in decided
    /\ DecidedOn(i) => receipt[i] # None \/ i \in old
FirstWriter(v) == rev[v].pc = "write" => (receipt[rev[v].at] = None => ~ DecidedOn(rev[v].at))
Confirmed(v)   == rev[v].pc = "mark" => <<rev[v].at, Audit!Mine(v)>> \in decided
ReviewsInv ==
    /\ ReviewsTyped /\ Audit!OneDecision /\ ReceiptsDecide
    /\ \A v \in Reviewers : FirstWriter(v) /\ Confirmed(v)

LEMMA ReviewFields ==
    ASSUME ReviewsTyped, NEW v \in Reviewers, rev[v].pc # "idle"
    PROVE  rev[v].at \in Incidents /\ rev[v].choice \in Decisions /\ Audit!Mine(v) \in Reviews
<1>1. rev[v] \in Review  BY DEF ReviewsTyped
<1>2. rev[v] \in [pc : {"look", "write", "agree", "mark"}, at : Incidents, choice : Decisions]
  BY <1>1 DEF Review
<1> QED  BY <1>2 DEF Audit!Mine, Reviews

(* A reviewer who goes on, or stops, and does not come to write or to mark. *)
LEMMA ReviewerGoesOn ==
    ASSUME ReviewsInv, NEW v \in Reviewers, NEW q \in Review, rev' = [rev EXCEPT ![v] = q],
           UNCHANGED <<marker, receipt, decided, old, journal>>, saved' \subseteq saved \cup decided,
           q.pc = "write" => (receipt[q.at] = None => ~ DecidedOn(q.at)),
           q.pc = "mark" => <<q.at, <<v, q.choice>>>> \in decided
    PROVE  ReviewsInv'
<1>1. \A u \in Reviewers : rev'[u] = IF u = v THEN q ELSE rev[u]  BY DEF ReviewsInv, ReviewsTyped
<1>2. ReviewsTyped'  BY DEF ReviewsInv, ReviewsTyped
<1>3. ReceiptsDecide'  BY DEF ReviewsInv, ReceiptsDecide, DecidedOn
<1>4. Audit!OneDecision'  BY DEF ReviewsInv, Audit!OneDecision
<1>5. ASSUME NEW u \in Reviewers  PROVE FirstWriter(u)' /\ Confirmed(u)'
  <2>1. CASE u = v  BY <1>1, <2>1 DEF FirstWriter, Confirmed, Audit!Mine, DecidedOn
  <2>2. CASE u # v
    <3>1. FirstWriter(u) /\ Confirmed(u)  BY DEF ReviewsInv
    <3> QED  BY <1>1, <2>2, <3>1 DEF FirstWriter, Confirmed, Audit!Mine, DecidedOn
  <2> QED  BY <2>1, <2>2
<1> QED  BY <1>2, <1>3, <1>4, <1>5 DEF ReviewsInv

LEMMA StopKeeps ==
    ASSUME ReviewsInv, NEW v \in Reviewers, Audit!Stop(v),
           UNCHANGED <<marker, receipt, decided, old, journal>>, saved' \subseteq saved \cup decided
    PROVE  ReviewsInv'
<1>1. PICK q \in Review : q = [pc |-> "idle"]  BY DEF Review
<1> QED  BY <1>1, ReviewerGoesOn DEF Audit!Stop

LEMMA TurnFacts ==
    ASSUME ReviewsTyped, NEW v \in Reviewers, rev[v].pc # "idle", NEW pc \in {"look", "write", "agree", "mark"},
           Audit!Turn(v, pc)
    PROVE  \E q \in Review : rev' = [rev EXCEPT ![v] = q] /\ q.pc = pc /\ q.at = rev[v].at /\ q.choice = rev[v].choice
<1>1. rev[v] \in [pc : {"look", "write", "agree", "mark"}, at : Incidents, choice : Decisions]
  BY DEF ReviewsTyped, Review
<1>2. PICK q \in Review : q = [rev[v] EXCEPT !.pc = pc]  BY <1>1 DEF Review
<1>3. q.pc = pc /\ q.at = rev[v].at /\ q.choice = rev[v].choice  BY <1>1, <1>2
<1> QED  BY <1>2, <1>3 DEF Audit!Turn

LEMMA ReviewerKeeps ==
    ASSUME ReviewsInv, NEW v \in Reviewers, UNCHANGED journal,
           Audit!Open(v) \/ Audit!Look(v) \/ Audit!Decide(v) \/ Audit!Agree(v) \/ Audit!Mark(v)
    PROVE  ReviewsInv'
<1> USE AuditAssumption DEF Audit!OutageAssumption
<1>1. ReviewsTyped /\ Audit!OneDecision /\ ReceiptsDecide /\ FirstWriter(v) /\ Confirmed(v)
  BY DEF ReviewsInv
<1>2. ASSUME NEW pc \in {"agree", "look"}, rev[v].pc # "idle", Audit!Turn(v, pc),
             UNCHANGED <<marker, receipt, decided, old, saved>>
      PROVE  ReviewsInv'
  <2>1. PICK q \in Review : rev' = [rev EXCEPT ![v] = q] /\ q.pc = pc  BY <1>1, <1>2, TurnFacts
  <2> QED  BY <1>2, <2>1, ReviewerGoesOn
<1>3. ASSUME Audit!Compare(v, receipt[rev[v].at]), rev[v].pc # "idle",
             UNCHANGED <<marker, receipt, decided, old, saved>>
      PROVE  ReviewsInv'
  <2>1. CASE Audit!Stop(v)  BY <1>3, <2>1, StopKeeps
  <2>2. CASE Audit!Turn(v, "mark") /\ receipt[rev[v].at] # None /\ Audit!Mine(v) = receipt[rev[v].at]
    <3>1. PICK q \in Review : /\ rev' = [rev EXCEPT ![v] = q] /\ q.pc = "mark"
                              /\ q.at = rev[v].at /\ q.choice = rev[v].choice
      BY <1>1, <1>3, <2>2, TurnFacts
    <3>2. <<q.at, <<v, q.choice>>>> \in decided
      BY <1>1, <1>3, <2>2, <3>1, ReviewFields DEF ReceiptsDecide, Audit!Mine
    <3> QED  BY <1>3, <3>1, <3>2, ReviewerGoesOn
  <2> QED  BY <1>3, <2>1, <2>2 DEF Audit!Compare, Audit!Matches
<1>4. CASE Audit!Open(v)
  <2>1. PICK i \in journal, d \in Decisions :
          IF marker[i] = None
          THEN rev' = [rev EXCEPT ![v] = [pc |-> "look", at |-> i, choice |-> d]] /\ UNCHANGED saved
          ELSE /\ saved' = IF Audit!Matches(<<v, d>>, marker[i]) THEN saved \cup {<<i, <<v, d>>>>} ELSE saved
               /\ UNCHANGED rev
    BY <1>4 DEF Audit!Open
  <2>2. i \in Incidents /\ UNCHANGED <<marker, receipt, decided, old>>  BY <1>1, <1>4 DEF ReviewsTyped, Audit!Open
  <2>3. CASE marker[i] = None
    <3>1. PICK q \in Review : q = [pc |-> "look", at |-> i, choice |-> d]  BY <2>2 DEF Review
    <3> QED  BY <2>1, <2>2, <2>3, <3>1, ReviewerGoesOn
  <2>4. CASE marker[i] # None
    <3>1. saved' \subseteq saved \cup decided  BY <1>1, <2>1, <2>2, <2>4 DEF Audit!OneDecision, Audit!Matches
    <3>2. rev' = rev  BY <2>1, <2>4
    <3>3. Audit!OneDecision'  BY <1>1, <2>2, <3>1 DEF Audit!OneDecision
    <3> QED  BY <2>2, <3>2, <3>3
          DEF ReviewsInv, ReviewsTyped, ReceiptsDecide, DecidedOn, FirstWriter, Confirmed, Audit!Mine
  <2> QED  BY <2>3, <2>4
<1>5. CASE Audit!Look(v)
  <2>1. UNCHANGED <<marker, receipt, decided, old, saved>> /\ rev[v].pc # "idle"
    BY <1>5 DEF Audit!Look, Audit!Nothing, Audit!At
  <2>2. CASE Audit!Stop(v)  BY <2>1, <2>2, StopKeeps
  <2>3. CASE Audit!Compare(v, receipt[rev[v].at])  BY <1>3, <2>1, <2>3
  <2>4. CASE receipt[rev[v].at] = None /\ rev[v].at \notin old /\ Audit!Turn(v, "write")
    <3>1. PICK q \in Review : rev' = [rev EXCEPT ![v] = q] /\ q.pc = "write" /\ q.at = rev[v].at
      BY <1>1, <2>1, <2>4, TurnFacts
    <3>2. ~ DecidedOn(q.at)  BY <1>1, <2>1, <2>4, <3>1, ReviewFields DEF ReceiptsDecide
    <3> QED  BY <2>1, <3>1, <3>2, ReviewerGoesOn
  <2> QED  BY <1>5, <2>2, <2>3, <2>4 DEF Audit!Look
<1>6. CASE Audit!Agree(v)
  <2>1. UNCHANGED <<marker, receipt, decided, old, saved>> /\ rev[v].pc # "idle"
    BY <1>6 DEF Audit!Agree, Audit!Nothing, Audit!At
  <2>2. CASE Audit!Stop(v)  BY <2>1, <2>2, StopKeeps
  <2> QED  BY <1>3, <1>6, <2>1, <2>2 DEF Audit!Agree
<1>7. CASE Audit!Decide(v)
  <2> DEFINE i == rev[v].at
  <2>1. rev[v].pc = "write" /\ UNCHANGED <<marker, saved, old>>  BY <1>7 DEF Audit!Decide, Audit!At
  <2>2. i \in Incidents /\ Audit!Mine(v) \in Reviews  BY <1>1, <2>1, ReviewFields
  <2>3. PICK q \in Review : rev' = [rev EXCEPT ![v] = q] /\ q.pc \in {"agree", "idle"}
    <3>1. CASE Audit!Turn(v, "agree")  BY <1>1, <2>1, <3>1, TurnFacts
    <3>2. CASE Audit!Stop(v)
      <4>1. PICK q \in Review : q = [pc |-> "idle"]  BY DEF Review
      <4> QED  BY <3>2, <4>1 DEF Audit!Stop
    <3> QED  BY <1>7, <3>1, <3>2 DEF Audit!Decide
  <2>4. CASE UNCHANGED <<receipt, decided>>  BY <2>1, <2>3, <2>4, ReviewerGoesOn
  <2>5. CASE /\ receipt[i] = None /\ receipt' = [receipt EXCEPT ![i] = Audit!Mine(v)]
             /\ decided' = decided \cup {<<i, Audit!Mine(v)>>}
    <3>1. PICK m \in Reviews : m = Audit!Mine(v)  BY <2>2
    <3>2. ~ DecidedOn(i) /\ m # None  BY <1>1, <2>1, <2>5, <3>1 DEF FirstWriter, Reviews
    <3>3. receipt' = [receipt EXCEPT ![i] = m] /\ decided' = decided \cup {<<i, m>>}  BY <2>5, <3>1
    <3>4. \A u \in Reviewers : rev'[u] = IF u = v THEN q ELSE rev[u]  BY <1>1, <2>3 DEF ReviewsTyped
    <3>5. ReviewsTyped'  BY <1>1, <2>1, <2>2, <2>3, <3>3 DEF ReviewsTyped
    <3>6. \A j \in Incidents : receipt'[j] = IF j = i THEN m ELSE receipt[j]  BY <1>1, <2>2, <3>3 DEF ReviewsTyped
    <3>7. \A x \in decided' : x \in decided \/ x = <<i, m>>  BY <3>3
    <3>8. Audit!OneDecision'
      <4>1. \A x \in decided : x[1] # i  BY <3>2 DEF DecidedOn
      <4>2. \A x, y \in decided' : x[1] = y[1] => x = y  BY <1>1, <3>7, <4>1 DEF Audit!OneDecision
      <4> QED  BY <1>1, <2>1, <3>3, <4>2 DEF Audit!OneDecision
    <3>9. ReceiptsDecide'
      <4>1. ASSUME NEW j \in Incidents
            PROVE /\ receipt'[j] # None => <<j, receipt'[j]>> \in decided'
                  /\ DecidedOn(j)' => receipt'[j] # None \/ j \in old'
        <5>1. CASE j = i  BY <3>2, <3>3, <3>6, <5>1
        <5>2. CASE j # i
          <6>1. DecidedOn(j)' => DecidedOn(j)  BY <3>7, <5>2 DEF DecidedOn
          <6> QED  BY <1>1, <2>1, <3>3, <3>6, <5>2, <6>1 DEF ReceiptsDecide
        <5> QED  BY <5>1, <5>2
      <4> QED  BY <4>1 DEF ReceiptsDecide
    <3>10. ASSUME NEW u \in Reviewers  PROVE FirstWriter(u)' /\ Confirmed(u)'
      <4>1. CASE u = v  BY <2>3, <3>4, <4>1 DEF FirstWriter, Confirmed
      <4>2. CASE u # v
        <5>1. rev'[u] = rev[u] /\ FirstWriter(u) /\ Confirmed(u)  BY <3>4, <4>2 DEF ReviewsInv
        <5>2. Confirmed(u)'  BY <3>3, <5>1 DEF Confirmed, Audit!Mine
        <5>3. ASSUME rev[u].pc = "write", receipt'[rev[u].at] = None  PROVE ~ DecidedOn(rev[u].at)'
          <6>1. rev[u].at \in Incidents  BY <1>1, <5>3, ReviewFields
          <6>2. rev[u].at # i /\ receipt[rev[u].at] = None  BY <3>2, <3>6, <5>3, <6>1
          <6> QED  BY <3>7, <5>1, <5>3, <6>2 DEF FirstWriter, DecidedOn
        <5> QED  BY <5>1, <5>2, <5>3 DEF FirstWriter, DecidedOn
      <4> QED  BY <4>1, <4>2
    <3> QED  BY <3>5, <3>8, <3>9, <3>10 DEF ReviewsInv
  <2> QED  BY <1>7, <2>4, <2>5 DEF Audit!Decide
<1>8. CASE Audit!Mark(v)
  <2> DEFINE i == rev[v].at
  <2>1. rev[v].pc = "mark" /\ UNCHANGED <<receipt, decided, old>> /\ Audit!Stop(v)
    BY <1>8 DEF Audit!Mark, Audit!At
  <2>2. i \in Incidents /\ Audit!Mine(v) \in Reviews /\ <<i, Audit!Mine(v)>> \in decided
    BY <1>1, <2>1, ReviewFields DEF Confirmed
  <2>3. CASE UNCHANGED <<marker, saved>>  BY <2>1, <2>3, StopKeeps
  <2>4. CASE marker' = [marker EXCEPT ![i] = Audit!Mine(v)] /\ saved' = saved \cup {<<i, Audit!Mine(v)>>}
    <3>1. PICK m \in Reviews : m = Audit!Mine(v)  BY <2>2
    <3>2. marker' \in [Incidents -> Reviews \cup {None}]
          /\ \A j \in Incidents : marker'[j] = IF j = i THEN m ELSE marker[j]
      BY <1>1, <2>2, <2>4, <3>1 DEF ReviewsTyped
    <3>3. Audit!OneDecision'  BY <1>1, <2>1, <2>2, <2>4, <3>1, <3>2 DEF Audit!OneDecision
    <3>4. PICK q \in Review : q = [pc |-> "idle"]  BY DEF Review
    <3>5. rev' = [rev EXCEPT ![v] = q]  BY <2>1, <3>4 DEF Audit!Stop
    <3>6. ReviewsTyped'  BY <1>1, <2>1, <3>2, <3>5 DEF ReviewsTyped
    <3>7. ReceiptsDecide'  BY <1>1, <2>1 DEF ReceiptsDecide, DecidedOn
    <3>8. ASSUME NEW u \in Reviewers  PROVE FirstWriter(u)' /\ Confirmed(u)'
      <4>1. rev'[u] = IF u = v THEN q ELSE rev[u]  BY <1>1, <3>5 DEF ReviewsTyped
      <4>2. FirstWriter(u) /\ Confirmed(u)  BY DEF ReviewsInv
      <4> QED  BY <2>1, <3>4, <4>1, <4>2 DEF FirstWriter, Confirmed, Audit!Mine, DecidedOn
    <3> QED  BY <3>3, <3>6, <3>7, <3>8 DEF ReviewsInv
  <2> QED  BY <1>8, <2>3, <2>4 DEF Audit!Mark
<1> QED  BY <1>4, <1>5, <1>6, <1>7, <1>8

LEMMA TimeKeeps ==
    ASSUME ReviewsInv, Audit!Age \/ Audit!Prune, UNCHANGED journal  PROVE ReviewsInv'
<1>1. ReviewsTyped /\ Audit!OneDecision /\ ReceiptsDecide  BY DEF ReviewsInv
<1>2. UNCHANGED <<marker, decided, saved, rev>>  BY DEF Audit!Age, Audit!Prune
<1>3. Audit!OneDecision'  BY <1>1, <1>2 DEF Audit!OneDecision
<1>4. CASE Audit!Age
  <2>1. old \subseteq old' /\ receipt' = receipt  BY <1>4 DEF Audit!Age
  <2> QED  BY <1>1, <1>2, <1>3, <2>1
        DEF ReviewsInv, ReviewsTyped, ReceiptsDecide, DecidedOn, FirstWriter, Confirmed, Audit!Mine
<1>5. CASE Audit!Prune
  <2>1. PICK i \in old : receipt[i] # None /\ (\A v \in Reviewers : Audit!At(v, "idle"))
                         /\ receipt' = [receipt EXCEPT ![i] = None]
    BY <1>5 DEF Audit!Prune
  <2>2. old' = old  BY <1>5 DEF Audit!Prune
  <2>3. receipt' \in [Incidents -> Reviews \cup {None}]
        /\ \A j \in Incidents : receipt'[j] = IF j = i THEN None ELSE receipt[j]
    BY <1>1, <2>1 DEF ReviewsTyped
  <2>4. ReceiptsDecide'  BY <1>1, <1>2, <2>1, <2>2, <2>3 DEF ReceiptsDecide, DecidedOn
  <2>5. \A v \in Reviewers : FirstWriter(v)' /\ Confirmed(v)'
    BY <1>2, <2>1 DEF FirstWriter, Confirmed, Audit!At
  <2>6. ReviewsTyped'  BY <1>1, <1>2, <2>3 DEF ReviewsTyped
  <2> QED  BY <1>3, <2>4, <2>5, <2>6 DEF ReviewsInv
<1> QED  BY <1>4, <1>5

EvidenceInv == ReadsInv /\ ReviewsInv

(* Evidence is sound for any requests, pages, reviewers and incidents, and  *)
(* however often the database, the journal or the receiver goes down: what  *)
(* was health data leaves only with its evidence in the trail, and an       *)
(* incident is decided once, its marker being that decision.                *)
THEOREM EvidenceHolds == Audit!Spec => []EvidenceSound
<1>1. Audit!Init => EvidenceInv
  <2> SUFFICES ASSUME Audit!Init  PROVE EvidenceInv
    OBVIOUS
  <2> USE DEF Audit!Init
  <2>1. ReadsTyped  BY DEF ReadsTyped, Requested, Classes, Audit!Idle
  <2>2. \A r \in Requests : Owes(req[r]) /\ Evident(r, req[r])  BY DEF Owes, Evident, Audit!Idle
  <2>3. ReviewsTyped  BY DEF ReviewsTyped, Review
  <2>4. Audit!OneDecision /\ ReceiptsDecide  BY DEF Audit!OneDecision, ReceiptsDecide, DecidedOn
  <2>5. \A v \in Reviewers : FirstWriter(v) /\ Confirmed(v)  BY DEF FirstWriter, Confirmed
  <2> QED  BY <2>1, <2>2, <2>3, <2>4, <2>5 DEF EvidenceInv, ReadsInv, ReviewsInv
<1>2. EvidenceInv /\ [Audit!Next]_(Audit!vars) => EvidenceInv'
  <2> SUFFICES ASSUME EvidenceInv, [Audit!Next]_(Audit!vars)  PROVE EvidenceInv'
    OBVIOUS
  <2>1. ReadsInv /\ ReviewsInv  BY DEF EvidenceInv
  <2>2. UNCHANGED <<policy, floor, trail, req>> => ReadsInv'
    BY <2>1 DEF ReadsInv, ReadsTyped, Owes, Evident, Audit!Class
  <2>3. UNCHANGED Audit!reviews /\ journal' \subseteq Incidents => ReviewsInv'
    BY <2>1 DEF ReviewsInv, ReviewsTyped, Audit!OneDecision, ReceiptsDecide, DecidedOn, FirstWriter, Confirmed,
                Audit!Mine, Audit!reviews
  <2>4. journal \subseteq Incidents  BY <2>1 DEF ReviewsInv, ReviewsTyped
  <2>5. CASE Audit!ReadingNext
    <3>1. ReviewsInv'  BY <2>3, <2>4, <2>5 DEF Audit!ReadingNext
    <3> QED  BY <2>1, <2>5, <3>1, RaiseKeeps, RequestKeeps, ClassifyKeeps, WritesKeep
          DEF Audit!ReadingNext, Audit!Reading, EvidenceInv
  <2>6. CASE Audit!Reporting /\ UNCHANGED <<Audit!evidence, Audit!monitor, Audit!reviews>>
    <3>1. journal' \subseteq Incidents
      BY <2>4, <2>6 DEF Audit!Reporting, Audit!AfterResponse, Audit!PutIncident, Audit!SendAlert, Audit!NoteAlert,
                        Audit!CutReport, Audit!Lapse
    <3> QED  BY <2>2, <2>3, <2>6, <3>1 DEF Audit!evidence, EvidenceInv
  <2>7. CASE Audit!Monitoring /\ UNCHANGED <<Audit!evidence, Audit!reviews>>
    <3>1. journal' = journal
      BY <2>7 DEF Audit!Monitoring, Audit!Tick, Audit!Probe, Audit!List, Audit!Scan, Audit!NoteScanned, Audit!Beat,
                  Audit!SaveHealth, Audit!CutTick, Audit!alerts
    <3> QED  BY <2>2, <2>3, <2>4, <2>7, <3>1 DEF Audit!evidence, EvidenceInv
  <2>8. CASE Audit!Reviewing /\ UNCHANGED <<Audit!evidence, Audit!alerts, Audit!monitor>>
    <3>1. journal' = journal  BY <2>8 DEF Audit!alerts
    <3>2. ReadsInv'  BY <2>2, <2>8 DEF Audit!evidence
    <3> QED  BY <2>1, <2>8, <3>1, <3>2, ReviewerKeeps, TimeKeeps DEF Audit!Reviewing, EvidenceInv
  <2>9. CASE Audit!Outages \/ UNCHANGED Audit!vars
    <3>1. UNCHANGED <<Audit!evidence, Audit!alerts, Audit!reviews>>  BY <2>9 DEF Audit!Outages, Audit!vars
    <3> QED  BY <2>2, <2>3, <2>4, <3>1 DEF Audit!evidence, Audit!alerts, EvidenceInv
  <2> QED  BY <2>5, <2>6, <2>7, <2>8, <2>9 DEF Audit!Next, Audit!IncidentsNext
<1>3. EvidenceInv => EvidenceSound
  BY DEF EvidenceInv, ReadsInv, ReviewsInv, EvidenceSound, Audit!EvidenceSound, Audit!HealthReadsAreRecorded, Evident
<1> QED  BY <1>1, <1>2, <1>3, PTL DEF Audit!Spec
=============================================================================
