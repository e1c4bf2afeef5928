---------------------- MODULE SubmissionMirrorsProofs ----------------------
(***************************************************************************)
(* For any number of submissions, runs, requests and erasure passes: where *)
(* a copy of a submission is left alone until it is marked, a confirmed    *)
(* erasure means that the source row is gone; and, without that condition  *)
(* and however runs overlap, ingest revives only what another has made a   *)
(* draft of since the run looked.                                          *)
(*                                                                         *)
(* The argument of the first: a visitor's row appears once, before anybody *)
(* can know of it, and nothing published lands on it; so once it is gone   *)
(* it stays gone, and a pass that confirms has deleted what it read.  Of   *)
(* the second: what a run did not know when it looked was in no table, and *)
(* only an insert puts a page in a table that was in none.                 *)
(***************************************************************************)
EXTENDS MCSubmissionMirrors, TLAPS

Step == Next /\ MarkedAtOnce'

(* Of a uuid no visitor has used yet nobody knows anything.                 *)
FreshPage(u) == live[u] = "absent" /\ draft[u] = "none" /\ trash[u] = "none" /\ erasures[u] = "none"
FreshRun(u) == \A r \in Runs : run[r] # Idle => u \notin run[r].todo
FreshRequest(u) == \A q \in Requests : request[q] # Idle => request[q].row # u
FreshPass(u) == \A e \in Erasers : eraser[e] # Idle => u \notin eraser[e].rows
Fresh(u) == FreshPage(u) /\ FreshRun(u) /\ FreshRequest(u) /\ FreshPass(u)
NobodyKnows == \A u \in Submitted \ submitted : Fresh(u)
(* A pass that is about to confirm has deleted.                             *)
Deleted == \A e \in Erasers : eraser[e].phase = "confirm" => \A u \in eraser[e].rows \cap Submitted : live[u] = "absent"
IInv == TypeOK /\ MarkedAtOnce /\ NobodyKnows /\ Deleted /\ ConfirmedMeansGone

(* What a run has yet to take up and did not know of is in no table, unless *)
(* somebody else has made a draft of it.                                    *)
DueAnew(r) == run[r].todo \ run[r].known
TakenUpAnew == \A r \in Runs : Looked(r) => \A u \in DueAnew(r) : Nowhere(u) \/ u \in made[r]

-----------------------------------------------------------------------------
Tables == /\ live \in [Uuids -> {"absent", "visitor", "cms"}]
          /\ draft \in [Uuids -> Copies] /\ trash \in [Uuids -> Copies]
          /\ erasures \in [Uuids -> {"none", "pending", "erased"}]
Rest == cursor \in Cursor /\ submitted \subseteq Submitted /\ faults \in 0..MaxFaults
Actors == /\ run \in [Runs -> Run \cup {Idle}] /\ request \in [Requests -> Request \cup {Idle}]
          /\ eraser \in [Erasers -> Pass \cup {Idle}]
LEMMA TypeIs == TypeOK <=> Tables /\ Rest /\ Actors
  BY DEF TypeOK, Tables, Rest, Actors
LEMMA TypeIsNext == TypeOK' <=> Tables' /\ Rest' /\ Actors'
  BY TypeIs, PTL

LEMMA Idles == Idle \notin Run /\ Idle \notin Request /\ Idle \notin Pass /\ Idle.phase = "idle"
<1>1. \A x \in Run \cup Request \cup Pass : x.phase # "idle"  BY DEF Run, Request, Pass
<1> QED  BY <1>1 DEF Idle

(* A step that leaves of the tables what the invariant says of them.        *)
Keeps == /\ \A u \in Submitted : live[u] = "absent" => live'[u] = "absent"
         /\ \A u \in Submitted : erasures'[u] = "erased" => erasures[u] = "erased" \/ live'[u] = "absent"
         /\ submitted' = submitted

LEMMA RunMoves ==
    ASSUME IInv, MarkedAtOnce', NEW r \in Runs, NEW x \in Run \cup {Idle}, run' = [run EXCEPT ![r] = x],
           x # Idle => \A u \in Submitted \ submitted : u \notin x.todo,
           draft' \in [Uuids -> Copies], \A u \in Submitted \ submitted : draft'[u] = "none",
           cursor' \in Cursor, UNCHANGED <<live, trash, erasures, request, eraser, submitted, faults>>
    PROVE  IInv'
<1>1. TypeOK'
  <2>1. Tables' /\ Rest'  BY TypeIs DEF IInv, Tables, Rest
  <2>2. Actors'  BY TypeIs DEF IInv, Actors
  <2> QED  BY <2>1, <2>2, TypeIsNext
<1>2. run'[r] = x /\ \A s \in Runs \ {r} : run'[s] = run[s]  BY TypeIs DEF IInv, Actors
<1>3. ASSUME NEW u \in Submitted \ submitted  PROVE Fresh(u)'
  <2>1. Fresh(u)  BY DEF IInv, NobodyKnows
  <2>2. FreshPage(u)'  BY <2>1 DEF Fresh, FreshPage
  <2>3. FreshRun(u)'  BY <1>2, <2>1 DEF Fresh, FreshRun
  <2>4. FreshRequest(u)' /\ FreshPass(u)'  BY <2>1 DEF Fresh, FreshRequest, FreshPass
  <2> QED  BY <2>2, <2>3, <2>4 DEF Fresh
<1>4. NobodyKnows'  BY <1>3 DEF NobodyKnows
<1>5. Deleted' /\ ConfirmedMeansGone'  BY DEF IInv, Deleted, ConfirmedMeansGone
<1> QED  BY <1>1, <1>4, <1>5 DEF IInv

LEMMA RequestMoves ==
    ASSUME IInv, MarkedAtOnce', NEW q \in Requests, NEW x \in Request \cup {Idle},
           request' = [request EXCEPT ![q] = x],
           x # Idle => \A u \in Submitted \ submitted : u # x.row,
           Tables', Keeps, \A u \in Submitted \ submitted : FreshPage(u)',
           UNCHANGED <<cursor, run, eraser, submitted, faults>>
    PROVE  IInv'
<1>1. TypeOK'
  <2>1. Rest'  BY TypeIs DEF IInv, Rest
  <2>2. Actors'  BY TypeIs DEF IInv, Actors
  <2> QED  BY <2>1, <2>2, TypeIsNext
<1>2. request'[q] = x /\ \A s \in Requests \ {q} : request'[s] = request[s]  BY TypeIs DEF IInv, Actors
<1>3. ASSUME NEW u \in Submitted \ submitted  PROVE Fresh(u)'
  <2>1. Fresh(u)  BY DEF IInv, NobodyKnows
  <2>2. FreshPage(u)'  OBVIOUS
  <2>3. FreshRequest(u)'  BY <1>2, <2>1 DEF Fresh, FreshRequest
  <2>4. FreshRun(u)' /\ FreshPass(u)'  BY <2>1 DEF Fresh, FreshRun, FreshPass
  <2> QED  BY <2>2, <2>3, <2>4 DEF Fresh
<1>4. NobodyKnows'  BY <1>3 DEF NobodyKnows
<1>5. Deleted'  BY DEF IInv, Deleted, Keeps
<1>6. ConfirmedMeansGone'  BY DEF IInv, ConfirmedMeansGone, Keeps
<1> QED  BY <1>1, <1>4, <1>5, <1>6 DEF IInv

LEMMA EraserMoves ==
    ASSUME IInv, MarkedAtOnce', NEW e \in Erasers, NEW x \in Pass \cup {Idle},
           eraser' = [eraser EXCEPT ![e] = x],
           x # Idle => \A u \in Submitted \ submitted : u \notin x.rows,
           x.phase = "confirm" => \A u \in x.rows \cap Submitted : live'[u] = "absent",
           Tables', Keeps, \A u \in Submitted \ submitted : FreshPage(u)',
           UNCHANGED <<cursor, run, request, submitted, faults>>
    PROVE  IInv'
<1>1. TypeOK'
  <2>1. Rest'  BY TypeIs DEF IInv, Rest
  <2>2. Actors'  BY TypeIs DEF IInv, Actors
  <2> QED  BY <2>1, <2>2, TypeIsNext
<1>2. eraser'[e] = x /\ \A s \in Erasers \ {e} : eraser'[s] = eraser[s]  BY TypeIs DEF IInv, Actors
<1>3. ASSUME NEW u \in Submitted \ submitted  PROVE Fresh(u)'
  <2>1. Fresh(u)  BY DEF IInv, NobodyKnows
  <2>2. FreshPage(u)'  OBVIOUS
  <2>3. FreshPass(u)'  BY <1>2, <2>1 DEF Fresh, FreshPass
  <2>4. FreshRun(u)' /\ FreshRequest(u)'  BY <2>1 DEF Fresh, FreshRun, FreshRequest
  <2> QED  BY <2>2, <2>3, <2>4 DEF Fresh
<1>4. NobodyKnows'  BY <1>3 DEF NobodyKnows
<1>5. Deleted'  BY <1>2 DEF IInv, Deleted, Keeps
<1>6. ConfirmedMeansGone'  BY DEF IInv, ConfirmedMeansGone, Keeps
<1> QED  BY <1>1, <1>4, <1>5, <1>6 DEF IInv

-----------------------------------------------------------------------------
LEMMA RunIs ==
    ASSUME IInv, NEW r \in Runs, run[r].phase # "idle"
    PROVE  /\ run[r] # Idle /\ run[r] \in Run
           /\ \A u \in Submitted \ submitted : u \notin run[r].todo
<1>1. run[r] # Idle /\ run[r] \in Run  BY TypeIs DEF IInv, Actors, Idle
<1>2. \A u \in Submitted \ submitted : u \notin run[r].todo  BY <1>1 DEF IInv, NobodyKnows, Fresh, FreshRun
<1> QED  BY <1>1, <1>2

LEMMA Unused == ASSUME IInv, NEW u \in Submitted \ submitted  PROVE u \in Uuids /\ FreshPage(u)
  BY DEF IInv, NobodyKnows, Fresh, Uuids

LEMMA DraftIs == ASSUME IInv  PROVE draft \in [Uuids -> Copies] /\ \A u \in Submitted \ submitted : draft[u] = "none"
<1>1. draft \in [Uuids -> Copies]  BY TypeIs DEF IInv, Tables
<1> QED  BY <1>1, Unused DEF FreshPage

LEMMA BeginRunStep == ASSUME IInv, MarkedAtOnce', NEW r \in Runs, BeginRun(r)  PROVE IInv'
<1> DEFINE x == [phase |-> "begun", from |-> cursor, todo |-> {}, full |-> FALSE, last |-> cursor.at,
                 known |-> {}, created |-> 0]
<1>1. cursor \in Cursor  BY TypeIs DEF IInv, Rest
<1>2. x \in Run /\ x.todo = {}  BY <1>1 DEF Run, Cursor
<1>3. run' = [run EXCEPT ![r] = x] /\ UNCHANGED <<live, draft, trash, erasures, cursor, request, eraser, submitted, faults>>
  BY DEF BeginRun
<1> HIDE DEF x
<1>4. \A u \in Submitted \ submitted : u \notin x.todo  BY <1>2
<1>5. draft' \in [Uuids -> Copies] /\ \A u \in Submitted \ submitted : draft'[u] = "none"  BY <1>3, DraftIs
<1> QED  BY <1>1, <1>2, <1>3, <1>4, <1>5, RunMoves

LEMMA ScanNothingStep == ASSUME IInv, MarkedAtOnce', NEW r \in Runs, ScanNothing(r)  PROVE IInv'
<1>1. run' = [run EXCEPT ![r] = Idle] /\ UNCHANGED <<live, draft, trash, erasures, request, eraser, submitted, faults>>
  BY DEF ScanNothing
<1>2. cursor' \in Cursor
  <2>1. run[r].phase = "begun"  BY DEF ScanNothing
  <2>2. run[r].from \in Cursor  BY <2>1, RunIs DEF Run
  <2>3. cursor \in Cursor  BY TypeIs DEF IInv, Rest
  <2>4. AtEnd(run[r].from) \in Cursor  BY <2>2 DEF AtEnd, Cursor, Ages
  <2>5. Restarted \in Cursor  BY DEF Restarted, Cursor, Ages
  <2>6. run[r].from.passed \in {"never", "today", "overdue"}  BY <2>2 DEF Cursor, Ages
  <2>7. cursor' \in {cursor, AtEnd(run[r].from), Restarted}  BY <2>6 DEF ScanNothing
  <2> QED  BY <2>3, <2>4, <2>5, <2>7
<1>3. draft' \in [Uuids -> Copies] /\ \A u \in Submitted \ submitted : draft'[u] = "none"  BY <1>1, DraftIs
<1> QED  BY <1>1, <1>2, <1>3, RunMoves

LEMMA ScanStep == ASSUME IInv, MarkedAtOnce', NEW r \in Runs, Scan(r)  PROVE IInv'
<1>1. run[r].phase = "begun" /\ UNCHANGED <<live, draft, trash, erasures, cursor, request, eraser, submitted, faults>>
  BY DEF Scan
<1>2. PICK rows : rows = Past(run[r].from.at)  OBVIOUS
<1>3. PICK x : x = [run[r] EXCEPT !.phase = "scanned", !.todo = rows, !.full = (Cardinality(rows) = ScanLimit)]
  OBVIOUS
<1>4. run' = [run EXCEPT ![r] = x]  BY <1>2, <1>3 DEF Scan
<1>5. rows \in SUBSET Uuids /\ \A u \in rows : live[u] # "absent"  BY <1>2 DEF Past
<1>6. run[r] \in Run  BY <1>1, RunIs
<1>7. x \in Run /\ x.todo = rows  BY <1>3, <1>5, <1>6 DEF Run
<1>8. \A u \in Submitted \ submitted : u \notin x.todo  BY <1>5, <1>7, Unused DEF FreshPage
<1>9. draft' \in [Uuids -> Copies] /\ \A u \in Submitted \ submitted : draft'[u] = "none"  BY <1>1, DraftIs
<1>10. cursor' \in Cursor  BY <1>1, TypeIs DEF IInv, Rest
<1> QED  BY <1>1, <1>4, <1>7, <1>8, <1>9, <1>10, RunMoves

LEMMA PreCheckStep == ASSUME IInv, MarkedAtOnce', NEW r \in Runs, PreCheck(r)  PROVE IInv'
<1>1. run[r].phase = "scanned" /\ UNCHANGED <<live, draft, trash, erasures, cursor, request, eraser, submitted, faults>>
  BY DEF PreCheck
<1>2. PICK x : x = [run[r] EXCEPT !.phase = "creating", !.known = {u \in run[r].todo : Known(u)}]  OBVIOUS
<1>3. run' = [run EXCEPT ![r] = x]  BY <1>2 DEF PreCheck
<1>4. run[r] \in Run /\ \A u \in Submitted \ submitted : u \notin run[r].todo  BY <1>1, RunIs
<1>5. x \in Run /\ x.todo = run[r].todo  BY <1>2, <1>4 DEF Run
<1>6. \A u \in Submitted \ submitted : u \notin x.todo  BY <1>4, <1>5
<1>7. draft' \in [Uuids -> Copies] /\ \A u \in Submitted \ submitted : draft'[u] = "none"  BY <1>1, DraftIs
<1>8. cursor' \in Cursor  BY <1>1, TypeIs DEF IInv, Rest
<1> QED  BY <1>1, <1>3, <1>5, <1>6, <1>7, <1>8, RunMoves

LEMMA SkipStep == ASSUME IInv, MarkedAtOnce', NEW r \in Runs, NEW u \in Uuids, Skip(r, u)  PROVE IInv'
<1>1. /\ run[r].phase = "creating"
      /\ UNCHANGED <<live, draft, trash, erasures, cursor, request, eraser, submitted, faults>>
  BY DEF Skip, Handling
<1>2. PICK x : x = Handled(r, u)  OBVIOUS
<1>3. run' = [run EXCEPT ![r] = x]  BY <1>2 DEF Skip
<1>4. run[r] \in Run /\ \A v \in Submitted \ submitted : v \notin run[r].todo  BY <1>1, RunIs
<1>5. x \in Run /\ x.todo = run[r].todo \ {u}  BY <1>2, <1>4 DEF Handled, Run
<1>6. \A v \in Submitted \ submitted : v \notin x.todo  BY <1>4, <1>5
<1>7. draft' \in [Uuids -> Copies] /\ \A v \in Submitted \ submitted : draft'[v] = "none"  BY <1>1, DraftIs
<1>8. cursor' \in Cursor  BY <1>1, TypeIs DEF IInv, Rest
<1> QED  BY <1>1, <1>3, <1>5, <1>6, <1>7, <1>8, RunMoves

LEMMA InsertStep == ASSUME IInv, MarkedAtOnce', NEW r \in Runs, NEW u \in Uuids, Insert(r, u)  PROVE IInv'
<1>1. /\ run[r].phase = "creating" /\ u \in run[r].todo /\ draft' = [draft EXCEPT ![u] = "plain"]
      /\ UNCHANGED <<live, trash, erasures, cursor, request, eraser, submitted, faults>>
  BY DEF Insert, Handling
<1>2. PICK x : x = [Handled(r, u) EXCEPT !.phase = "marking"]  OBVIOUS
<1>3. run' = [run EXCEPT ![r] = x]  BY <1>2 DEF Insert
<1>4. run[r] \in Run /\ \A v \in Submitted \ submitted : v \notin run[r].todo  BY <1>1, RunIs
<1>5. x \in Run /\ x.todo = run[r].todo \ {u}  BY <1>2, <1>4 DEF Handled, Run
<1>6. \A v \in Submitted \ submitted : v \notin x.todo  BY <1>4, <1>5
<1>7. draft' \in [Uuids -> Copies]  BY <1>1, DraftIs DEF Copies
<1>8. \A v \in Submitted \ submitted : draft'[v] = "none"
  <2>1. \A v \in Submitted \ submitted : v # u /\ v \in Uuids /\ draft[v] = "none"  BY <1>1, <1>4, Unused, DraftIs
  <2> QED  BY <1>1, <2>1, DraftIs
<1>9. cursor' \in Cursor  BY <1>1, TypeIs DEF IInv, Rest
<1> QED  BY <1>1, <1>3, <1>5, <1>6, <1>7, <1>8, <1>9, RunMoves

LEMMA MarkStep == ASSUME IInv, MarkedAtOnce', NEW r \in Runs, Mark(r)  PROVE IInv'
<1>1. run[r].phase = "marking" /\ UNCHANGED <<live, trash, erasures, cursor, request, eraser, submitted, faults>>
  BY DEF Mark
<1>2. run[r] \in Run /\ \A v \in Submitted \ submitted : v \notin run[r].todo  BY <1>1, RunIs
<1>3. cursor' \in Cursor  BY <1>1, TypeIs DEF IInv, Rest
<1>4. CASE draft[run[r].last] = "none"
  <2>1. run' = [run EXCEPT ![r] = Idle] /\ UNCHANGED draft  BY <1>4 DEF Mark
  <2>2. draft' \in [Uuids -> Copies] /\ \A v \in Submitted \ submitted : draft'[v] = "none"  BY <2>1, DraftIs
  <2> QED  BY <1>1, <1>3, <2>1, <2>2, RunMoves
<1>5. CASE draft[run[r].last] # "none"
  <2>1. PICK x : x = [run[r] EXCEPT !.phase = "creating", !.created = @ + 1]  OBVIOUS
  <2>2. run' = [run EXCEPT ![r] = x] /\ draft' = [draft EXCEPT ![run[r].last] = "mirror"]  BY <1>5, <2>1 DEF Mark
  <2>3. x \in Run /\ x.todo = run[r].todo
    <3>1. PICK n : n = run[r].created + 1  OBVIOUS
    <3>2. n \in Nat  BY <1>2, <3>1 DEF Run
    <3>3. x = [run[r] EXCEPT !.phase = "creating", !.created = n]  BY <2>1, <3>1
    <3> QED  BY <1>2, <3>2, <3>3 DEF Run
  <2>4. draft' \in [Uuids -> Copies]  BY <2>2, DraftIs DEF Copies
  <2>5. \A v \in Submitted \ submitted : draft'[v] = "none"
    <3>1. \A v \in Submitted \ submitted : v # run[r].last /\ v \in Uuids /\ draft[v] = "none"  BY <1>5, Unused, DraftIs
    <3> QED  BY <2>2, <3>1, DraftIs
  <2>6. \A v \in Submitted \ submitted : v \notin x.todo  BY <1>2, <2>3
  <2> QED  BY <1>1, <1>3, <2>2, <2>3, <2>4, <2>5, <2>6, RunMoves
<1> QED  BY <1>4, <1>5

LEMMA EndRunStep == ASSUME IInv, MarkedAtOnce', NEW r \in Runs, EndRun(r)  PROVE IInv'
<1>1. /\ run[r].phase = "creating" /\ run' = [run EXCEPT ![r] = Idle]
      /\ UNCHANGED <<live, draft, trash, erasures, request, eraser, submitted, faults>>
      /\ cursor' = IF run[r].last = run[r].from.at THEN cursor ELSE Saved(run[r])
  BY DEF EndRun
<1>2. run[r] \in Run  BY <1>1, RunIs
<1>3. Saved(run[r]) \in Cursor  BY <1>2 DEF Saved, Run, Cursor, Ages
<1>4. cursor' \in Cursor  BY <1>1, <1>3, TypeIs DEF IInv, Rest
<1>5. draft' \in [Uuids -> Copies] /\ \A v \in Submitted \ submitted : draft'[v] = "none"  BY <1>1, DraftIs
<1> QED  BY <1>1, <1>4, <1>5, RunMoves

-----------------------------------------------------------------------------
LEMMA RequestIs ==
    ASSUME IInv, NEW q \in Requests, request[q].phase # "idle"
    PROVE  /\ request[q] # Idle /\ request[q] \in Request /\ request[q].row \in Uuids
           /\ \A u \in Submitted \ submitted : u # request[q].row
<1>1. request[q] # Idle /\ request[q] \in Request  BY TypeIs DEF IInv, Actors, Idle
<1>2. \A u \in Submitted \ submitted : u # request[q].row
  BY <1>1 DEF IInv, NobodyKnows, Fresh, FreshRequest
<1> QED  BY <1>1, <1>2 DEF Request

LEMMA TablesAre == ASSUME IInv  PROVE Tables /\ \A u \in Submitted \ submitted : FreshPage(u)
  BY TypeIs, Unused DEF IInv

(* A request that reads, or ends, and changes no page.                      *)
LEMMA RequestReads ==
    ASSUME IInv, MarkedAtOnce', NEW q \in Requests, NEW x \in Request \cup {Idle},
           request' = [request EXCEPT ![q] = x],
           x # Idle => \A u \in Submitted \ submitted : u # x.row,
           UNCHANGED <<live, draft, trash, erasures, cursor, run, eraser, submitted, faults>>
    PROVE  IInv'
<1>1. Tables' /\ \A u \in Submitted \ submitted : FreshPage(u)'  BY TablesAre DEF Tables, FreshPage
<1>2. Keeps  BY DEF Keeps
<1> QED  BY <1>1, <1>2, RequestMoves

LEMMA StartPublishStep ==
    ASSUME IInv, MarkedAtOnce', NEW q \in Requests, NEW u \in Uuids,
           StartPublish(q, u) \/ StartUnpublish(q, u) \/ StartPull(q, u)
    PROVE  IInv'
<1>1. PICK phase \in {"publish", "withdraw", "pull"} :
        request' = [request EXCEPT ![q] = [phase |-> phase, row |-> u]]
  BY DEF StartPublish, StartUnpublish, StartPull, Starts
<1>2. PICK x : x = [phase |-> phase, row |-> u]  OBVIOUS
<1>3. x \in Request /\ x.row = u  BY <1>2 DEF Request
<1>4. draft[u] = "plain" \/ live[u] # "absent"  BY DEF StartPublish, StartUnpublish, StartPull
<1>5. \A v \in Submitted \ submitted : v # x.row  BY <1>3, <1>4, Unused DEF FreshPage
<1>6. UNCHANGED <<live, draft, trash, erasures, cursor, run, eraser, submitted, faults>>
  BY DEF StartPublish, StartUnpublish, StartPull
<1> QED  BY <1>1, <1>2, <1>3, <1>5, <1>6, RequestReads

LEMMA TrashStep == ASSUME IInv, MarkedAtOnce', NEW q \in Requests, NEW u \in Uuids, Trash(q, u)  PROVE IInv'
<1>1. /\ draft[u] # "none" /\ trash' = [trash EXCEPT ![u] = Merged(draft[u], trash[u])]
      /\ draft' = [draft EXCEPT ![u] = "none"]
      /\ UNCHANGED <<live, erasures, cursor, run, eraser, submitted, faults>>
  BY DEF Trash
<1>2. PICK x : x = IF draft[u] = "mirror" THEN Idle ELSE [phase |-> "withdraw", row |-> u]  OBVIOUS
<1>3. request' = [request EXCEPT ![q] = x]  BY <1>2 DEF Trash, Starts
<1>4. \A v \in Submitted \ submitted : v # u /\ v \in Uuids  BY <1>1, Unused DEF FreshPage
<1>5. x \in Request \cup {Idle} /\ (x # Idle => x.row = u)  BY <1>2 DEF Request
<1>6. x # Idle => \A v \in Submitted \ submitted : v # x.row  BY <1>4, <1>5
<1>7. Tables'  BY <1>1, TablesAre DEF Tables, Copies, Merged
<1>8. \A v \in Submitted \ submitted : FreshPage(v)'  BY <1>1, <1>4, TablesAre DEF FreshPage, Tables
<1>9. Keeps  BY <1>1 DEF Keeps
<1> QED  BY <1>1, <1>3, <1>5, <1>6, <1>7, <1>8, <1>9, RequestMoves

LEMMA RestoreStep == ASSUME IInv, MarkedAtOnce', NEW q \in Requests, NEW u \in Uuids, Restore(q, u)  PROVE IInv'
<1>1. /\ trash[u] # "none" /\ draft' = [draft EXCEPT ![u] = Merged(trash[u], draft[u])]
      /\ trash' = [trash EXCEPT ![u] = "none"] /\ request' = [request EXCEPT ![q] = Idle]
      /\ UNCHANGED <<live, erasures, cursor, run, eraser, submitted, faults>>
  BY DEF Restore, Starts
<1>2. \A v \in Submitted \ submitted : v # u /\ v \in Uuids  BY <1>1, Unused DEF FreshPage
<1>3. Tables'  BY <1>1, TablesAre DEF Tables, Copies, Merged
<1>4. \A v \in Submitted \ submitted : FreshPage(v)'  BY <1>1, <1>2, TablesAre DEF FreshPage, Tables
<1>5. Keeps  BY <1>1 DEF Keeps
<1> QED  BY <1>1, <1>3, <1>4, <1>5, RequestMoves

LEMMA PurgeStep == ASSUME IInv, MarkedAtOnce', NEW q \in Requests, NEW u \in Uuids, Purge(q, u)  PROVE IInv'
<1>1. /\ trash[u] # "none" /\ erasures' = [erasures EXCEPT ![u] = Owed(u)]
      /\ trash' = [trash EXCEPT ![u] = "none"] /\ request' = [request EXCEPT ![q] = Idle]
      /\ UNCHANGED <<live, draft, cursor, run, eraser, submitted, faults>>
  BY DEF Purge, Starts
<1>2. \A v \in Submitted \ submitted : v # u /\ v \in Uuids  BY <1>1, Unused DEF FreshPage
<1>3. Owed(u) \in {"pending", erasures[u]}  BY DEF Owed
<1>4. Tables'  BY <1>1, <1>3, TablesAre DEF Tables, Copies
<1>5. \A v \in Submitted \ submitted : FreshPage(v)'  BY <1>1, <1>2, TablesAre DEF FreshPage, Tables
<1>6. Keeps
  <2>1. \A v \in Uuids : erasures'[v] = "erased" => erasures[v] = "erased"  BY <1>1, <1>3, TablesAre DEF Tables
  <2> QED  BY <1>1, <2>1 DEF Keeps, Uuids
<1> QED  BY <1>1, <1>4, <1>5, <1>6, RequestMoves

LEMMA InsertPulledStep == ASSUME IInv, MarkedAtOnce', NEW q \in Requests, InsertPulled(q)  PROVE IInv'
<1>1. request[q].phase = "pull" /\ UNCHANGED <<live, trash, erasures, cursor, run, eraser, submitted, faults>>
  BY DEF InsertPulled
<1>2. request[q] \in Request /\ request[q].row \in Uuids /\ \A v \in Submitted \ submitted : v # request[q].row
  BY <1>1, RequestIs
<1>3. CASE draft[request[q].row] # "none"
  <2>1. request' = [request EXCEPT ![q] = Idle] /\ UNCHANGED draft  BY <1>3 DEF InsertPulled
  <2> QED  BY <1>1, <2>1, RequestReads
<1>4. CASE draft[request[q].row] = "none"
  <2>1. PICK x : x = [request[q] EXCEPT !.phase = "mark"]  OBVIOUS
  <2>2. request' = [request EXCEPT ![q] = x] /\ draft' = [draft EXCEPT ![request[q].row] = "plain"]
    BY <1>4, <2>1 DEF InsertPulled
  <2>3. x \in Request /\ x.row = request[q].row  BY <1>2, <2>1 DEF Request
  <2>4. Tables'  BY <1>1, <2>2, TablesAre DEF Tables, Copies
  <2>5. \A v \in Submitted \ submitted : FreshPage(v)'  BY <1>1, <1>2, <2>2, TablesAre, Unused DEF FreshPage, Tables
  <2>6. Keeps  BY <1>1 DEF Keeps
  <2>7. \A v \in Submitted \ submitted : v # x.row  BY <1>2, <2>3
  <2> QED  BY <1>1, <2>2, <2>3, <2>4, <2>5, <2>6, <2>7, RequestMoves
<1> QED  BY <1>3, <1>4

LEMMA MarkPulledStep == ASSUME IInv, MarkedAtOnce', NEW q \in Requests, MarkPulled(q)  PROVE IInv'
<1>1. /\ request[q].phase = "mark" /\ request' = [request EXCEPT ![q] = Idle]
      /\ draft' = [draft EXCEPT ![request[q].row] = IF draft[request[q].row] = "none"
                                                    THEN draft[request[q].row] ELSE "mirror"]
      /\ UNCHANGED <<live, trash, erasures, cursor, run, eraser, submitted, faults>>
  BY DEF MarkPulled, Ends
<1>2. request[q].row \in Uuids /\ \A v \in Submitted \ submitted : v # request[q].row
  BY <1>1, RequestIs
<1>3. Tables'  BY <1>1, TablesAre DEF Tables, Copies
<1>4. \A v \in Submitted \ submitted : FreshPage(v)'  BY <1>1, <1>2, TablesAre, Unused DEF FreshPage, Tables
<1>5. Keeps  BY <1>1 DEF Keeps
<1> QED  BY <1>1, <1>3, <1>4, <1>5, RequestMoves

(* Nothing a visitor wrote is published over: MarkedAtOnce.                 *)
LEMMA LandStep == ASSUME IInv, MarkedAtOnce', NEW q \in Requests, Land(q)  PROVE IInv'
<1>1. /\ request[q].phase = "publish" /\ request' = [request EXCEPT ![q] = Idle]
      /\ live' = [live EXCEPT ![request[q].row] = "cms"]
      /\ UNCHANGED <<draft, trash, erasures, cursor, run, eraser, submitted, faults>>
  BY DEF Land, Ends
<1>2. request[q].row \in Uuids /\ \A v \in Submitted : v # request[q].row
  BY <1>1, RequestIs DEF IInv, MarkedAtOnce
<1>3. Tables'  BY <1>1, TablesAre DEF Tables
<1>4. \A v \in Submitted \ submitted : FreshPage(v)'  BY <1>1, <1>2, TablesAre, Unused DEF FreshPage, Tables
<1>5. Keeps
  <2>1. \A v \in Submitted : v \in Uuids  BY DEF Uuids
  <2> QED  BY <1>1, <1>2, <2>1, TablesAre DEF Keeps, Tables
<1> QED  BY <1>1, <1>3, <1>4, <1>5, RequestMoves

LEMMA WithdrawStep == ASSUME IInv, MarkedAtOnce', NEW q \in Requests, Withdraw(q)  PROVE IInv'
<1>1. /\ request[q].phase = "withdraw" /\ request' = [request EXCEPT ![q] = Idle]
      /\ live' = [live EXCEPT ![request[q].row] = "absent"]
      /\ UNCHANGED <<draft, trash, erasures, cursor, run, eraser, submitted, faults>>
  BY DEF Withdraw, Ends
<1>2. \A v \in Submitted : v \in Uuids  BY DEF Uuids
<1>3. Tables'  BY <1>1, TablesAre DEF Tables
<1>4. \A v \in Submitted \ submitted : FreshPage(v)'  BY <1>1, <1>2, TablesAre DEF FreshPage, Tables
<1>5. Keeps  BY <1>1, <1>2, TablesAre DEF Keeps, Tables
<1> QED  BY <1>1, <1>3, <1>4, <1>5, RequestMoves

-----------------------------------------------------------------------------
LEMMA PassIs ==
    ASSUME IInv, NEW e \in Erasers, eraser[e].phase # "idle"
    PROVE  /\ eraser[e] \in Pass /\ eraser[e].rows \in SUBSET Uuids
           /\ \A u \in Submitted \ submitted : u \notin eraser[e].rows
<1>1. eraser[e] # Idle /\ eraser[e] \in Pass  BY TypeIs DEF IInv, Actors, Idle
<1>2. \A u \in Submitted \ submitted : u \notin eraser[e].rows  BY <1>1 DEF IInv, NobodyKnows, Fresh, FreshPass
<1> QED  BY <1>1, <1>2 DEF Pass

LEMMA StartErasingStep == ASSUME IInv, MarkedAtOnce', NEW e \in Erasers, StartErasing(e)  PROVE IInv'
<1>1. UNCHANGED <<live, draft, trash, erasures, cursor, run, request, submitted, faults>>  BY DEF StartErasing
<1>2. PICK x : x = [phase |-> "delete", rows |-> Pending]  OBVIOUS
<1>3. eraser' = [eraser EXCEPT ![e] = x]  BY <1>2 DEF StartErasing
<1>4. x \in Pass /\ x.rows = Pending /\ x.phase = "delete"  BY <1>2 DEF Pass, Pending
<1>5. \A u \in Submitted \ submitted : u \notin x.rows  BY <1>4, Unused DEF Pending, FreshPage
<1>6. Tables' /\ \A u \in Submitted \ submitted : FreshPage(u)'  BY <1>1, TablesAre DEF Tables, FreshPage
<1>7. Keeps  BY <1>1 DEF Keeps
<1> QED  BY <1>1, <1>3, <1>4, <1>5, <1>6, <1>7, EraserMoves

LEMMA EraseStep == ASSUME IInv, MarkedAtOnce', NEW e \in Erasers, Erase(e)  PROVE IInv'
<1>1. /\ eraser[e].phase = "delete"
      /\ live' = [u \in Uuids |-> IF u \in eraser[e].rows THEN "absent" ELSE live[u]]
      /\ UNCHANGED <<draft, trash, erasures, cursor, run, request, submitted, faults>>
  BY DEF Erase
<1>2. PICK x : x = [eraser[e] EXCEPT !.phase = "confirm"]  OBVIOUS
<1>3. eraser' = [eraser EXCEPT ![e] = x]  BY <1>2 DEF Erase
<1>4. eraser[e] \in Pass /\ \A u \in Submitted \ submitted : u \notin eraser[e].rows  BY <1>1, PassIs
<1>5. x \in Pass /\ x.rows = eraser[e].rows  BY <1>2, <1>4 DEF Pass
<1>6. \A u \in Submitted : u \in Uuids  BY DEF Uuids
<1>7. \A u \in x.rows \cap Submitted : live'[u] = "absent"  BY <1>1, <1>5, <1>6
<1>8. Tables'  BY <1>1, TablesAre DEF Tables
<1>9. \A u \in Submitted \ submitted : FreshPage(u)'  BY <1>1, <1>6, TablesAre DEF FreshPage
<1>10. Keeps  BY <1>1, <1>6 DEF Keeps
<1>11. \A u \in Submitted \ submitted : u \notin x.rows  BY <1>4, <1>5
<1> QED  BY <1>1, <1>3, <1>5, <1>7, <1>8, <1>9, <1>10, <1>11, EraserMoves

LEMMA ConfirmStep == ASSUME IInv, MarkedAtOnce', NEW e \in Erasers, Confirm(e)  PROVE IInv'
<1>1. /\ eraser[e].phase = "confirm" /\ eraser' = [eraser EXCEPT ![e] = Idle]
      /\ erasures' = [u \in Uuids |-> IF u \in Confirmed(e) THEN "erased" ELSE erasures[u]]
      /\ UNCHANGED <<live, draft, trash, cursor, run, request, submitted, faults>>
  BY DEF Confirm
<1>2. \A u \in Submitted : u \in Uuids  BY DEF Uuids
<1>3. \A u \in Confirmed(e) \cap Submitted : live[u] = "absent" /\ erasures[u] = "pending"
  BY <1>1 DEF Confirmed, Pending, IInv, Deleted
<1>4. Tables'  BY <1>1, TablesAre DEF Tables
<1>5. \A u \in Submitted \ submitted : FreshPage(u)'  BY <1>1, <1>2, <1>3, TablesAre DEF FreshPage
<1>6. Keeps  BY <1>1, <1>2, <1>3 DEF Keeps
<1>7. Idle.phase # "confirm"  BY Idles
<1> QED  BY <1>1, <1>4, <1>5, <1>6, <1>7, EraserMoves

-----------------------------------------------------------------------------
LEMMA SubmitStep == ASSUME IInv, MarkedAtOnce', NEW s \in Submitted, Submit(s)  PROVE IInv'
<1>1. /\ s \in Submitted \ submitted /\ submitted' = submitted \cup {s}
      /\ live' = [live EXCEPT ![s] = "visitor"]
      /\ UNCHANGED <<draft, trash, erasures, cursor, run, request, eraser, faults>>
  BY DEF Submit, system
<1>2. TypeOK'
  <2>1. Tables'  BY <1>1, TablesAre DEF Tables
  <2>2. Rest' /\ Actors'  BY <1>1, TypeIs DEF IInv, Rest, Actors
  <2> QED  BY <2>1, <2>2, TypeIsNext
<1>3. \A u \in Submitted \ {s} : live'[u] = live[u]  BY <1>1, TablesAre DEF Tables, Uuids
<1>4. Fresh(s)  BY <1>1 DEF IInv, NobodyKnows
<1>5. NobodyKnows'
  <2>1. ASSUME NEW u \in Submitted \ submitted, u # s  PROVE Fresh(u)'
    <3>1. Fresh(u)  BY DEF IInv, NobodyKnows
    <3> QED  BY <1>1, <1>3, <2>1, <3>1 DEF Fresh, FreshPage, FreshRun, FreshRequest, FreshPass
  <2> QED  BY <1>1, <2>1 DEF NobodyKnows
<1>6. Deleted'
  <2>1. \A e \in Erasers : eraser[e].phase = "confirm" => s \notin eraser[e].rows  BY <1>1, PassIs
  <2> QED  BY <1>1, <1>3, <2>1 DEF IInv, Deleted
<1>7. ConfirmedMeansGone'  BY <1>1, <1>3, <1>4 DEF IInv, ConfirmedMeansGone, Fresh, FreshPage
<1> QED  BY <1>2, <1>5, <1>6, <1>7 DEF IInv

(* A day passes, or somebody dies: no table changes, what goes on knows no  *)
(* more rows than before.                                                   *)
LEMMA OnlyActors ==
    ASSUME IInv, MarkedAtOnce', UNCHANGED <<live, draft, trash, erasures, submitted>>, Rest', Actors',
           \A r \in Runs : run'[r] # Idle => run[r] # Idle /\ run'[r].todo = run[r].todo,
           \A q \in Requests : request'[q] # Idle => request'[q] = request[q],
           \A e \in Erasers : eraser'[e] # Idle => eraser'[e] = eraser[e]
    PROVE  IInv'
<1>1. TypeOK'
  <2>1. Tables'  BY TablesAre DEF Tables
  <2> QED  BY <2>1, TypeIsNext
<1>2. ASSUME NEW u \in Submitted \ submitted  PROVE Fresh(u)'
  <2>1. Fresh(u)  BY DEF IInv, NobodyKnows
  <2> QED  BY <2>1 DEF Fresh, FreshPage, FreshRun, FreshRequest, FreshPass
<1>3. NobodyKnows'  BY <1>2 DEF NobodyKnows
<1>4. Deleted'
  <2>1. \A e \in Erasers : eraser'[e].phase = "confirm" => eraser'[e] = eraser[e]  BY Idles
  <2> QED  BY <2>1 DEF IInv, Deleted
<1> QED  BY <1>1, <1>3, <1>4 DEF IInv, ConfirmedMeansGone

LEMMA DayStep == ASSUME IInv, MarkedAtOnce', DayPasses  PROVE IInv'
<1> DEFINE aged(c) == [c EXCEPT !.passed = IF @ = "today" THEN "overdue" ELSE @]
<1>1. /\ cursor' = aged(cursor)
      /\ run' = [r \in Runs |-> IF run[r].phase = "idle" THEN Idle ELSE [run[r] EXCEPT !.from = aged(@)]]
      /\ UNCHANGED <<live, draft, trash, erasures, request, eraser, submitted, faults>>
  BY DEF DayPasses
<1>2. \A c \in Cursor : aged(c) \in Cursor  BY DEF Cursor, Ages
<1> HIDE DEF aged
<1>3. Rest'  BY <1>1, <1>2, TypeIs DEF IInv, Rest
<1>4. ASSUME NEW r \in Runs
      PROVE  /\ run'[r] \in Run \cup {Idle}
             /\ run'[r] # Idle => run[r] # Idle /\ run'[r].todo = run[r].todo
  <2>1. CASE run[r].phase = "idle"  BY <1>1, <2>1
  <2>2. CASE run[r].phase # "idle"
    <3>1. run[r] \in Run /\ run[r] # Idle  BY <2>2, RunIs
    <3>2. aged(run[r].from) \in Cursor  BY <1>2, <3>1 DEF Run
    <3>3. run'[r] = [run[r] EXCEPT !.from = aged(run[r].from)]  BY <1>1, <2>2
    <3> QED  BY <3>1, <3>2, <3>3 DEF Run
  <2> QED  BY <2>1, <2>2
<1>5. Actors'  BY <1>1, <1>4, TypeIs DEF IInv, Actors
<1> QED  BY <1>1, <1>3, <1>4, <1>5, OnlyActors

LEMMA DiesStep == ASSUME IInv, MarkedAtOnce', Dies  PROVE IInv'
<1>1. Rest'
  <2>1. faults \in 0..MaxFaults /\ faults < MaxFaults /\ faults' = faults + 1  BY TypeIs DEF IInv, Rest, Dies
  <2>2. faults' \in 0..MaxFaults  BY <2>1, MirrorsAssumption
  <2> QED  BY <2>2, TypeIs DEF IInv, Rest, Dies
<1>2. Actors  BY TypeIs DEF IInv
<1>3. Actors'  BY <1>2 DEF Actors, Dies
<1>4. \A r \in Runs : run'[r] \in {run[r], Idle}  BY <1>2 DEF Actors, Dies
<1>5. \A q \in Requests : request'[q] \in {request[q], Idle}  BY <1>2 DEF Actors, Dies
<1>6. \A e \in Erasers : eraser'[e] \in {eraser[e], Idle}  BY <1>2 DEF Actors, Dies
<1>7. UNCHANGED <<live, draft, trash, erasures, submitted>>  BY DEF Dies
<1> QED  BY <1>1, <1>3, <1>4, <1>5, <1>6, <1>7, OnlyActors

-----------------------------------------------------------------------------
LEMMA Initially == Init => IInv
<1> SUFFICES ASSUME Init  PROVE IInv  OBVIOUS
<1>1. TypeOK
  <2>1. Tables  BY DEF Init, Tables, Copies, Uuids
  <2>2. Rest /\ Actors  BY MirrorsAssumption DEF Init, Rest, Actors, Cursor, Ages
  <2> QED  BY <2>1, <2>2, TypeIs
<1>2. \A u \in Submitted : /\ u \in Uuids /\ u \notin Authored
                           /\ live[u] = "absent" /\ draft[u] = "none" /\ trash[u] = "none" /\ erasures[u] = "none"
  BY MirrorsAssumption DEF Init, Uuids
<1>3. /\ \A r \in Runs : run[r] = Idle
      /\ \A q \in Requests : request[q] = Idle
      /\ \A e \in Erasers : eraser[e] = Idle
  BY DEF Init
<1>4. MarkedAtOnce  BY <1>2, <1>3, Idles DEF MarkedAtOnce
<1>5. NobodyKnows  BY <1>2, <1>3 DEF NobodyKnows, Fresh, FreshPage, FreshRun, FreshRequest, FreshPass
<1>6. Deleted  BY <1>3, Idles DEF Deleted
<1>7. ConfirmedMeansGone  BY <1>2 DEF ConfirmedMeansGone
<1> QED  BY <1>1, <1>4, <1>5, <1>6, <1>7 DEF IInv

LEMMA EachStep == IInv /\ [Step]_vars => IInv'
<1> SUFFICES ASSUME IInv, [Step]_vars  PROVE IInv'  OBVIOUS
<1>1. CASE UNCHANGED vars
  <2>1. MarkedAtOnce'  BY <1>1 DEF vars, system, IInv, MarkedAtOnce, Unmarked
  <2>2. Rest' /\ Actors'  BY <1>1, TypeIs DEF vars, system, IInv, Rest, Actors
  <2> QED  BY <1>1, <2>1, <2>2, OnlyActors DEF vars, system
<1>2. CASE Step
  <2>1. MarkedAtOnce' /\ Next  BY <1>2 DEF Step
  <2>2. ASSUME NEW r \in Runs, RunStep(r)  PROVE IInv'
    BY <2>1, <2>2, BeginRunStep, ScanNothingStep, ScanStep, PreCheckStep, SkipStep, InsertStep, MarkStep, EndRunStep
       DEF RunStep
  <2>3. ASSUME NEW q \in Requests, RequestStep(q)  PROVE IInv'
    BY <2>1, <2>3, StartPublishStep, TrashStep, RestoreStep, PurgeStep, InsertPulledStep, MarkPulledStep, LandStep,
       WithdrawStep DEF RequestStep
  <2>4. ASSUME NEW e \in Erasers, EraserStep(e)  PROVE IInv'
    BY <2>1, <2>4, StartErasingStep, EraseStep, ConfirmStep DEF EraserStep
  <2> QED  BY <2>1, <2>2, <2>3, <2>4, SubmitStep, DayStep, DiesStep DEF Next
<1> QED  BY <1>1, <1>2

LEMMA AlwaysIInv == Apart => []IInv
<1>1. Apart <=> Init /\ [][Step]_vars  BY DEF Apart, Step
<1> QED  BY <1>1, Initially, EachStep, PTL

(* A confirmed erasure means that the source row is gone, whoever published,*)
(* trashed, purged or confirmed something else meanwhile, and whatever died.*)
THEOREM MirrorsHold == Apart => []MirrorsSound
<1>1. IInv => MirrorsSound  BY DEF IInv, MirrorsSound
<1> QED  BY <1>1, AlwaysIInv, PTL

-----------------------------------------------------------------------------
Kept == /\ draft \in [Uuids -> Copies] /\ trash \in [Uuids -> Copies]
        /\ erasures \in [Uuids -> {"none", "pending", "erased"}]
Held == /\ cursor \in Cursor /\ run \in [Runs -> Run \cup {Idle}]
        /\ request \in [Requests -> Request \cup {Idle}] /\ Kept
Anew == Held /\ TakenUpAnew

LEMMA RunsHeld == ASSUME Held, NEW r \in Runs, RunStep(r)  PROVE cursor' \in Cursor /\ run' \in [Runs -> Run \cup {Idle}]
<1>1. run[r].phase # "idle" => run[r] \in Run  BY Idles DEF Held
<1>2. CASE BeginRun(r)  BY <1>2 DEF BeginRun, Held, Run, Cursor
<1>3. CASE ScanNothing(r)
  <2>1. run[r] \in Run  BY <1>1, <1>3 DEF ScanNothing
  <2>2. AtEnd(run[r].from) \in Cursor  BY <2>1 DEF Run, AtEnd, Cursor, Ages
  <2>3. Restarted \in Cursor  BY DEF Restarted, Cursor, Ages
  <2>4. run[r].from.passed \in {"never", "today", "overdue"}  BY <2>1 DEF Run, Cursor, Ages
  <2>5. cursor' \in {cursor, AtEnd(run[r].from), Restarted}  BY <1>3, <2>4 DEF ScanNothing
  <2> QED  BY <1>3, <2>2, <2>3, <2>5 DEF ScanNothing, Held
<1>4. CASE Scan(r)
  <2>1. run[r] \in Run  BY <1>1, <1>4 DEF Scan
  <2>2. PICK rows : rows = Past(run[r].from.at)  OBVIOUS
  <2>3. rows \in SUBSET Uuids  BY <2>2 DEF Past
  <2>4. PICK full \in BOOLEAN : full = (Cardinality(rows) = ScanLimit)  OBVIOUS
  <2>5. run' = [run EXCEPT ![r].phase = "scanned", ![r].todo = rows, ![r].full = full] /\ cursor' = cursor
    BY <1>4, <2>2, <2>4 DEF Scan
  <2> QED  BY <2>1, <2>3, <2>5 DEF Held, Run
<1>5. CASE PreCheck(r)
  <2>1. run[r] \in Run  BY <1>1, <1>5 DEF PreCheck
  <2>2. PICK known \in SUBSET Uuids : known = {u \in run[r].todo : Known(u)}  BY <2>1 DEF Run
  <2>3. run' = [run EXCEPT ![r].phase = "creating", ![r].known = known] /\ cursor' = cursor
    BY <1>5, <2>2 DEF PreCheck
  <2> QED  BY <2>1, <2>3 DEF Held, Run
<1>6. CASE Mark(r)
  <2>1. run[r] \in Run  BY <1>1, <1>6 DEF Mark
  <2>2. run[r].created + 1 \in Nat  BY <2>1 DEF Run
  <2>3. PICK n \in Nat : n = run[r].created + 1  BY <2>2
  <2>4. run' \in {[run EXCEPT ![r].phase = "creating", ![r].created = n], [run EXCEPT ![r] = Idle]} /\ cursor' = cursor
    BY <1>6, <2>3 DEF Mark
  <2> QED  BY <2>1, <2>4 DEF Held, Run
<1>7. CASE EndRun(r)
  <2>1. run[r] \in Run  BY <1>1, <1>7 DEF EndRun
  <2>2. Saved(run[r]) \in Cursor  BY <2>1 DEF Saved, Run, Cursor, Ages
  <2> QED  BY <1>7, <2>2 DEF EndRun, Held
<1>8. ASSUME NEW u \in Uuids, Skip(r, u) \/ Insert(r, u)
      PROVE  cursor' \in Cursor /\ run' \in [Runs -> Run \cup {Idle}]
  <2>1. run[r] \in Run  BY <1>1, <1>8 DEF Skip, Insert, Handling
  <2>2. PICK x : x = Handled(r, u)  OBVIOUS
  <2>3. x \in Run  BY <2>1, <2>2 DEF Handled, Run
  <2>4. [x EXCEPT !.phase = "marking"] \in Run  BY <2>3 DEF Run
  <2>5. run' \in {[run EXCEPT ![r] = x], [run EXCEPT ![r] = [x EXCEPT !.phase = "marking"]]} /\ cursor' = cursor
    BY <1>8, <2>2 DEF Skip, Insert
  <2> QED  BY <2>3, <2>4, <2>5 DEF Held
<1> QED  BY <1>2, <1>3, <1>4, <1>5, <1>6, <1>7, <1>8 DEF RunStep

(* Only an insert, of a run or of a pull, puts a page in a table that was   *)
(* in none.                                                                 *)
Inserted(u) == \/ \E s \in Runs : Insert(s, u)
               \/ \E q \in Requests : InsertPulled(q) /\ request[q].row = u
Same == UNCHANGED <<draft, trash, erasures>>
StillNowhere == \A u \in Uuids : Nowhere(u) => Nowhere(u)' \/ Inserted(u)

LEMMA SameKept == ASSUME Kept, Same  PROVE Kept' /\ StillNowhere
  BY DEF Kept, Same, StillNowhere, Nowhere

LEMMA RunsKeep == ASSUME Kept, NEW r \in Runs, RunStep(r)  PROVE Kept' /\ StillNowhere
<1>1. CASE BeginRun(r) \/ ScanNothing(r) \/ Scan(r) \/ PreCheck(r) \/ EndRun(r) \/ \E u \in Uuids : Skip(r, u)
  BY <1>1, SameKept DEF BeginRun, ScanNothing, Scan, PreCheck, EndRun, Skip, Same
<1>2. CASE Mark(r)  BY <1>2 DEF Mark, Kept, Copies, StillNowhere, Nowhere
<1>3. ASSUME NEW u \in Uuids, Insert(r, u)  PROVE Kept' /\ StillNowhere
  <2>1. draft' = [draft EXCEPT ![u] = "plain"] /\ UNCHANGED <<trash, erasures>>  BY <1>3 DEF Insert
  <2>2. Inserted(u)  BY <1>3 DEF Inserted
  <2> QED  BY <2>1, <2>2 DEF Kept, Copies, StillNowhere, Nowhere
<1> QED  BY <1>1, <1>2, <1>3 DEF RunStep

LEMMA RequestsKeep ==
    ASSUME Held, NEW q \in Requests, RequestStep(q)
    PROVE  Kept' /\ StillNowhere /\ request' \in [Requests -> Request \cup {Idle}]
<1> USE DEF Held, Kept
<1>1. ASSUME NEW v \in Uuids, StartPublish(q, v) \/ StartUnpublish(q, v) \/ StartPull(q, v)
      PROVE  Same /\ request' \in [Requests -> Request \cup {Idle}]
  BY <1>1 DEF StartPublish, StartUnpublish, StartPull, Starts, Same, Request
<1>2. ASSUME NEW v \in Uuids, Trash(q, v)  PROVE Kept' /\ StillNowhere /\ request' \in [Requests -> Request \cup {Idle}]
  BY <1>2 DEF Trash, Starts, Merged, Copies, StillNowhere, Nowhere, Request
<1>3. ASSUME NEW v \in Uuids, Restore(q, v)  PROVE Kept' /\ StillNowhere /\ request' \in [Requests -> Request \cup {Idle}]
  BY <1>3 DEF Restore, Starts, Merged, Copies, StillNowhere, Nowhere
<1>4. ASSUME NEW v \in Uuids, Purge(q, v)  PROVE Kept' /\ StillNowhere /\ request' \in [Requests -> Request \cup {Idle}]
  BY <1>4 DEF Purge, Starts, Owed, Copies, StillNowhere, Nowhere
<1>5. CASE InsertPulled(q)
  <2>1. request[q] \in Request /\ request[q].row \in Uuids  BY <1>5, Idles DEF InsertPulled, Request
  <2>2. CASE draft[request[q].row] # "none"  BY <1>5, <2>2, SameKept DEF InsertPulled, Same
  <2>3. CASE draft[request[q].row] = "none"
    <3>1. request' = [request EXCEPT ![q].phase = "mark"] /\ draft' = [draft EXCEPT ![request[q].row] = "plain"]
      BY <1>5, <2>3 DEF InsertPulled
    <3>2. Inserted(request[q].row) /\ UNCHANGED <<trash, erasures>>  BY <1>5 DEF Inserted, InsertPulled
    <3>3. StillNowhere /\ Kept'  BY <2>1, <3>1, <3>2 DEF StillNowhere, Nowhere, Copies
    <3> QED  BY <2>1, <3>1, <3>3 DEF Request
  <2> QED  BY <2>2, <2>3
<1>6. CASE MarkPulled(q)  BY <1>6 DEF MarkPulled, Ends, Copies, StillNowhere, Nowhere
<1>7. CASE Land(q) \/ Withdraw(q)  BY <1>7, SameKept DEF Land, Withdraw, Ends, Same
<1> QED  BY <1>1, <1>2, <1>3, <1>4, <1>5, <1>6, <1>7, SameKept DEF RequestStep

LEMMA StepKeeps == ASSUME Held, Next  PROVE Held' /\ StillNowhere
<1>1. ASSUME NEW r \in Runs, RunStep(r)  PROVE Held' /\ StillNowhere
  <2>1. UNCHANGED request
    BY <1>1 DEF RunStep, BeginRun, ScanNothing, Scan, PreCheck, Mark, EndRun, Skip, Insert
  <2> QED  BY <1>1, <2>1, RunsHeld, RunsKeep DEF Held
<1>2. ASSUME NEW q \in Requests, RequestStep(q)  PROVE Held' /\ StillNowhere
  <2>1. UNCHANGED <<cursor, run>>
    BY <1>2 DEF RequestStep, StartPublish, StartUnpublish, StartPull, Trash, Restore, Purge, InsertPulled, MarkPulled,
                Land, Withdraw
  <2> QED  BY <1>2, <2>1, RequestsKeep DEF Held
<1>3. ASSUME NEW e \in Erasers, EraserStep(e)  PROVE Held' /\ StillNowhere
  <2>1. UNCHANGED <<cursor, run, request, draft, trash>>  BY <1>3 DEF EraserStep, StartErasing, Erase, Confirm
  <2>2. CASE UNCHANGED erasures  BY <2>1, <2>2, SameKept DEF Held, Same
  <2>3. CASE Confirm(e)
    BY <2>1, <2>3 DEF Confirm, Confirmed, Pending, Held, Kept, StillNowhere, Nowhere
  <2> QED  BY <1>3, <2>2, <2>3 DEF EraserStep, StartErasing, Erase
<1>4. CASE DayPasses
  <2> DEFINE aged(c) == [c EXCEPT !.passed = IF @ = "today" THEN "overdue" ELSE @]
  <2>1. /\ cursor' = aged(cursor)
        /\ run' = [r \in Runs |-> IF run[r].phase = "idle" THEN Idle ELSE [run[r] EXCEPT !.from = aged(@)]]
        /\ UNCHANGED <<draft, trash, erasures, request>>
    BY <1>4 DEF DayPasses
  <2>2. \A c \in Cursor : aged(c) \in Cursor  BY DEF Cursor, Ages
  <2> HIDE DEF aged
  <2>3. \A r \in Runs : run[r].phase # "idle" => run[r] \in Run /\ aged(run[r].from) \in Cursor
    BY <2>2, Idles DEF Held, Run
  <2>4. run' \in [Runs -> Run \cup {Idle}]  BY <2>1, <2>3 DEF Run
  <2> QED  BY <2>1, <2>2, <2>4, SameKept DEF Held, Same
<1>5. CASE Dies
  <2>1. UNCHANGED <<draft, trash, erasures, cursor>>  BY <1>5 DEF Dies
  <2>2. run' \in [Runs -> Run \cup {Idle}] /\ request' \in [Requests -> Request \cup {Idle}]  BY <1>5 DEF Dies, Held
  <2> QED  BY <2>1, <2>2, SameKept DEF Held, Same
<1>6. ASSUME NEW u \in Submitted, Submit(u)  PROVE Held' /\ StillNowhere
  BY <1>6, SameKept DEF Submit, system, Held, Same
<1> QED  BY <1>1, <1>2, <1>3, <1>4, <1>5, <1>6 DEF Next

(* What a run that has looked has yet to take up anew it had before, unless *)
(* it looked just now.                                                      *)
Before(r, u) == Looked(r) /\ u \in DueAnew(r) /\ ~Insert(r, u)
LEMMA OwnStep ==
    ASSUME Held, NEW r \in Runs, RunStep(r), Looked(r)', NEW u \in DueAnew(r)'
    PROVE  Before(r, u) \/ Nowhere(u)'
<1>1. run[r].phase # "idle" => run[r] \in Run  BY Idles DEF Held
<1>2. CASE BeginRun(r) \/ ScanNothing(r) \/ Scan(r) \/ EndRun(r)
  <2>1. run[r].phase = "idle" \/ run[r] \in Run  BY <1>1
  <2>2. run'[r].phase \in {"begun", "idle", "scanned"}
    BY <1>2, <2>1, Idles DEF BeginRun, ScanNothing, Scan, EndRun, Run, Held
  <2> QED  BY <2>2 DEF Looked
<1>3. CASE PreCheck(r)
  <2>1. run[r] \in Run  BY <1>1, <1>3 DEF PreCheck
  <2>2. run'[r].todo = run[r].todo /\ run'[r].known = {v \in run[r].todo : Known(v)}
    BY <1>3, <2>1 DEF PreCheck, Held, Run
  <2>3. ~Known(u)  BY <2>2 DEF DueAnew
  <2> QED  BY <1>3, <2>3 DEF PreCheck, Known, Nowhere
<1>4. ASSUME NEW v \in Uuids, Skip(r, v) \/ Insert(r, v)  PROVE Before(r, u)
  <2>1. run[r].phase = "creating" /\ run[r] \in Run  BY <1>1, <1>4 DEF Skip, Insert, Handling
  <2>2. PICK x : x = Handled(r, v)  OBVIOUS
  <2>3. x \in Run /\ x.todo = run[r].todo \ {v} /\ x.known = run[r].known  BY <2>1, <2>2 DEF Handled, Run
  <2>4. run'[r] = x \/ run'[r] = [x EXCEPT !.phase = "marking"]  BY <1>4, <2>2 DEF Skip, Insert, Held
  <2>5. run'[r].todo = run[r].todo \ {v} /\ run'[r].known = run[r].known  BY <2>3, <2>4 DEF Run
  <2>6. Looked(r) /\ u \in DueAnew(r) /\ u # v  BY <2>1, <2>5 DEF Looked, DueAnew
  <2>7. ~Insert(r, u)
    <3>1. ASSUME Insert(r, u)  PROVE FALSE
      <4>1. run'[r] = [Handled(r, u) EXCEPT !.phase = "marking"]  BY <3>1 DEF Insert, Held
      <4>0. u \in Uuids  BY <2>1, <2>6 DEF DueAnew, Run
      <4>2. Handled(r, u) \in Run /\ Handled(r, u).todo = run[r].todo \ {u}  BY <2>1, <4>0 DEF Handled, Run
      <4>3. run'[r].todo = run[r].todo \ {u}  BY <4>1, <4>2 DEF Run
      <4> QED  BY <4>3 DEF DueAnew
    <3> QED  BY <3>1
  <2> QED  BY <2>6, <2>7 DEF Before
<1>5. CASE Mark(r)
  <2>1. run[r].phase = "marking" /\ run[r] \in Run  BY <1>1, <1>5 DEF Mark
  <2>2. draft[run[r].last] # "none"
    <3>1. CASE draft[run[r].last] = "none"
      <4>1. run'[r] = Idle  BY <1>5, <3>1 DEF Mark, Held
      <4> QED  BY <4>1, Idles DEF Looked
    <3> QED  BY <3>1
  <2>3. run'[r].todo = run[r].todo /\ run'[r].known = run[r].known  BY <1>5, <2>1, <2>2 DEF Mark, Held, Run
  <2> QED  BY <2>1, <2>3 DEF Before, Looked, DueAnew, Insert, Handling
<1> QED  BY <1>2, <1>3, <1>4, <1>5 DEF RunStep

LEMMA OtherStep ==
    ASSUME Held, Next, NEW r \in Runs, ~RunStep(r), Looked(r)', NEW u \in DueAnew(r)'
    PROVE  Before(r, u)
<1>1. u \in Uuids
  <2>1. run' \in [Runs -> Run \cup {Idle}]  BY StepKeeps DEF Held
  <2> QED  BY <2>1, Idles DEF Looked, DueAnew, Run
<1>2. ~Insert(r, u)  BY <1>1 DEF RunStep
<1>3. ASSUME run'[r] = run[r]  PROVE Before(r, u)  BY <1>2, <1>3 DEF Before, Looked, DueAnew
<1>4. ASSUME NEW s \in Runs, RunStep(s)  PROVE run'[r] = run[r]
  <2>1. s # r  BY <1>4
  <2>2. PICK x : run' = [run EXCEPT ![s] = x]
    BY <1>4 DEF RunStep, BeginRun, ScanNothing, Scan, PreCheck, Mark, EndRun, Skip, Insert
  <2> QED  BY <2>1, <2>2 DEF Held
<1>5. ASSUME NEW q \in Requests, RequestStep(q)  PROVE run'[r] = run[r]
  BY <1>5 DEF RequestStep, StartPublish, StartUnpublish, StartPull, Trash, Restore, Purge, InsertPulled, MarkPulled,
              Land, Withdraw
<1>6. ASSUME NEW e \in Erasers, EraserStep(e)  PROVE run'[r] = run[r]
  BY <1>6 DEF EraserStep, StartErasing, Erase, Confirm
<1>7. CASE DayPasses
  <2>1. PICK c : run'[r] = IF run[r].phase = "idle" THEN Idle ELSE [run[r] EXCEPT !.from = c]  BY <1>7 DEF DayPasses
  <2>2. run[r].phase # "idle"  BY <2>1, Idles DEF Looked
  <2>3. run[r] \in Run  BY <2>2, Idles DEF Held
  <2>4. run'[r].phase = run[r].phase /\ run'[r].todo = run[r].todo /\ run'[r].known = run[r].known
    BY <2>1, <2>2, <2>3 DEF Run
  <2> QED  BY <1>2, <2>4 DEF Before, Looked, DueAnew
<1>8. CASE Dies
  <2>1. run'[r] \in {run[r], Idle}  BY <1>8 DEF Dies, Held
  <2> QED  BY <1>3, <2>1, Idles DEF Looked
<1>9. ASSUME NEW v \in Submitted, Submit(v)  PROVE run'[r] = run[r]  BY <1>9 DEF Submit, system
<1> QED  BY <1>3, <1>4, <1>5, <1>6, <1>7, <1>8, <1>9 DEF Next

LEMMA AnewInitially == Init => Anew
<1> SUFFICES ASSUME Init  PROVE Anew  OBVIOUS
<1>1. Held  BY DEF Init, Held, Kept, Copies, Cursor, Ages
<1>2. \A r \in Runs : ~Looked(r)  BY Idles DEF Init, Looked
<1> QED  BY <1>1, <1>2 DEF Anew, TakenUpAnew

LEMMA AnewStep == ASSUME Anew, [Next /\ Watch]_watched  PROVE Anew'
<1>1. CASE UNCHANGED watched
  BY <1>1 DEF watched, vars, system, Anew, Held, Kept, TakenUpAnew, Looked, DueAnew, Nowhere
<1>2. CASE Next /\ Watch
  <2>1. Held /\ Held' /\ StillNowhere  BY <1>2, StepKeeps DEF Anew
  <2>2. ASSUME NEW r \in Runs, Looked(r)', NEW u \in DueAnew(r)'  PROVE Nowhere(u)' \/ u \in made'[r]
    <3>1. Before(r, u) \/ Nowhere(u)'  BY <1>2, <2>1, <2>2, OwnStep, OtherStep
    <3>2. CASE Before(r, u)
      <4>1. Nowhere(u) \/ u \in made[r]  BY <3>2 DEF Before, Anew, TakenUpAnew
      <4>2. made'[r] = made[r] \cup MadeBesides(r)  BY <1>2, <2>2, <3>2 DEF Watch, Before
      <4>3. u \in Uuids  BY <2>1, <2>2, Idles DEF Held, Looked, DueAnew, Run
      <4>4. Inserted(u) => u \in MadeBesides(r)  BY <3>2, <4>3 DEF Inserted, MadeBesides, Before
      <4> QED  BY <2>1, <4>1, <4>2, <4>3, <4>4 DEF StillNowhere
    <3> QED  BY <3>1, <3>2
  <2> QED  BY <2>1, <2>2 DEF Anew, TakenUpAnew
<1> QED  BY <1>1, <1>2

(* However runs, requests and passes overlap, ingest brings a deleted page  *)
(* back only where another run, or a pull, made a draft of it after the run *)
(* had looked: nothing else that happens while a run holds what it read.    *)
THEOREM IngestRevivesOnlyWhatOvertookIt == Watched => OnlyTheOvertakenRevive
<1>1. Anew /\ [Next /\ Watch]_watched => Anew'  BY AnewStep
<1>2. Anew /\ [Next /\ Watch]_watched =>
        [\A r \in Runs, u \in Uuids : Insert(r, u) => Nowhere(u) \/ u \in made[r]]_watched
  <2>1. ASSUME Anew, NEW r \in Runs, NEW u \in Uuids, Insert(r, u)  PROVE Nowhere(u) \/ u \in made[r]
    BY <2>1 DEF Insert, Handling, Anew, TakenUpAnew, Looked, DueAnew
  <2> QED  BY <2>1
<1>3. Watched => Init /\ [][Next /\ Watch]_watched  BY DEF Watched
<1> QED  BY <1>1, <1>2, <1>3, AnewInitially, PTL DEF OnlyTheOvertakenRevive
=============================================================================
