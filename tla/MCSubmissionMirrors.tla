------------------------ MODULE MCSubmissionMirrors ------------------------
(***************************************************************************)
(* Instances of SubmissionMirrors: uuids are their places in creation      *)
(* order, and a run that creates one page at a time makes several a pass.  *)
(* Two parts share an instance: a run on its own, with everything editors  *)
(* do and one failure; and overlapping runs, with what editors do to the   *)
(* pages the runs are about.                                               *)
(***************************************************************************)
EXTENDS SubmissionMirrors

VARIABLES
    made,   \* history: what another made a draft of since a run looked
    part
watched == <<vars, made>>
allVars == <<vars, made, part>>

EveryOperation == {"publish", "unpublish", "trash", "restore", "purge", "pull"}

(* A copy of a submission is left alone until it is marked, and it is.      *)
Unmarked(u) ==
    \/ \E r \in Runs : run[r].phase = "marking" /\ run[r].last = u
    \/ \E q \in Requests : request[q].phase = "mark" /\ request[q].row = u

MarkedAtOnce ==
    \A u \in Submitted :
        /\ trash[u] # "plain"
        /\ draft[u] = "plain" => Unmarked(u)
        /\ \A q \in Requests : request[q].phase \in {"publish", "withdraw"} => request[q].row # u

Apart == Init /\ [][Next /\ MarkedAtOnce']_vars

-----------------------------------------------------------------------------
(* Whoever else makes a draft of a published row: another run, or a pull.   *)
Looked(r) == run[r].phase \in {"creating", "marking"}
MadeBesides(r) ==
    {u \in Uuids : \/ \E s \in Runs \ {r} : Insert(s, u)
                   \/ \E q \in Requests : InsertPulled(q) /\ request[q].row = u}
Watch == made' = [r \in Runs |-> IF Looked(r) /\ Looked(r)' THEN made[r] \cup MadeBesides(r) ELSE {}]
Watched == Init /\ made = [r \in Runs |-> {}] /\ [][Next /\ Watch]_watched

(* Ingest brings a deleted submission back only where another made a draft  *)
(* of it after the run had looked, and that was deleted: nothing else that  *)
(* happens while a run holds what it read, and no number of runs, does.     *)
Nowhere(u) == draft[u] = "none" /\ trash[u] = "none" /\ erasures[u] = "none"
OnlyTheOvertakenRevive ==
    [][\A r \in Runs, u \in Uuids : Insert(r, u) => Nowhere(u) \/ u \in made[r]]_watched

-----------------------------------------------------------------------------
(* The parts.  They bound what editors do, never what runs and passes do.   *)
First == CHOOSE r \in Runs : TRUE
Under(r) == part = "alone" => r = First
Confined ==
    /\ \A r \in Runs : ~Under(r) => run'[r] = Idle
    /\ part = "alone" => \A q \in Requests : request'[q].phase = "pull" => request'[q].row \in Authored
    /\ part = "overlap" => /\ \A q \in Requests : request'[q].phase \in {"idle", "pull", "mark"}
                           /\ \A u \in Authored : draft'[u] = draft[u]
PartsInit == Init /\ made = [r \in Runs |-> {}] /\ part \in {"alone", "overlap"}
PartsNext == Next /\ Watch /\ MarkedAtOnce' /\ Confined /\ UNCHANGED part
PartsFairness ==
    /\ \A r \in Runs : WF_vars(Under(r) /\ RunStep(r))
    /\ \A e \in Erasers : WF_vars(EraserStep(e))
    /\ WF_vars(DayPasses)
PartsSpec == PartsInit /\ [][PartsNext]_allVars /\ PartsFairness
=============================================================================
