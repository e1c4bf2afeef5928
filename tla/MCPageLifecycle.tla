-------------------------- MODULE MCPageLifecycle --------------------------
(***************************************************************************)
(* Instances of PageTree and PageLifecycle.  One call is followed through  *)
(* its reads and its batch; the others around it read and commit at once,  *)
(* which is all a call can see of another when commits are atomic, as the  *)
(* run itself establishes.                                                 *)
(***************************************************************************)
EXTENDS PageLifecycle, Integers, FiniteSets, TLC

OtherCall ==
    /\ \E S \in SUBSET Pages : TrashPages(S) \/ RestorePages(S) \/ PurgePages(S)
    /\ UNCHANGED request

OneCallAmongOthers == LifecycleInit /\ [][LifecycleNext \/ OtherCall]_allVars

(* Bounds: one page at a time is held, one pulled while a copy is in trash. *)
FewHeldOrPulled == Cardinality(held) <= 1 /\ Cardinality(draft \cap trash) <= 1

PageSymmetry == Permutations(Pages)
=============================================================================
