----------------------------- MODULE MCRequests -----------------------------
(***************************************************************************)
(* Requests that meet, for TLC: those on the drafts (PageContent and       *)
(* PageCreates), those of and about plugins (Plugins), or the forms of one *)
(* document (PageDocument), in one behaviour.  They share no state; a      *)
(* property of one is checked where it moves.                              *)
(***************************************************************************)
EXTENDS MCPlugins, MCPageGroups

CONSTANTS Pages, Names, Weights, Window, MaxWrites, Plans,
          Tokens, Price, Funds, Limit, MaxPlan, MaxFaults,
          Langs, Default, Tabs, MaxOpened, MaxTyped, MaxPosts, MaxLines, Numbers, MaxAdded

VARIABLES part, pages, versions, born, edits, allowed, write, writes, kinds,
          books, claims, old, forms, doubts, faults,
          stored, boxed, tab, clip, opened, typed, posts, last

writeVars == <<pages, versions, born, edits, allowed, write, writes, kinds,
               books, claims, old, forms, doubts, faults>>

formVars == <<stored, boxed, tab, clip, opened, typed, posts, last>>

Line(w, words) == [weight |-> w, text |-> words]
(* A page whose rows are out of order, its second block as it came in; and *)
(* one that came in without anything.                                      *)
MCOriginals == {[text |-> [en |-> 80], items |-> {<<Line({1}, [en |-> 81, fr |-> 82]), Line({0}, [en |-> 83])>>},
              blocks |-> <<[id |-> 90, weight |-> {5}, text |-> [en |-> 84], items |-> {<<Line({0}, [fr |-> 85])>>}],
                           [id |-> 91, weight |-> {}, text |-> [fr |-> 86], items |-> {}]>>],
             [text |-> << >>, items |-> {}, blocks |-> << >>]}

D == INSTANCE PageDocument WITH Originals <- MCOriginals, Weights <- Numbers, MaxRows <- MaxLines

W == INSTANCE PageCreates WITH req <- write, served <- writes, plan <- kinds, MaxRequests <- MaxWrites

ASSUME DraftsAssumption == W!CreatesAssumption

(* Where one part moves, the others have one initial state. *)
One(S) == CHOOSE x \in S : TRUE

PartsInit ==
    /\ part \in {"writes", "plugins", "forms"}
    /\ W!CreatesInit /\ (part # "writes" => kinds = One(Plans))
    /\ \E s \in (IF part = "plugins" THEN Starts ELSE {One(Starts)}) : StartFrom(s)
    /\ D!Init /\ (part # "forms" => boxed /\ stored = One(MCOriginals))
PartsNext ==
    /\ UNCHANGED part
    /\ \/ part = "writes" /\ W!CreatesNext /\ UNCHANGED <<vars, formVars>>
       \/ part = "plugins" /\ Next /\ UNCHANGED <<writeVars, formVars>>
       \/ part = "forms" /\ D!Next /\ UNCHANGED <<vars, writeVars>>
Parts == PartsInit /\ [][PartsNext]_<<part, vars, writeVars, formVars>>

CreatesSound                == part = "writes" => W!CreatesSound
DraftsAreKept               == W!DraftsAreKept
ReorderLandsAsDropped       == W!ReorderLandsAsDropped
PlansLandAsAdmitted         == W!PlansLandAsAdmitted
PostsLandAsShown            == D!PostsLandAsShown
=============================================================================
