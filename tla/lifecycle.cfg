\* Every interleaving of one call's reads and batch with other calls, edits and holds.
CONSTANTS
    Pages = {p1, p2}
    Root = root
    Requests = {q1}
SPECIFICATION OneCallAmongOthers
INVARIANT TrashSound
PROPERTIES HeldNotDestroyed CommitsAreAtomic
SYMMETRY PageSymmetry
CONSTRAINT FewHeldOrPulled
