---------------------------- MODULE MCPageGroups ----------------------------
(* The kinds of request on drafts that meet on the same rows.                 *)
Group(pages_, weight, names, kinds) == [pages |-> pages_, weight |-> weight, names |-> names, kinds |-> kinds]
PlansForTLC ==
    {Group({1}, 5, {1}, {"save", "revert", "remove"}),
     Group({1}, 5, {1}, {"patch", "save", "revert", "withdraw"}),
     Group({1}, 5, {1}, {"patch", "remove", "replace"}),
     Group({1, 2}, 5, {1}, {"replace", "tag", "remove", "trash"}),
     Group({1}, 5, {1}, {"tag", "save", "weight", "withdraw"}),
     Group({1, 2, 3}, 5, {1, 2}, {"reorder", "weight", "withdraw"}),
     Group({1, 2}, 5, {1, 2}, {"reorder", "create", "trash"}),
     Group({1, 2}, 5, {1, 2}, {"reorder", "save"}),
     Group({1, 2}, 5, {1}, {"new", "api"}),
     Group({1, 2}, 5, {1}, {"copy", "api", "withdraw"}),
     Group({1, 2}, 5, {1}, {"copy", "save"}),
     Group({1, 2}, 5, {1}, {"copy", "trash"}),
     Group({}, 5, {1}, {"form", "age"})}
=============================================================================
