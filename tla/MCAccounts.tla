---------------------------- MODULE MCAccounts ----------------------------
(* Accounts for TLC: the groups of requests that meet on the same rows.       *)
EXTENDS Accounts
From(roles, grants_, own, served_, kinds) ==
    [roles |-> roles, grants |-> grants_, own |-> own, served |-> served_, plan |-> kinds]
SignIn == {"callback", "sign in"}
Linking == {"callback", "link", "disconnect"}
StartsForTLC ==
    {From({"editor"}, {}, {Primary2}, 1, {"refresh", "logout", "delete user"}),
     From({"editor"}, {}, {Primary2}, 2, {"refresh", "time"}),
     From({"editor"}, {}, {Primary2}, 2, {"hygiene", "time"}),
     From({"editor"}, {}, {Primary2}, 2, SignIn \cup {"refresh", "logout"}),
     From({"editor"}, {}, {}, 2, SignIn \cup {"link", "delete user"}),
     From({"editor"}, {}, Providers \ {Primary1}, 2, SignIn \cup Linking),
     From({"editor"}, {}, {Primary2}, 2, Linking \cup {"delete user"}),
     From({"admin"}, {}, {Primary2}, 1, {"roles of user", "delete user"}),
     From({"custom"}, {"users", "roles"}, {Primary2}, 1, {"roles of user", "grants", "new role", "delete role"}),
     From({"editor"}, {}, {Primary2}, 0, {"roles of user", "new role", "delete role"})}
=============================================================================
