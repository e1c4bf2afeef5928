----------------------------- MODULE MCPlugins -----------------------------
(* Plugins for TLC: two workers, two identities, and the requests that meet.  *)
EXTENDS Plugins
CONSTANTS u, v, A, B, page, up, down
UrlsForTLC == {u, v}
IdsForTLC == {A, B}
Nested == {<<up, up>>, <<down, down>>, <<up, down>>, <<down, up>>}
From(urls, pins_, ids, granted, plan_) ==
    [made |-> Len(urls), urls |-> urls, pins |-> pins_, served |-> ids, granted |-> granted, plan |-> plan_]
Serving(x, y) == [url \in UrlsForTLC |-> IF url = u THEN x ELSE y]
StartsForTLC ==
    {From(<<u, v>>, <<A, B>>, Serving(A, B), {1}, {"approve", "revoke", "write"}),
     From(<<u, v>>, <<A, B>>, Serving(B, B), {1, 2}, {"remove", "identity", "state", "number"}),
     From(<<u>>, <<A>>, Serving(B, A), {1}, {"remove", "identity", "create", "write"}),
     From(<<u, v>>, <<None, None>>, Serving(A, A), {}, {"state", "write", "approve", "toggle"}),
     From(<<u>>, <<A>>, Serving(A, A), {1}, {"update", "rotate", "toggle", "number"}),
     From(<<u>>, <<A>>, Serving(A, B), {}, {"deploy", "identity", "number"}),
     From(<<u, v>>, <<A, None>>, Serving(B, B), {1}, {"identity", "state", "write"}),
     From(<<u>>, <<A>>, Serving(A, A), {}, {"connect", "redeem", "rotate"}),
     From(<<u>>, <<A>>, Serving(A, A), {}, {"connect", "redeem", "update"})}
=============================================================================
