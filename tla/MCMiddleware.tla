---------------------------- MODULE MCMiddleware ----------------------------
(* Small instances of Middleware for TLC. *)
EXTENDS Middleware, TLC

Get(peer, realIP, forwardedFor) ==
    [method |-> "GET", tooLarge |-> FALSE, peer |-> peer,
     realIP |-> realIP, forwardedFor |-> forwardedFor]

\* Every way through the chain: two clients that come directly or through the
\* proxy, a header that is not to be trusted, headers without an address, a
\* local client, a request that is too large and a preflight.
MCArrivals ==
    {Get("client1", "client2", "absent"), Get("proxy", "absent", "client1"),
     Get("proxy", "client2", "client1"), Get("proxy", NoAddress, "absent"),
     Get("proxy", "::1", "absent"), Get(NoAddress, "absent", "absent"),
     [Get("client1", "absent", "absent") EXCEPT !.tooLarge = TRUE],
     [Get("client1", "absent", "absent") EXCEPT !.method = "OPTIONS"]}

MCAddresses == {"client1", "client2", "proxy"}
MCProxies == {"proxy"}
MCNoAddress == ""

RequestSymmetry == Permutations(Requests)
=============================================================================
