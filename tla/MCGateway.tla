----------------------------- MODULE MCGateway -----------------------------
(* Gateway with three requests from one address: reads and writes of the     *)
(* customer API with two keys, a signed route, a session's dry run.          *)
EXTENDS Gateway, TLC

CONSTANTS k1, k2

Offer(m, p, k, v) == [method |-> m, path |-> p, bearer |-> k, vault |-> v]

MCOffered ==
    LET rules == <<"v1", "api", "vaults", "v", "policy-rules", "reorder">>
        dryRun == <<"v1", "enterprise", "organizations", "o", "vaults", "v",
                    "proposals", "preview-simulate">>
    IN {Offer("get", <<"v1", "api", "org">>, k1, NoVault),
        Offer("get", <<"v1", "api", "org">>, k2, NoVault),
        Offer("post", rules, k2, NoVault),
        Offer("post", <<"v1", "sol", "setup">>, NoBearer, NoVault),
        Offer("post", dryRun, k1, "v")}

\* k1 may do everything, k2 may only read.
MCScopes == [k \in {k1, k2} |->
    IF k = k1 THEN {"org:read", "policies:write"} ELSE {"org:read"}]

MCLimit == [l \in Limiters |->
    IF l \in {"limiter", "apiReadIpLimiter"} THEN 2 ELSE 1]

MCWindow == [l \in Limiters |-> IF l = "limiter" THEN 1 ELSE 2]

Interchangeable == Permutations(Requests)
=============================================================================
