----------------------------- MODULE RouteTable -----------------------------
(***************************************************************************)
(* The routes of the relay in the order in which routes.ts and server.ts   *)
(* register them, and Express's dispatch: the first route of the request's *)
(* method that matches the path gets the request, and no later one does.   *)
(*                                                                         *)
(* A route is its method, the paths it matches, the middleware before its  *)
(* handler, and the scope its apiKeyAuth asks for.                         *)
(***************************************************************************)
EXTENDS Naturals, Sequences

Param == ":"         \* a parameter of a pattern: matches every segment
NoScope == "none"

Methods == {"get", "post", "put", "patch", "delete"}

IpLimiters == {"webhookLimiter", "limiter", "billingMutationLimiter", "billingReadLimiter",
               "webhookTestLimiter", "pricingLimiter", "solBroadcastLimiter",
               "apiReadIpLimiter"}
KeyLimiters == {"apiReadKeyLimiter", "apiWriteKeyLimiter"}
SessionLimiters == {"simulateLimiter", "previewSimulateLimiter"}
Limiters == IpLimiters \cup KeyLimiters \cup SessionLimiters

Route(method, paths, chain, scope) ==
    [method |-> method, paths |-> paths, chain |-> chain, scope |-> scope]

\* The routes of one path, in the order of their methods, and those of a chain.
On(path, methods) ==
    [i \in DOMAIN methods |-> Route(methods[i], {path}, <<>>, NoScope)]
Through(chain, path, methods) ==
    [i \in DOMAIN methods |-> Route(methods[i], {path}, chain, NoScope)]

\* A path with up to n optional parameters at its end.
Optional(path, n) ==
    <<Route("get", {path \o [i \in 1..k |-> Param] : k \in 0..n}, <<>>, NoScope)>>

\* A route of the customer API: the limiters around apiKeyAuth(scope).
Api(method, path, scope, limiter) ==
    <<Route(method, {<<"v1", "api">> \o path},
            <<"apiReadIpLimiter", "apiKeyAuth", limiter>>, scope)>>
Read(path, scope) == Api("get", path, scope, "apiReadKeyLimiter")
Write(method, path, scope) == Api(method, path, scope, "apiWriteKeyLimiter")

Signed == <<"requireAuth">>            \* a signature is required
MaySign == <<"optionalAuth">>          \* a signature is checked if there is one

-----------------------------------------------------------------------------
(* server.ts: before the body parsers and the global limiter *)

ServerRoutes ==
       Through(<<"webhookLimiter">>, <<"v1", "enterprise", "stripe", "webhook">>, <<"post">>)
    \o <<Route("get", {<<".well-known", "security.txt">>, <<"security.txt">>}, <<>>, NoScope)>>
    \o <<Route("get", {<<"health">>, <<"v1", "health">>}, <<>>, NoScope)>>

-----------------------------------------------------------------------------
(* routes.ts *)

RelayRoutes ==
       Optional(<<"v1", "sync">>, 1)
    \o Optional(<<"v1", "action">>, 1)
    \o Optional(<<"v1", "recoverypub">>, 1)
    \o Through(MaySign, <<"v1", "sync">>, <<"post">>)
    \o Through(MaySign, <<"v1", "token">>, <<"post">>)
    \o Through(MaySign, <<"v1", "action">>, <<"post">>)
    \o Through(Signed, <<"v1", "recoverypub">>, <<"post">>)
    \o Through(MaySign, <<"v1", "nonces">>, <<"post">>)
    \o On(<<"v1", "nonces", "status", Param>>, <<"get">>)
    \o Through(MaySign, <<"v1", "nonces", "validate">>, <<"post">>)
    \o Through(MaySign, <<"v1", "nonces", "reconcile">>, <<"post">>)
    \o On(<<"v1", "rates">>, <<"get">>)
    \o On(<<"v1", "networkfees">>, <<"get">>)
    \o On(<<"v1", "sol", "paymaster">>, <<"get">>)
    \o Through(<<"solBroadcastLimiter">> \o MaySign, <<"v1", "sol", "broadcast">>, <<"post">>)
    \o Through(<<"solBroadcastLimiter">> \o MaySign, <<"v1", "sol", "setup">>, <<"post">>)
    \o On(<<"v1", "ticket">>, <<"post">>)
    \o On(<<"v1", "contact">>, <<"post">>)
    \o Optional(<<"v1", "known-tokens">>, 1)
    \o Optional(<<"v1", "tokeninfo">>, 2)
    \o On(<<"v1", "services">>, <<"get">>)
    \o On(<<"v1", "sign", "onramper">>, <<"post">>)

Enterprise(path) == <<"v1", "enterprise">> \o path
Org(path) == Enterprise(<<"organizations", Param>>) \o path

AccountRoutes ==
       Through(Signed, Enterprise(<<"subscribe">>), <<"post">>)
    \o Through(Signed, Enterprise(<<"unsubscribe">>), <<"post">>)
    \o Through(Signed, Enterprise(<<"subscription">>), <<"post">>)
    \o Through(Signed, Enterprise(<<"preferences">>), <<"post">>)
    \o On(Enterprise(<<"wallet-notification-preferences">>), <<"get", "put">>)
    \o On(Enterprise(<<"auth", "challenge">>), <<"get">>)
    \o On(Enterprise(<<"auth", "wk">>), <<"post">>)
    \o On(Enterprise(<<"auth", "link-wk">>), <<"post">>)
    \o On(Enterprise(<<"auth", "session">>), <<"get">>)
    \o On(Enterprise(<<"auth", "logout">>), <<"post">>)
    \o On(Enterprise(<<"auth", "email", "request">>), <<"post">>)
    \o On(Enterprise(<<"auth", "email", "verify">>), <<"post">>)
    \o On(Enterprise(<<"auth", "google">>), <<"post">>)
    \o On(Enterprise(<<"critical-action", "challenge">>), <<"post">>)
    \o On(Enterprise(<<"email">>), <<"post", "delete">>)
    \o On(Enterprise(<<"email", "verify", "request">>), <<"post">>)
    \o On(Enterprise(<<"email", "verify", "confirm">>), <<"post">>)
    \o On(Enterprise(<<"profile">>), <<"patch">>)

OrganizationRoutes ==
       On(Enterprise(<<"organizations">>), <<"post", "get">>)
    \o On(Org(<<>>), <<"get", "patch", "delete">>)
    \o On(Org(<<"members">>), <<"get">>)
    \o On(Org(<<"members", Param>>), <<"patch", "delete">>)
    \o On(Org(<<"members", Param, "vault-roles">>), <<"get">>)
    \o On(Org(<<"leave">>), <<"post">>)
    \o On(Org(<<"invitations">>), <<"post", "get">>)
    \o On(Org(<<"invitations", Param>>), <<"delete">>)
    \o On(Org(<<"audit-logs">>), <<"get">>)
    \o On(Org(<<"audit-logs", "stats">>), <<"get">>)
    \o On(Org(<<"critical-actions">>), <<"get">>)
    \o On(Org(<<"login-activity">>), <<"get">>)
    \o On(Enterprise(<<"invitations">>), <<"get">>)
    \o On(Enterprise(<<"invitations", Param, "accept">>), <<"post">>)
    \o On(Enterprise(<<"invitations", Param, "reject">>), <<"post">>)
    \o On(Org(<<"contacts">>), <<"get", "post">>)
    \o On(Org(<<"contacts", Param>>), <<"put", "delete">>)
    \o On(Org(<<"contacts", "record-usage">>), <<"post">>)
    \o On(Org(<<"notification-prefs">>), <<"get", "put">>)
    \o On(Org(<<"notification-subscriptions">>), <<"get", "post">>)
    \o On(Org(<<"notification-subscriptions", Param>>), <<"patch", "delete">>)
    \o Through(<<"webhookTestLimiter">>,
               Org(<<"notification-subscriptions", Param, "test">>), <<"post">>)
    \o On(Org(<<"notification-deliveries">>), <<"get">>)
    \o Through(<<"billingReadLimiter">>, Org(<<"api-keys">>), <<"get">>)
    \o Through(<<"billingReadLimiter">>, Org(<<"api-keys", "usage">>), <<"get">>)
    \o Through(<<"billingMutationLimiter">>, Org(<<"api-keys">>), <<"post">>)
    \o Through(<<"billingMutationLimiter">>, Org(<<"api-keys", Param>>), <<"delete">>)

-----------------------------------------------------------------------------
(* The customer API *)

ApiReads ==
       Read(<<"org">>, "org:read")
    \o Read(<<"vaults">>, "vaults:read")
    \o Read(<<"vaults", Param>>, "vaults:read")
    \o Read(<<"vaults", Param, "balances">>, "balances:read")
    \o Read(<<"vaults", Param, "transactions">>, "transactions:read")
    \o Read(<<"vaults", Param, "proposals">>, "proposals:read")
    \o Read(<<"vaults", Param, "proposals", Param>>, "proposals:read")
    \o Read(<<"analytics", "portfolio">>, "analytics:read")
    \o Read(<<"contacts">>, "contacts:read")
    \o Read(<<"vaults", Param, "policy">>, "policies:read")
    \o Read(<<"vaults", Param, "policy-rules">>, "policies:read")
    \o Read(<<"org", "policy">>, "policies:read")
    \o Read(<<"org", "policy-rules">>, "policies:read")
    \o Read(<<"approval-groups">>, "policies:read")
    \o Read(<<"policy-templates">>, "policies:read")

ApiVaultWrites ==
       Write("post", <<"vaults", Param, "proposals">>, "proposals:write")
    \o Write("post", <<"vaults", Param, "proposals", Param, "cancel">>, "proposals:write")
    \o Write("put", <<"vaults", Param, "policy">>, "policies:write")
    \o Write("post", <<"vaults", Param, "policy-rules">>, "policies:write")
    \o Write("post", <<"vaults", Param, "policy-rules", "reorder">>, "policies:write")
    \o Write("put", <<"vaults", Param, "policy-rules", Param>>, "policies:write")
    \o Write("delete", <<"vaults", Param, "policy-rules", Param>>, "policies:write")
    \o Write("put", <<"vaults", Param, "policy", "whitelist", "mode">>, "policies:write")
    \o Write("post", <<"vaults", Param, "policy", "whitelist">>, "policies:write")
    \o Write("delete", <<"vaults", Param, "policy", "whitelist">>, "policies:write")

ApiOrgWrites ==
       Write("put", <<"org", "policy">>, "policies:write")
    \o Write("post", <<"org", "policy-rules">>, "policies:write")
    \o Write("post", <<"org", "policy-rules", "reorder">>, "policies:write")
    \o Write("put", <<"org", "policy-rules", Param>>, "policies:write")
    \o Write("delete", <<"org", "policy-rules", Param>>, "policies:write")
    \o Write("put", <<"org", "chain-policy", Param>>, "policies:write")
    \o Write("delete", <<"org", "chain-policy", Param>>, "policies:write")
    \o Write("post", <<"approval-groups">>, "policies:write")
    \o Write("put", <<"approval-groups", Param>>, "policies:write")
    \o Write("delete", <<"approval-groups", Param>>, "policies:write")
    \o Write("post", <<"vaults", Param, "apply-template">>, "policies:write")

ApiConfigWrites ==
       Write("post", <<"vaults">>, "vaults:write")
    \o Write("post", <<"vault-tags">>, "vaults:write")
    \o Write("put", <<"vault-tags", Param>>, "vaults:write")
    \o Write("delete", <<"vault-tags", Param>>, "vaults:write")
    \o Write("put", <<"vaults", Param>>, "vaults:write")
    \o Write("post", <<"contacts">>, "contacts:write")
    \o Write("put", <<"contacts", Param>>, "contacts:write")
    \o Write("delete", <<"contacts", Param>>, "contacts:write")

-----------------------------------------------------------------------------
(* The enterprise application *)

Vault(path) == Org(<<"vaults", Param>>) \o path
Proposal(path) == Vault(<<"proposals", Param>>) \o path

VaultRoutes ==
       On(Org(<<"vaults">>), <<"post", "get">>)
    \o On(Org(<<"vault-tags">>), <<"get", "post">>)
    \o On(Org(<<"vault-tags", Param>>), <<"patch", "delete">>)
    \o On(Org(<<"vaults", "search">>), <<"get">>)
    \o On(Vault(<<>>), <<"get", "patch", "delete">>)
    \o On(Vault(<<"unarchive">>), <<"post">>)
    \o On(Vault(<<"members">>), <<"get", "post">>)
    \o On(Vault(<<"members", Param>>), <<"delete">>)
    \o On(Vault(<<"xpub">>), <<"post">>)
    \o On(Enterprise(<<"vaults", "pending-setup">>), <<"get">>)
    \o On(Vault(<<"addresses">>), <<"get", "post">>)
    \o On(Vault(<<"addresses", Param>>), <<"patch">>)
    \o On(Vault(<<"sol", "setup">>), <<"post">>)
    \o On(Vault(<<"balances">>), <<"get">>)
    \o On(Vault(<<"transactions">>), <<"get">>)
    \o On(Vault(<<"sync">>), <<"post">>)
    \o On(Vault(<<"balance-history">>), <<"get">>)

ProposalRoutes ==
       On(Vault(<<"proposals", "estimate-fee">>), <<"post">>)
    \o On(Vault(<<"proposals", "preview-policy">>), <<"post">>)
    \o Through(<<"previewSimulateLimiter">>,
               Vault(<<"proposals", "preview-simulate">>), <<"post">>)
    \o On(Vault(<<"proposals">>), <<"post", "get">>)
    \o On(Proposal(<<>>), <<"get">>)
    \o Through(<<"simulateLimiter">>, Proposal(<<"simulate">>), <<"post">>)
    \o On(Proposal(<<"sign">>), <<"post">>)
    \o On(Proposal(<<"solana-signing-payload">>), <<"post">>)
    \o On(Proposal(<<"reject">>), <<"post">>)
    \o On(Proposal(<<"cancel">>), <<"post">>)
    \o On(Proposal(<<"retry-broadcast">>), <<"post">>)
    \o On(Vault(<<"signature-requests">>), <<"post", "get">>)
    \o On(Vault(<<"signature-requests", "deployment-status">>), <<"get">>)
    \o On(Vault(<<"signature-requests", Param>>), <<"get">>)
    \o On(Vault(<<"signature-requests", Param, "sign">>), <<"post">>)
    \o On(Vault(<<"signature-requests", Param, "reject">>), <<"post">>)

MonitoringRoutes ==
       On(Vault(<<"audit">>), <<"get">>)
    \o On(Org(<<"vault-audit">>), <<"get">>)
    \o On(Vault(<<"tokens">>), <<"get", "post">>)
    \o On(Vault(<<"tokens", Param>>), <<"delete">>)
    \o On(Org(<<"token-threats">>), <<"get">>)
    \o On(Vault(<<"token-threats">>), <<"get">>)
    \o On(Org(<<"token-threats", "override">>), <<"post">>)
    \o On(Org(<<"token-threats", "override", Param, Param>>), <<"delete">>)
    \o On(Vault(<<"transactions", Param, "spam-flag">>), <<"post", "delete">>)
    \o On(Org(<<"flagged-transactions">>), <<"get">>)
    \o On(Org(<<"flagged-addresses">>), <<"post">>)
    \o On(Org(<<"flagged-addresses", Param>>), <<"delete">>)
    \o On(Org(<<"flagged-addresses">>), <<"get">>)
    \o On(Proposal(<<"admin-approve">>), <<"post">>)
    \o On(Proposal(<<"admin-reject">>), <<"post">>)
    \o On(Proposal(<<"cancel-timelock">>), <<"post">>)
    \o On(Proposal(<<"workflow-approve">>), <<"post">>)
    \o On(Proposal(<<"workflow-reject">>), <<"post">>)
    \o On(Vault(<<"freeze">>), <<"post">>)
    \o On(Vault(<<"unfreeze">>), <<"post">>)
    \o On(Vault(<<"members", Param, "promote">>), <<"post">>)
    \o On(Vault(<<"members", Param, "demote">>), <<"post">>)

\* Mutant: reorder is registered after :ruleId.
VaultPolicyRoutesShadowed ==
       On(Vault(<<"policy-rules">>), <<"get", "post">>)
    \o On(Vault(<<"policy-rules", Param>>), <<"put", "delete">>)
    \o On(Vault(<<"policy-rules", "reorder">>), <<"put">>)

VaultPolicyRoutes ==
       On(Vault(<<"policy">>), <<"get", "put">>)
    \o On(Vault(<<"policy", "whitelist-mode">>), <<"put">>)
    \o On(Vault(<<"policy", "whitelist">>), <<"post">>)
    \o On(Vault(<<"policy", "whitelist", Param>>), <<"delete">>)
    \o On(Vault(<<"policy", "velocity">>), <<"get">>)
    \o On(Vault(<<"effective-limits">>), <<"get">>)
    \o On(Enterprise(<<"policy-templates">>), <<"get">>)
    \o On(Vault(<<"policy-rules">>), <<"get", "post">>)
    \o On(Vault(<<"policy-rules", "reorder">>), <<"put">>)
    \o On(Vault(<<"policy-rules", Param>>), <<"put", "delete">>)
    \o On(Vault(<<"apply-template">>), <<"post">>)

OrgPolicyRoutes ==
       On(Org(<<"approval-groups">>), <<"get", "post">>)
    \o On(Org(<<"approval-groups", Param>>), <<"put", "delete">>)
    \o On(Org(<<"policy">>), <<"get", "put">>)
    \o On(Org(<<"policy", "chain", Param>>), <<"get", "put", "delete">>)
    \o On(Org(<<"policy-rules">>), <<"get", "post">>)
    \o On(Org(<<"policy-rules", "reorder">>), <<"put">>)
    \o On(Org(<<"policy-rules", "test">>), <<"post">>)
    \o On(Org(<<"policy-rules", Param>>), <<"put", "delete">>)
    \o On(Org(<<"compliance", "config">>), <<"get", "post">>)
    \o On(Org(<<"compliance", "screen">>), <<"post">>)
    \o On(Org(<<"policy-decision-logs">>), <<"get">>)
    \o On(Vault(<<"policy-webhooks", "test">>), <<"post">>)
    \o On(Org(<<"policy-changes">>), <<"get">>)
    \o On(Org(<<"policy-changes", Param, "approve">>), <<"post">>)
    \o On(Org(<<"policy-changes", Param, "reject">>), <<"post">>)

NodeRoutes ==
       On(Org(<<"signing-requests">>), <<"get">>)
    \o On(Org(<<"analytics", "summary">>), <<"get">>)
    \o On(Org(<<"analytics", "performance">>), <<"get">>)
    \o On(Org(<<"analytics", "risk">>), <<"get">>)
    \o On(Org(<<"analytics", "flows">>), <<"get">>)
    \o On(Org(<<"analytics", "cost-basis">>), <<"get">>)
    \o On(Enterprise(<<"rates", "history">>), <<"get">>)
    \o On(Org(<<"flux-nodes">>), <<"get">>)
    \o On(Org(<<"flux-nodes", "summary">>), <<"get">>)
    \o On(Org(<<"flux-nodes">>), <<"post">>)
    \o On(Org(<<"flux-nodes", "refresh">>), <<"post">>)
    \o On(Org(<<"flux-nodes", Param>>), <<"get", "patch", "delete">>)
    \o On(Org(<<"flux-nodes", Param, "start-params">>), <<"get">>)
    \o On(Org(<<"flux-nodes", Param, "started">>), <<"post">>)
    \o On(Vault(<<"node-utxos">>), <<"get">>)
    \o On(Vault(<<"delegates">>), <<"get", "put">>)

Billing(path, limiter) == Through(<<limiter>>, Org(path), <<"post">>)

BillingRoutes ==
       On(Org(<<"entitlements">>), <<"get">>)
    \o On(Org(<<"subscription">>), <<"get">>)
    \o On(Org(<<"invoices">>), <<"get">>)
    \o On(Org(<<"invoices", Param>>), <<"get">>)
    \o Through(<<"pricingLimiter">>, Enterprise(<<"stripe", "prices">>), <<"get">>)
    \o Billing(<<"checkout">>, "billingMutationLimiter")
    \o Billing(<<"portal">>, "billingMutationLimiter")
    \o Billing(<<"change-plan">>, "billingMutationLimiter")
    \o Billing(<<"preview-plan-change">>, "billingReadLimiter")
    \o Billing(<<"cancel-subscription">>, "billingMutationLimiter")
    \o Billing(<<"resume-subscription">>, "billingMutationLimiter")
    \o Billing(<<"cancel-pending-downgrade">>, "billingMutationLimiter")
    \o Billing(<<"downgrade-impact">>, "billingReadLimiter")

Table ==
    ServerRoutes \o RelayRoutes \o AccountRoutes \o OrganizationRoutes
    \o ApiReads \o ApiVaultWrites \o ApiOrgWrites \o ApiConfigWrites
    \o VaultRoutes \o ProposalRoutes \o MonitoringRoutes \o VaultPolicyRoutes
    \o OrgPolicyRoutes \o NodeRoutes \o BillingRoutes

-----------------------------------------------------------------------------
(* Dispatch *)

Matches(path, pattern) ==
    /\ Len(path) = Len(pattern)
    /\ \A i \in DOMAIN path : pattern[i] \in {Param, path[i]}

NotFound == 0

\* The index of the route that gets a request, or NotFound.
Dispatch(method, path) ==
    LET hits == {i \in DOMAIN Table :
                   /\ Table[i].method = method
                   /\ \E pattern \in Table[i].paths : Matches(path, pattern)}
    IN IF hits = {} THEN NotFound ELSE CHOOSE i \in hits : \A j \in hits : i <= j

\* The route answers as an organisation's customer, not as a user.
IsApi(i) ==
    \E path \in Table[i].paths :
        Len(path) >= 2 /\ path[1] = "v1" /\ path[2] = "api"

\* Its handler needs the enterprise module and says so when there is none.
NeedsModule(i) ==
    \E path \in Table[i].paths :
        Len(path) >= 2 /\ path[1] = "v1" /\ path[2] \in {"enterprise", "api", "nonces"}

-----------------------------------------------------------------------------
(* Correctness *)

\* No route is shadowed: a path written for a route, with parameters no other
\* route spells out, is dispatched to that route.  The comments of routes.ts
\* promise it for reorder, test and :vaultId; the order of registration must
\* keep it for search, summary, deployment-status and all the others too.
NoRouteShadowed ==
    \A i \in DOMAIN Table : \A pattern \in Table[i].paths :
        Dispatch(Table[i].method, [k \in DOMAIN pattern |->
            IF pattern[k] = Param THEN "a value" ELSE pattern[k]]) = i

\* Every route of the customer API is behind the address's limiter, the key's
\* check and the key's limiter, in that order; one that changes something asks
\* for a write scope and spends the write budget, one that reads does neither.
CustomerRoutesGuarded ==
    LET writes == {"proposals:write", "policies:write", "vaults:write", "contacts:write"}
    IN \A i \in DOMAIN Table : IsApi(i) =>
          /\ Len(Table[i].chain) = 3
          /\ Table[i].chain[1] = "apiReadIpLimiter"
          /\ Table[i].chain[2] = "apiKeyAuth"
          /\ Table[i].chain[3] = IF Table[i].method = "get"
                                   THEN "apiReadKeyLimiter" ELSE "apiWriteKeyLimiter"
          /\ (Table[i].scope \in writes) <=> (Table[i].method # "get")

=============================================================================
