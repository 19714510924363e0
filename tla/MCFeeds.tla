------------------------------ MODULE MCFeeds ------------------------------
(* Feeds with two EVM coins, btc and ltc every other round, one request.      *)
EXTENDS Feeds, TLC

MCEvm == <<"eth", "base">>
=============================================================================
