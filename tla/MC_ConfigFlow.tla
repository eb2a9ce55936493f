---------------------------- MODULE MC_ConfigFlow ----------------------------
(* ConfigFlow for TLC: routers, addresses, tokens and flows are interchangeable. *)
EXTENDS ConfigFlow, TLC

Symmetry == Permutations(Router) \union Permutations(Url)
              \union Permutations(Token) \union Permutations(Flow)
=============================================================================
