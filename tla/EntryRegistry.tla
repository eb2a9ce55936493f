---------------------------- MODULE EntryRegistry ----------------------------
(***************************************************************************)
(* What the config flow promises: one config entry per router id, made once  *)
(* and never overwritten. Afterwards one of its two parts changes at a time: *)
(* the address of the router, or the token for it.                          *)
(***************************************************************************)
CONSTANTS Router, Url, Token

VARIABLE registry  \* the entries, by the router id that is their unique id

SprEntry == [url : Url, token : Token]

Init == registry = [r \in {} |-> FALSE]

Add(r, e) ==
  /\ r \notin DOMAIN registry
  /\ registry' = [s \in DOMAIN registry \union {r} |->
                    IF s = r THEN e ELSE registry[s]]

Repoint(r, u) ==
  /\ r \in DOMAIN registry
  /\ registry' = [registry EXCEPT ![r].url = u]

Rekey(r, t) ==
  /\ r \in DOMAIN registry
  /\ registry' = [registry EXCEPT ![r].token = t]

Remove(r) ==
  /\ r \in DOMAIN registry
  /\ registry' = [s \in DOMAIN registry \ {r} |-> registry[s]]

Next ==
  \E r \in Router :
    \/ \E e \in SprEntry : Add(r, e)
    \/ \E u \in Url : Repoint(r, u)
    \/ \E t \in Token : Rekey(r, t)
    \/ Remove(r)

Spec == Init /\ [][Next]_registry
=============================================================================
