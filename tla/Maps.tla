--------------------------------- MODULE Maps -------------------------------
(***************************************************************************)
(* What insert and extend leave of a map.  The operators :> and @@ of TLC  *)
(* build the same functions; these are spelled out to be reasoned about.   *)
(***************************************************************************)

Inserted(map, key, value) ==
  [k \in DOMAIN map \cup {key} |-> IF k = key THEN value ELSE map[k]]

(* What pairs says goes before what map says. *)
Extended(map, pairs) ==
  [k \in DOMAIN map \cup DOMAIN pairs |-> IF k \in DOMAIN pairs THEN pairs[k] ELSE map[k]]
=============================================================================
