-------------------------------- MODULE Maps --------------------------------
(***************************************************************************)
(* std::map as the program uses it: a function whose domain is the set of  *)
(* keys.                                                                   *)
(***************************************************************************)
EmptyMap == [k \in {} |-> k]

(* m[k] = v: the value of k is replaced. *)
Assign(m, k, v) == [j \in DOMAIN m \cup {k} |-> IF j = k THEN v ELSE m[j]]

(* m.insert(make_pair(k, v)): a key that is present keeps its value. *)
Insert(m, k, v) == IF k \in DOMAIN m THEN m ELSE Assign(m, k, v)

(* m.erase(k). *)
Erase(m, k) == [j \in DOMAIN m \ {k} |-> m[j]]

(* The value of m[k] as an expression: operator[] makes an absent key with *)
(* a default value, so reading is Insert(m, k, default) as well.           *)
Lookup(m, k, default) == IF k \in DOMAIN m THEN m[k] ELSE default
=============================================================================
