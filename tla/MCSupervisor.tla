---------------------------- MODULE MCSupervisor ----------------------------
(* A root with the group {a, b}, where a starts one runnable of its own.   *)
EXTENDS Supervisor

MCDN == {"root", "a", "b", "aa"}
MCParent == [d \in {"a", "b", "aa"} |-> IF d = "aa" THEN "a" ELSE "root"]
MCPath == [d \in MCDN |-> {"root", d} \union (IF d = "aa" THEN {"a"} ELSE {})]

(* RunGroup of a and b together, and of aa alone (Run). *)
MCGroups == [d \in MCDN |-> CASE d = "root" -> {{"a", "b"}}
                              [] d = "a" -> {{"aa"}}
                              [] OTHER -> {}]

(* A root with one runnable. *)
PairDN == {"root", "a"}
PairParent == [d \in {"a"} |-> "root"]
PairPath == [d \in PairDN |-> {"root", d}]
PairGroups == [d \in PairDN |-> IF d = "root" THEN {{"a"}} ELSE {}]

(* A root with the group {a, b}. *)
TrioDN == {"root", "a", "b"}
TrioParent == [d \in {"a", "b"} |-> "root"]
TrioPath == [d \in TrioDN |-> {"root", d}]
TrioGroups == [d \in TrioDN |-> IF d = "root" THEN {{"a", "b"}} ELSE {}]

=============================================================================
