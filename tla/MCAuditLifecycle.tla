--------------------------- MODULE MCAuditLifecycle ---------------------------
(* Instances of AuditLifecycle for TLC. *)
EXTENDS AuditLifecycle, TLC

CONSTANTS f1, f2, unpinned, dangling, z1, zizmor, a1, a2

\* The first file calls the second one, which uses an unpinned action.
CallerAndCallee == [x \in Flaws |-> IF x = dangling THEN f1 ELSE f2]
OnSecond == [x \in Flaws |-> IF x = dangling THEN f2 ELSE None]

OneTool == [x \in Reports |-> CHOOSE t \in Tools : TRUE]

Never == [k \in Kinds |-> 0]
Once  == [k \in Kinds |-> 1]
Failing == [Never EXCEPT !["failure"] = 1]
===============================================================================
