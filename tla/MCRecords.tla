------------------------------- MODULE MCRecords ------------------------------
(* A finite instance of Records: an administrator, a clerk who may write only *)
(* what is the clerk's own, and a representative who sees only the own; a     *)
(* unique code that matters in one branch, and a margin of a higher level     *)
(* that is fetched from the branch.                                           *)
EXTENDS Records, TLC

CONSTANTS boss, clerk, rep

MCUsers == {boss, clerk, rep}
MCFields == {"entity", "branch", "code", "margin"}
MCValues == {"VIC", "ACT", "x", "0", "1"}
MCBinary == {"0", "1"}
MCTrue == {"1"}
MCEntities == {"VIC", "ACT"}
MCScopeFields == {"branch"}
MCUnique == {"code"}
MCUnrestricted == {boss}

MCRoles == boss :> {"admin"} @@ clerk :> {"clerk"} @@ rep :> {"rep"}
MCScopes == boss :> <<>> @@ clerk :> [branch |-> "VIC"] @@ rep :> [branch |-> "ACT"]

\* Number(), of what is a number.
Number(v) == CASE v \in {Null, Blank, "0"} -> 0 [] v = "1" -> 1 [] OTHER -> 2
MCOrder ==
    [a \in Literal |-> [b \in Literal |->
        CASE Number(a) = 2 \/ Number(b) = 2 -> "none"
          [] Number(a) < Number(b) -> "less"
          [] Number(a) = Number(b) -> "same"
          [] Number(a) > Number(b) -> "more"]]

P(role, level, ops, ifOwner) == [role |-> role, level |-> level, ops |-> ops, ifOwner |-> ifOwner]
MCPerms ==
    {P("admin", 0, Ops, FALSE), P("admin", 1, {"read", "write"}, FALSE),
     P("clerk", 0, {"read", "create"}, FALSE), P("clerk", 0, {"write"}, TRUE),
     P("rep", 0, Ops, TRUE), P("rep", 1, {"read"}, FALSE)}

MCLevel == [f \in MCFields |-> IF f = "margin" THEN 1 ELSE 0]
T(field, op, value) == [field |-> field, not |-> FALSE, op |-> op, value |-> value]
MCDependsOn == [f \in MCFields |-> IF f = "code" THEN {{T("branch", "eq", "VIC")}} ELSE Always]

\* The entity always, the code of what has a margin and is not of VIC; or, in
\* the other instance, the code of what has a margin of 0 or more.
Requires(cond) ==
    [f \in MCFields |-> CASE f = "entity" -> Always [] f = "code" -> cond [] OTHER -> Never]
MCMandatory == Requires({{T("margin", "gt", "0"), T("entity", "nin", {"VIC"})}})
MCMandatoryZero == Requires({{T("margin", "gte", "0")}})

MCLinks == {"branch"}
MCFetchFrom == [margin |-> "branch"]
MCLinked == [margin |-> [v \in MCValues |-> IF v = "VIC" THEN {"1", Unset} ELSE {Unset}]]

MCPayloads ==
    {"entity" :> "VIC" @@ "branch" :> "VIC" @@ "code" :> "x",
     "entity" :> "VIC" @@ "branch" :> "ACT" @@ "code" :> "x",
     "entity" :> "ACT" @@ "branch" :> "VIC",
     "entity" :> Blank @@ "margin" :> "1"}
MCPatches == {"branch" :> "VIC", "branch" :> "ACT", "code" :> Null, "margin" :> "0"}
MCFilters == {"owner" :> clerk, "branch" :> "ACT"}

Symmetry == Permutations(Requests)

==============================================================================
