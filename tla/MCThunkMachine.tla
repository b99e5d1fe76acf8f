--------------------------- MODULE MCThunkMachine ---------------------------
(* Small instances of ThunkMachine.                                        *)
EXTENDS ThunkMachine, TLC

(* An operand that the code does not have is its own thunk.                *)
Closed(p) == \A t \in Thunks :
    p[t].op \in {"Value", "Raise", "Panic"} => p[t].arg = t

MCAllPrograms == {p \in [Thunks -> Codes] : Closed(p)}

(* The programs without a cycle of aliases.                                *)
AliasAcyclic(p) ==
    LET next(S) == {p[u].arg : u \in {v \in S : p[v].op = "Alias"}}
        walk[n \in 0..Cardinality(Thunks)] ==
          IF n = 0 THEN Thunks ELSE next(walk[n - 1])
    IN walk[Cardinality(Thunks)] = {}

MCAliasAcyclicPrograms == {p \in MCAllPrograms : AliasAcyclic(p)}

(* The programs that demand strictly or return a value.                    *)
MCDemandPrograms == {p \in MCAllPrograms :
    \A t \in Thunks : p[t].op \in {"Value", "Demand"}}

(* Values, aliases and nested forces, without a cycle of aliases.          *)
MCNestedPrograms == {p \in MCAliasAcyclicPrograms :
    \A t \in Thunks : p[t].op \in {"Value", "Alias", "Native"}}

MCEvaluatorSymmetry == Permutations(Evaluators)
=============================================================================
