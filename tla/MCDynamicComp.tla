--------------------------- MODULE MCDynamicComp ----------------------------
(***************************************************************************)
(* Instances of DynamicComp whose counters are those of the pattern that   *)
(* create_pattern_t and tol_counter_set make of MC_m, K and MC_type.  M is *)
(* the number of "1"s of that pattern.                                     *)
(***************************************************************************)
EXTENDS DynamicComp, FtsPattern

CONSTANTS MC_m, MC_type

MC_pattern == create_pattern(MC_type, MC_m, K)
MC_M  == Cardinality({n \in 0 .. K - 1 : MC_pattern[n] = 1})
MC_NP == nr_partitions(MC_pattern, K)
MC_O  == tol_counter_o(MC_pattern, K)
MC_A  == tol_counter_a(MC_pattern, K)

MC_InParts(p, bits) ==
    Cardinality({n \in 0 .. K - 1 : MC_pattern[n] \in bits
                                    /\ PartitionOf(MC_pattern, n) < p})
MC_ZB == [p \in 0 .. MC_NP + 1 |-> MC_InParts(p, {0})]
MC_JB == [p \in 0 .. MC_NP + 1 |-> MC_InParts(p, {0, 1})]
MC_Z  == [z \in 0 .. K - MC_M - 1 |->
            CHOOSE n \in 0 .. K - 1 :
                /\ MC_pattern[n] = 0
                /\ Cardinality({j \in 0 .. n - 1 : MC_pattern[j] = 0}) = z]
=============================================================================
