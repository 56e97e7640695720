-------------------------- MODULE MCProofLifecycle --------------------------
(* A Groth16 proof and one of another backend over one capsule, the second   *)
(* not consistent, and two calls that post either envelope or the first's    *)
(* proof under the second's id.                                              *)
EXTENDS ProofLifecycle, TLC
CONSTANTS p1, p2, c1, c2, v1, k1, k2, cap

MCCapsuleOf  == [p \in Proofs |-> cap]
MCCircuitKey == [p \in Proofs |-> IF p = p1 THEN k1 ELSE k2]
MCContract   == [c \in Calls |-> v1]

Env(names, sends, asProved) == [names |-> names, sends |-> sends, asProved |-> asProved]
MCPosts == {Env(p1, p1, TRUE), Env(p2, NoProof, TRUE), Env(p2, p1, FALSE)}

\* The calls are alike: same contract, same posts, and no property names one.
AlikeCalls == Permutations(Calls)
=============================================================================
