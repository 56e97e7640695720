----------------------------- MODULE MCProofKit -----------------------------
(* Model values for ProofKit and the intents its requests carry.           *)
EXTENDS ProofKit

Intent(backend, recipe, program, small, zk, truth, capsule) ==
  [backend |-> backend, recipe |-> recipe, program |-> program, small |-> small,
   zk |-> zk, truth |-> truth, capsule |-> capsule]

\* A recipe on two capsules, with either outcome, another recipe, a recipe's name
\* over another program, policies of their own, and what the router refuses.
SomeIntents ==
  {Intent("auto", "lend", "own", TRUE, TRUE, capsule = "first", capsule) :
     capsule \in {"first", "second"}}
  \cup {Intent("auto", "exit", "own", TRUE, TRUE, TRUE, "first")}
  \cup {Intent("auto", "lend", program, TRUE, TRUE, TRUE, "first") : program \in {"other", "two"}}
  \cup {Intent("auto", Absent, "own", small, TRUE, TRUE, "first") : small \in BOOLEAN}
  \cup {Intent(backend, "lend", "own", TRUE, TRUE, FALSE, "second") :
          backend \in {"local-dev", "prebuilt"}}
  \cup {Intent("prebuilt", Absent, "own", TRUE, TRUE, TRUE, "first"),
        Intent("bn254-groth16", "lend", "own", TRUE, FALSE, TRUE, "first")}
=============================================================================
