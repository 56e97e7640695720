------------------------ MODULE MCMemoryCapsuleStore ------------------------
(***************************************************************************)
(* Three builds: ca from two adapters, cb from one, and cc whose facts     *)
(* exceed the zk tree, so its build throws after its rows are saved.       *)
(***************************************************************************)
EXTENDS MemoryCapsuleStore

CONSTANTS s1, s2, s3, f1, f2, f3, f4, f5, f6, ca, cb, cc

MCParts ==
  ca :> << [sources |-> <<s1>>, facts |-> <<f1>>],
           [sources |-> <<s2>>, facts |-> <<f2>>] >>
  @@ cb :> << [sources |-> <<s3>>, facts |-> <<f3>>] >>
  @@ cc :> << [sources |-> <<s3>>, facts |-> <<f4, f5, f6>>] >>

MCCites == [f \in {f1, f2, f3, f4, f5, f6} |->
  CASE f = f1 -> <<s1>> [] f = f2 -> <<s2>> [] OTHER -> <<s3>>]

MCResponseHash == s1 :> 1 @@ s2 :> 1 @@ s3 :> 2
MCAdapterHash  == s1 :> "blend" @@ s2 :> "sdex" @@ s3 :> "blend"
MCRawHash      == f1 :> 1 @@ f2 :> 1 @@ f3 :> 2 @@ f4 :> 2 @@ f5 :> 2 @@ f6 :> 2
MCZkLeaf       == f1 :> 1 @@ f2 :> 2 @@ f3 :> 3 @@ f4 :> 4 @@ f5 :> 5 @@ f6 :> 6
=============================================================================
