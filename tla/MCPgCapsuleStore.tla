-------------------------- MODULE MCPgCapsuleStore --------------------------
(***************************************************************************)
(* Two builds.  ca is composed from two adapters: the first has two source *)
(* records with one response each and two facts of the same response (one  *)
(* of them citing both records), the second one record and one fact whose  *)
(* response repeats the second record's.  cb is a single-protocol capsule. *)
(***************************************************************************)
EXTENDS PgCapsuleStore

CONSTANTS s1, s2, s3, s4, f1, f2, f3, f4, ca, cb

MCParts ==
  ca :> << [sources |-> <<s1, s2>>, facts |-> <<f1, f2>>],
           [sources |-> <<s3>>,     facts |-> <<f3>>] >>
  @@ cb :> << [sources |-> <<s4>>, facts |-> <<f4>>] >>

MCCites == f1 :> <<s1>> @@ f2 :> <<s1, s2>> @@ f3 :> <<s3>> @@ f4 :> <<s4>>

MCResponseHash == s1 :> 1 @@ s2 :> 2 @@ s3 :> 2 @@ s4 :> 3
MCAdapterHash  == s1 :> "blend" @@ s2 :> "blend" @@ s3 :> "sdex" @@ s4 :> "blend"
MCRawHash      == f1 :> 1 @@ f2 :> 1 @@ f3 :> 2 @@ f4 :> 3
MCZkLeaf       == f1 :> 1 @@ f2 :> 2 @@ f3 :> 3 @@ f4 :> 4
=============================================================================
