--------------------------- MODULE CapsuleRegistry ---------------------------
(***************************************************************************)
(* What the SDK relies on when it proves against a stored capsule (the     *)
(* SefiStore contract of packages/store/src/types.ts as ComputeModule uses *)
(* it): a capsule is published once, may be retired, and never returns; a  *)
(* request is answered with exactly the capsule's content or refused.      *)
(* Refusing a published capsule is allowed here; whether a store does so   *)
(* is a separate question (CompleteCapsuleReplays).                        *)
(***************************************************************************)
CONSTANTS Capsules, Readers, NoCapsule,
          Content              \* Content[c]: what the capsule holds

VARIABLES status, reply

vars == <<status, reply>>

Idle == [state |-> "idle", capsule |-> NoCapsule, content |-> {}]

Init ==
  /\ status = [c \in Capsules |-> "unpublished"]
  /\ reply = [r \in Readers |-> Idle]

Publish(c) ==
  /\ status[c] = "unpublished"
  /\ status' = [status EXCEPT ![c] = "published"]
  /\ UNCHANGED reply

Retire ==
  \E gone \in (SUBSET {c \in Capsules : status[c] = "published"}) \ {{}} :
    /\ status' = [c \in Capsules |-> IF c \in gone THEN "retired" ELSE status[c]]
    /\ UNCHANGED reply

Request(r, c) ==
  /\ reply[r].state # "pending"
  /\ reply' = [reply EXCEPT ![r] =
       [state   |-> IF status[c] = "published" THEN "pending" ELSE "not_found",
        capsule |-> c, content |-> {}]]
  /\ UNCHANGED status

Answer(r) ==
  LET c == reply[r].capsule IN
  /\ reply[r].state = "pending"
  /\ \E answer \in {[state |-> "verified", capsule |-> c, content |-> Content[c]],
                     [state |-> "unverified", capsule |-> c, content |-> {}]} :
       reply' = [reply EXCEPT ![r] = answer]
  /\ UNCHANGED status

Next ==
  \/ \E c \in Capsules : Publish(c)
  \/ Retire
  \/ \E r \in Readers : Answer(r) \/ \E c \in Capsules : Request(r, c)

Spec == Init /\ [][Next]_vars
==============================================================================
