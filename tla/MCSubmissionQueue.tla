------------------------- MODULE MCSubmissionQueue -------------------------
(* Small instances of SubmissionQueue for TLC. *)
EXTENDS SubmissionQueue, TLC

CONSTANTS ordinary, new, continue, shell, auxiliary, direct, resume,
          t1, t2, t3, i1, i2

MCIntent == [r \in Requests |->
    CASE r = ordinary -> "ordinary"
      [] r \in {new, direct} -> "new"
      [] r = continue -> "continue"
      [] r = shell -> "shell"
      [] r = auxiliary -> "auxiliary"
      [] r = resume -> "resume"]

Fresh == Permutations(TaskIds)

(* A state constraint: the other sessions take permits before the direct      *)
(* request and the restart come.                                              *)
TurnsRun == others > 0 => crashes = 0 /\ direct \notin ops /\ pc(direct) = "off"

(* A state constraint: a follow-up that is edited and promoted next to a      *)
(* direct resume, or the same follow-up with one text next to a user shell.   *)
WithoutShell == status[shell] = "none"
WithoutResume == /\ resume \notin ops /\ run[resume].pc = "off"
                 /\ input[continue] # i2 /\ initial[continue] # i2
                 /\ input[shell] # i2
FollowUpRun == WithoutShell \/ WithoutResume
=============================================================================
