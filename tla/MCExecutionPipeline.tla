------------------------ MODULE MCExecutionPipeline ------------------------
(* Instances of ExecutionPipeline for TLC: a developer, an operator and an   *)
(* administrator; the identity file is the first, or the same after the      *)
(* developer was promoted, disabled or removed.                              *)
EXTENDS ExecutionPipeline, TLC

CONSTANTS r1, t1, t2, dora, omar, ada, uptime, disk, journal, tidy, wipe, v1, v2

Active(role) == [role |-> role, enabled |-> TRUE]
Staff(dorasAccount) ==
    [u \in User |-> CASE u = dora -> dorasAccount
                      [] u = omar -> Active("OPERATOR")
                      [] OTHER    -> Active("ADMIN")]

\* After a restart dora is a developer still, or an operator.
Promotion == {Staff(Active("DEVELOPER")), Staff(Active("OPERATOR"))}
\* ... or her account is disabled, or gone.
Revocation == Promotion \cup {Staff([role |-> "DEVELOPER", enabled |-> FALSE]),
                              Staff(NoAccount)}

\* uptime and disk are READ_SAFE commands, journal is READ_SENSITIVE, wipe is
\* FORBIDDEN, and tidy is a READ_SAFE command under an action the policy does
\* not know.
Commands ==
    (uptime :> "READ_SAFE" @@ journal :> "READ_SENSITIVE" @@ tidy :> "other"
        @@ wipe :> "FORBIDDEN")
Safe == (uptime :> "READ_SAFE" @@ disk :> "READ_SAFE")

ThreadSymmetry == Permutations(Thread)
=============================================================================
