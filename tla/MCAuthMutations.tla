--------------------------- MODULE MCAuthMutations ---------------------------
(* An address in two spellings, one of which may have an account from before  *)
(* the upgrade; passwords with and without blanks, and one of blanks only.    *)
EXTENDS AuthMutations, TLC

MCEmails == {"a@x", "A@x"}
MCLowerCase == [e \in MCEmails |-> "a@x"]
MCPasswords == {"p", "p ", "  ", ""}
MCTrim == [p \in MCPasswords |-> IF p = "p " THEN "p" ELSE IF p = "  " THEN "" ELSE p]
MCOldUsers == <<[email |-> "a@x", password |-> "p "]>>

MCSymmetry == Permutations(Calls)
=============================================================================
