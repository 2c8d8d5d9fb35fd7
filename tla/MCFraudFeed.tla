----------------------------- MODULE MCFraudFeed -----------------------------
(* A directory of two pages.  The test data inserts an account the directory  *)
(* does not have, updates one of the first page, deletes that of the second.  *)
EXTENDS FraudFeed

CONSTANTS a1, a2, a3

MCAddresses == {a1, a2, a3}
MCDirectory == << {a1}, {a2} >>
MCInserted == {a3}
MCUpdated == {a1}
MCDeleted == {a2}
=============================================================================
