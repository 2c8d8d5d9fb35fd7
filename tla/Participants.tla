---------------------------- MODULE Participants ----------------------------
(***************************************************************************)
(* getParticipants of cdp_processor/ingest.go: the accounts that take part *)
(* in one transaction.  Those of the envelope, of the ledger changes and   *)
(* of each operation are gathered in a list, with repeats; the list of     *)
(* each operation and at the end the whole go through dedupeParticipants.  *)
(*                                                                         *)
(* A transaction is a record:                                              *)
(*   successful  its result                                                *)
(*   source      the account of the envelope                               *)
(*   feeBump     who pays the fee instead, or NoAccount                    *)
(*   changes     per change that participantsForMeta (of a version 0 meta, *)
(*               the others have no Operations) and participantsForChanges *)
(*               see: the account whose entry it is, NoAccount for an      *)
(*               entry of another type, NoType for an unknown change       *)
(*   ops         the operations, each with                                 *)
(*     source    its own source account, or NoAccount                      *)
(*     kind      "begin" and "end" of sponsoring, "unknown", or "plain"    *)
(*     named     the accounts its body names as taking part                *)
(*     changes   its ledger changes, each with: created (no entry before), *)
(*               sponsor (of the entry after), formerSigner and signer     *)
(*               (who sponsored, who sponsors the signer this operation    *)
(*               sets); NoAccount where there is none                      *)
(***************************************************************************)
EXTENDS Dedupe, FiniteSetsExt

CONSTANTS
    NoAccount,     \* a nil account
    NoType,        \* a change of a type the program does not know
    Transactions   \* the transactions the reader may return

\* SourceAccount: the operation's own or else the transaction's.
SourceOf(t, i) == IF t.ops[i].source # NoAccount THEN t.ops[i].source ELSE t.source

Change ==
    [created : BOOLEAN, sponsor : Accounts \cup {NoAccount},
     formerSigner : Accounts \cup {NoAccount}, signer : Accounts \cup {NoAccount}]

Operation ==
    [source : Accounts \cup {NoAccount}, kind : {"begin", "end", "unknown", "plain"},
     named : Seq(Accounts), changes : Seq(Change)]

Transaction ==
    [successful : BOOLEAN, source : Accounts, feeBump : Accounts \cup {NoAccount},
     changes : Seq(Accounts \cup {NoAccount, NoType}), ops : Seq(Operation)]

(***************************************************************************)
(* What the network makes sure of: in a transaction that succeeded begin   *)
(* and end of sponsoring come in pairs, one at a time for an account, and  *)
(* an operation brings in one sponsor; the operations of one that failed   *)
(* have no changes.                                                        *)
(***************************************************************************)

\* The begins for account a that no end has closed before operation i.
OpenBegins(t, a, i) ==
    {j \in 1..i - 1 :
        /\ t.ops[j].kind = "begin" /\ t.ops[j].named = <<a>>
        /\ \A k \in j + 1..i - 1 : ~(t.ops[k].kind = "end" /\ SourceOf(t, k) = a)}

\* Those who sponsor a new signer or a new entry of an operation.
SponsorsOf(op) ==
    ({c.signer : c \in {c \in ToSet(op.changes) : c.signer # c.formerSigner}}
        \cup {c.sponsor : c \in {c \in ToSet(op.changes) : c.created}}) \ {NoAccount}

WellFormed(t) ==
    /\ t.successful =>
         /\ \A i \in DOMAIN t.ops :
              /\ t.ops[i].kind = "begin" =>
                   \A a \in ToSet(t.ops[i].named) : OpenBegins(t, a, i) = {}
              /\ t.ops[i].kind = "end" => OpenBegins(t, SourceOf(t, i), i) # {}
         /\ \A a \in Accounts : OpenBegins(t, a, Len(t.ops) + 1) = {}
    /\ ~t.successful => \A i \in DOMAIN t.ops : t.ops[i].changes = <<>>
    /\ \A i \in DOMAIN t.ops : \A a, b \in SponsorsOf(t.ops[i]) : a = b

ASSUME ParticipantsAssumption ==
    /\ NoAccount \notin Accounts /\ NoType \notin Accounts /\ NoType # NoAccount
    /\ \A t \in Transactions : t \in Transaction /\ WellFormed(t)

VARIABLES
    tx,         \* the transaction
    phase,      \* "changes", "operations", "deduping", "done" or "failed"
    at,         \* the change or the operation to go to next
    collected   \* the list; at the end what is returned

\* The call of dedupeParticipants.
call == dedupeVars
vars == <<tx, phase, at, collected, call>>

\* What there is to append.
ListOf(a) == IF a = NoAccount THEN <<>> ELSE <<a>>

Init ==
    /\ tx \in Transactions
    /\ phase = "changes" /\ at = 1
    /\ collected = <<tx.source>> \o ListOf(tx.feeBump)
    /\ Called(<<>>)

\* An entry of an account adds it, any other adds nothing.
TakeChange ==
    /\ phase = "changes"
    /\ at <= Len(tx.changes)
    /\ tx.changes[at] # NoType
    /\ collected' = collected \o ListOf(tx.changes[at])
    /\ at' = at + 1
    /\ UNCHANGED <<tx, phase, call>>

\* "Unknown change type": getParticipants returns the error, Process of the
\* transformer returns it too, and the ledger is not inspected further.
FailOnChange ==
    /\ phase = "changes"
    /\ at <= Len(tx.changes)
    /\ tx.changes[at] = NoType
    /\ phase' = "failed"
    /\ UNCHANGED <<tx, at, collected, call>>

ChangesDone ==
    /\ phase = "changes"
    /\ at > Len(tx.changes)
    /\ phase' = "operations"
    /\ at' = 1
    /\ UNCHANGED <<tx, collected, call>>

\* Mutant: the search goes forward.
FirstBegin(t, i) ==
    LET begins == {j \in 1..i - 1 : t.ops[j].kind = "begin"
                                    /\ t.ops[j].named = <<SourceOf(t, i)>>}
    IN  IF ~t.successful \/ begins = {} THEN 0 ELSE Min(begins)

\* findInitatingBeginSponsoringOp goes back from the operation to the first
\* begin that names its source; a failed transaction has no reliable sandwich.
InitiatingBegin(t, i) ==
    LET begins == {j \in 1..i - 1 : t.ops[j].kind = "begin"
                                    /\ t.ops[j].named = <<SourceOf(t, i)>>}
    IN  IF ~t.successful \/ begins = {} THEN 0 ELSE Max(begins)

\* A change shows a sponsor: a new one for the signer that is set, or the one of
\* an entry that is created.
SponsorIn(c) ==
    IF c.signer # NoAccount /\ c.signer # c.formerSigner THEN c.signer
    ELSE IF c.created THEN c.sponsor ELSE NoAccount

\* Mutant: the first change alone is looked at.
SponsorOfFirst(op) == IF op.changes = <<>> THEN NoAccount ELSE SponsorIn(op.changes[1])

\* getSponsor returns the first it comes to.
Sponsor(op) ==
    LET shown == {i \in DOMAIN op.changes : SponsorIn(op.changes[i]) # NoAccount}
    IN  IF shown = {} THEN NoAccount ELSE SponsorIn(op.changes[Min(shown)])

\* What Participants gathers for one operation.
OperationList(t, i) ==
    LET op == t.ops[i]
        begin == IF op.kind = "end" THEN InitiatingBegin(t, i) ELSE 0
    IN  <<SourceOf(t, i)>> \o op.named
        \o (IF begin # 0 THEN <<SourceOf(t, begin)>> ELSE <<>>)
        \o ListOf(Sponsor(op))

CallDedupe(s) ==
    /\ phase' = "deduping"
    /\ given' = s /\ slice' = s /\ sorted' = <<>>
    /\ stage' = "called" /\ cur' = 2 /\ insert' = 2

\* Participants of transactionOperationWrapper, up to its return.
TakeOperation ==
    /\ phase = "operations"
    /\ at <= Len(tx.ops)
    /\ tx.ops[at].kind # "unknown"
    /\ CallDedupe(OperationList(tx, at))
    /\ UNCHANGED <<tx, at, collected>>

\* "unknown operation type", or its changes cannot be read.
FailOnOperation ==
    /\ phase = "operations"
    /\ at <= Len(tx.ops)
    /\ tx.ops[at].kind = "unknown"
    /\ phase' = "failed"
    /\ UNCHANGED <<tx, at, collected, call>>

OperationsDone ==
    /\ phase = "operations"
    /\ at > Len(tx.ops)
    /\ CallDedupe(collected)
    /\ UNCHANGED <<tx, at, collected>>

DedupeStep ==
    /\ phase = "deduping"
    /\ DedupeNext
    /\ UNCHANGED <<tx, phase, at, collected>>

\* The list of an operation joins the others.
OperationDeduped ==
    /\ phase = "deduping" /\ stage = "returned"
    /\ at <= Len(tx.ops)
    /\ collected' = collected \o slice
    /\ at' = at + 1
    /\ phase' = "operations"
    /\ UNCHANGED <<tx, call>>

\* The whole list is returned.
AllDeduped ==
    /\ phase = "deduping" /\ stage = "returned"
    /\ at > Len(tx.ops)
    /\ collected' = slice
    /\ phase' = "done"
    /\ UNCHANGED <<tx, at, call>>

Next ==
    \/ TakeChange \/ FailOnChange \/ ChangesDone
    \/ TakeOperation \/ FailOnOperation \/ OperationsDone
    \/ DedupeStep \/ OperationDeduped \/ AllDeduped

Spec == Init /\ [][Next]_vars

(***************************************************************************)
(* Properties                                                              *)
(***************************************************************************)

\* Who takes part, by the meaning of the operations instead of by the searches:
\* the sponsorship an end closes is the one that is open, and a sponsor is one
\* of any change of the operation.
PartiesOfOperation(t, i) ==
    {SourceOf(t, i)} \cup ToSet(t.ops[i].named) \cup SponsorsOf(t.ops[i])
    \cup (IF t.successful /\ t.ops[i].kind = "end"
          THEN {SourceOf(t, j) : j \in OpenBegins(t, SourceOf(t, i), i)} ELSE {})

\* The list Participants returns for an operation has the parties of that one:
\* an end finds the begin it closes even when its account was sponsored earlier in
\* the transaction by another, and a change without a sponsor hides no later one.
OperationNamesItsParties ==
    phase = "deduping" /\ at <= Len(tx.ops) /\ stage = "returned"
        => ToSet(slice) = PartiesOfOperation(tx, at)

Parties(t) ==
    ({t.source, t.feeBump} \cup ToSet(t.changes)
        \cup UNION {PartiesOfOperation(t, i) : i \in DOMAIN t.ops}) \ {NoAccount}

\* getParticipants returns exactly the accounts that take part, each once, so that
\* a flagged account is looked up, and an alert about it made, once a transaction.
ReturnsTheParties ==
    phase = "done" => Increasing(collected) /\ ToSet(collected) = Parties(tx)
=============================================================================
