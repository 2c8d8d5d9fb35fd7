--------------------------- MODULE MCParticipants ---------------------------
(* Three accounts.  Transactions of sponsoring operations up to two pairs    *)
(* one after another or nested, and short ones of every kind.                *)
EXTENDS Participants

Op(source, kind, named, changes) ==
    [source |-> source, kind |-> kind, named |-> named, changes |-> changes]
Created(a) ==
    [created |-> TRUE, sponsor |-> a, formerSigner |-> NoAccount, signer |-> NoAccount]
Signed(former, new) ==
    [created |-> FALSE, sponsor |-> 3, formerSigner |-> former, signer |-> new]

Sponsoring ==
    {Op(1, "begin", <<3>>, <<>>), Op(2, "begin", <<3>>, <<>>), Op(NoAccount, "begin", <<2>>, <<>>),
     Op(3, "end", <<>>, <<>>), Op(2, "end", <<>>, <<>>)}
Others ==
    {Op(NoAccount, "plain", <<2>>, <<>>), Op(3, "plain", <<2, 2>>, <<Created(NoAccount), Created(1)>>),
     Op(2, "plain", <<>>, <<Signed(1, 1), Signed(1, 3)>>), Op(1, "unknown", <<>>, <<>>)}

SeqsUpTo(S, n) == UNION {[1..k -> S] : k \in 0..n}

Tx(successful, source, feeBump, changes, ops) ==
    [successful |-> successful, source |-> source, feeBump |-> feeBump,
     changes |-> changes, ops |-> ops]

MCTransactions ==
    {t \in {Tx(ok, 1, NoAccount, <<1, 1>>, ops) : ok \in BOOLEAN, ops \in SeqsUpTo(Sponsoring, 4)}
       \cup {Tx(ok, 2, fee, changes, ops) :
               ok \in BOOLEAN, fee \in {NoAccount, 1},
               changes \in SeqsUpTo({1, 3, NoAccount, NoType}, 2), ops \in SeqsUpTo(Others, 2)} :
       WellFormed(t)}
=============================================================================
