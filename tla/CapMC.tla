------------------------------- MODULE CapMC -------------------------------
(* Small instances of Cap for model checking. *)
EXTENDS Cap, TLC

CONSTANTS c1, c2, d1, d2, m1, m2, p1, acctA, acctB

MCMetaOf1 == (c1 :> m1)
MCMetaOf2 == (c1 :> m1) @@ (c2 :> m2)
MCRights == {"MINT", "GRANT", "DESTROY", "READ", "IDENTIFY", "WAIT"}
MCInstall == {{"READ", "GRANT", "MINT"}}
MCWant == {{"READ", "MINT"}, {"READ", "DESTROY"}}
MCWant1 == {{"READ", "MINT", "GRANT", "DESTROY"}}

\* acctB is the parent of acctA.
MCChain == (acctA :> {acctA, acctB}) @@ (acctB :> {acctB})
MCLimit == (acctA :> 2) @@ (acctB :> 3)
MCChainFlat == (acctA :> {acctA})
MCLimitFlat == (acctA :> 3)
MCChainNone == [a \in {} |-> {}]
MCLimitNone == [a \in {} |-> 0]
MCPool1 == {1}
MCPool2 == 1 .. 2
============================================================================
