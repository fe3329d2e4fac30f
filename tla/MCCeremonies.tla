---------------------------- MODULE MCCeremonies ----------------------------
EXTENDS Ceremonies
CONSTANTS p1, mm, mpc, a, b

MCKindOf == [e \in {mm, mpc} |-> "evm"]
MCAccountOf == [e \in {mm, mpc} |-> IF e = mm THEN a ELSE b]

\* What mm derived on a legacy host, before its era was fixed by hostname.
Old == [by |-> a, msg |-> 1, how |-> 0, s |-> 1]
Legacy == [seed |-> Old, source |-> [kind |-> "evm", address |-> a, msgVersion |-> 0, fp |-> Old]]
\* What it derives on this host, restored from its words.
Today == [by |-> a, msg |-> 3, how |-> 0, s |-> 1]
MCTyped == {Today}
MCStarts == {<<"main", <<Legacy>>>>, <<"test", <<>>>>}
=============================================================================
