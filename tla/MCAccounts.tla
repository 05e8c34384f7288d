----------------------------- MODULE MCAccounts -----------------------------
(* Tabs t1 and t2 are of one browser, t3 of another.                       *)
EXTENDS Accounts, TLC

CONSTANTS m1, m2, p1, p2, n, t1, t2, t3

TwoBrowsers == (t1 :> "b1") @@ (t2 :> "b1") @@ (t3 :> "b2")

(* The name of an account may be an address, also of the other one.        *)
AnyName == {n, <<m1, "lower">>, <<m2, "lower">>}

(* A new database, or two accounts, also of one name.                      *)
NewOrTwo == {<<>>} \union
    {<<[mail |-> <<a, "lower">>, name |-> x, password |-> p],
       [mail |-> <<b, "lower">>, name |-> y, password |-> q]>> :
        <<a, b>> \in {<<m1, m2>>, <<m2, m1>>},
        x \in AnyName, y \in AnyName, p \in Passwords, q \in Passwords}

(* Where an account is called like an address, or about to be, one request *)
(* is sent.                                                                *)
NamedByAddress ==
    \/ \E a \in DOMAIN users : users[a].name \in Address
    \/ \E r \in requests : r.stage \in {"lookup", "insert"} /\ r.name \in Address

FewForAddresses == NamedByAddress => sent <= 1

Symmetry == Permutations(Mails) \union Permutations(Passwords) \union Permutations({t1, t2})
=============================================================================
