------------------------ MODULE MCCustomerResolution ------------------------
(* Values for the constants of CustomerResolution under TLC.               *)
EXTENDS CustomerResolution, TLC

CONSTANTS k1, p1

\* Bitrix24 has a contact with the phones of all customers: people who write from
\* two numbers are one contact there.
BookShared == [k \in CrmContact |-> IF k = k1 THEN Phone ELSE {}]

\* The same, with one customer it does not know.
BookMixed == [k \in CrmContact |-> IF k = k1 THEN Phone \ {p1} ELSE {}]

\* Customers who share a Bitrix24 contact are alike.
PhoneSymmetry == Permutations(Phone \ {p1})
=============================================================================
