-------------------------- MODULE MCCustomerRaces --------------------------
(* Values for the constants of CustomerRaces under TLC.                    *)
EXTENDS CustomerRaces, TLC

\* Bitrix24 knows none of the customers.
BookEmpty == [k \in CrmContact |-> {}]
=============================================================================
