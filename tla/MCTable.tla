------------------------------ MODULE MCTable ------------------------------
(* A small instance of Table: bytes 0, 1 and 2.                            *)
EXTENDS Table, TLC

\* Prefixes 0.1.2, whose upper bound carries, 0.2.1, and 0.2.1.1 within it.
MCTables == {[tenant |-> <<1>>, name |-> <<2>>],
             [tenant |-> <<2>>, name |-> <<1>>],
             [tenant |-> <<2>>, name |-> <<1, 1>>]}

\* Id 1.2 of the second table and id 2 of the third have the same key.
MCIds == {<<2>>, <<1, 2>>}
=============================================================================
