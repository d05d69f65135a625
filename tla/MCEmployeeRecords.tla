------------------------- MODULE MCEmployeeRecords --------------------------
(* A small instance of EmployeeRecords.                                    *)
EXTENDS EmployeeRecords, TLC

CONSTANTS
    lower, upper,  \* one address, its domain in lower and upper case
    other          \* another address

SomeEmails == {lower, upper, other}
LowerCase == [a \in SomeEmails |-> IF a = upper THEN lower ELSE a]

\* An edit leaves another address than the one the employee was hired with.
HiredEmails == {lower}
EditedEmails == {NoEmail, upper, other}

\* Lines stored, refused and fatal, before and after each other.
ShortFiles == {<<"good", "bad", "good">>, <<"bad", "good", "fatal">>,
               <<"good", "fatal", "good">>}

Symmetry == Permutations(Workers)
=============================================================================
