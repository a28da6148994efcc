------------------------------ MODULE MCRental ------------------------------
(* Instances of Rental for TLC: every GPU costs one token an hour, and a    *)
(* renter asks for one hour or for less than none.                          *)
EXTENDS Rental

MCPrice == [g \in GPUs |-> 1]

MCHours == {-1, 1}
=============================================================================
