------------------------------ MODULE MCListings ------------------------------
EXTENDS Listings

MCRows == 1..3
MCHits == [t \in Texts |-> IF t = NoText THEN MCRows ELSE {1, 3}]
=============================================================================
