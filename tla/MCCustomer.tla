------------------------------ MODULE MCCustomer ------------------------------
EXTENDS CustomerClient, TLC
CONSTANTS here, there
BothStations == {here, there}
=============================================================================
