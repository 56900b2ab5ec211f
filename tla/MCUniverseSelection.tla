-------------------------- MODULE MCUniverseSelection --------------------------
\* Five pairs in batches of three, one strong and two weak ones selected.
EXTENDS UniverseSelection

MCListing == <<"AUSDT", "BTCUSDT", "CUSDT", "DUSDT", "EUSDT">>
MCReadings ==
  { [change |-> -2, dist |-> 0, press |-> 4],
    [change |-> 3, dist |-> 1, press |-> 4] }
=============================================================================
