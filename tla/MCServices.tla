----------------------------- MODULE MCServices -----------------------------
EXTENDS Services

Receivers == {"batches"}

\* One reading on each side of the limits that matter.
Reading(type, level, chemical) == [type |-> type, level |-> level, chemical |-> chemical]
SomeReadings ==
  {Reading("temperature_sensor", 20, "none"),
   Reading("humidity_sensor", 50, "none"), Reading("humidity_sensor", 70, "none"),
   Reading("chemical_sensor", 15, "pesticide"),
   Reading("chemical_sensor", 60, "unspecified"), Reading("chemical_sensor", 60, "water")}

\* Portfolios, prices and markets around every limit.
ManyBooks ==
  [answer : Prices, updatedAt : {1}, cot : 0 .. 6, usd : {0, 40, 125, 131, 160, 190, 260},
   allowance : {[cot |-> 2, usd |-> 50]}, poolCot : {1, 2, 4}, poolUsd : {39, 40, 80},
   mirrored : {TRUE}]
=============================================================================
