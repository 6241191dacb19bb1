----------------------------- MODULE MCApiServer -----------------------------
(***************************************************************************)
(* Two requests at a time, three in all, and a trail of three earlier      *)
(* entries that a client reads in pages of one, of two or at once.  The    *)
(* environments set one thing each: one that is taken, one that an empty   *)
(* or odd text leaves alone, and one for every check that must reject it.  *)
(***************************************************************************)
EXTENDS ApiServer, TLC

CONSTANTS notANumber, w1, w2, m1, unknown, absent, invalid, unsafe, traceA

MCTrimLower ==
  ("8080" :> "8080") @@ ("9090" :> "9090") @@ (" " :> "") @@ ("info" :> "info")
    @@ (" WARN " :> "warn") @@ ("loud" :> "loud") @@ ("" :> "")

Accepted ==
  {"ShutdownTimeout" :> Empty @@ "DataFile" :> Empty @@ "LogLevel" :> Text(" WARN ")
     @@ "OverLimitRatio" :> Text(notANumber) @@ "MaxSamplesPerZone" :> Text(0)}

Rejected ==
  {"Port" :> Text(" "), "LogLevel" :> Text("loud"), "AlertDedupWindow" :> Text(0),
   "InvalidRatioThreshold" :> Text(0), "InvalidRatioThreshold" :> Text(101),
   "InvalidRatioWindow" :> Text(0), "OverLimitRatio" :> Text(99),
   "MaxSamplesPerZone" :> Text(-1), "MaxSamplesPerZone" :> Garbage,
   "AutoInterlockAfter" :> Garbage}

MCEnvironments == Accepted \cup Rejected
\* The first and the last request come with the same trace id.
MCHeaderOf == <<traceA, unsafe, traceA>>
MCSymmetry == Permutations(Workers)
MCLimits == {0, 9, absent, invalid}
=============================================================================
