--------------------------- MODULE MCOtaDownload ----------------------------
(* Instances of OtaDownload for TLC: keys "k" (trusted) and "x". *)
EXTENDS OtaDownload

CONSTANT New \* the build that is rolled out

Old   == <<0, 10>>
Good  == <<New, 10, 11>>
Dud   == <<3, 10>>

MCImages == {Old, Good, Dud}
MCFloor  == [b \in BuildIds |-> IF b = 0 THEN 1 ELSE 2]

MCHeaders ==
  {SignImage("k", Good, New, 2), SignImage("k", Dud, 3, 2),
   SignImage("k", Old, 0, 0),
   SignImage("x", Good, New, 2),
   [SignImage("k", Good, New, 2) EXCEPT !.form = "version"],
   [SignImage("k", Dud, 3, 0) EXCEPT !.body.security = 2]}
=============================================================================
