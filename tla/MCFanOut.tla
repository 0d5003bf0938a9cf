------------------------------ MODULE MCFanOut ------------------------------
(* Lists of boards for the instances of FanOut: Markets() in its sorted      *)
(* order, and one a caller of the library may pass.                          *)
EXTENDS FanOut

AllMarkets == <<"coin", "currency", "gold">>
WithUnknown == <<"gold", "unsupported", "gold">>
Lists == {AllMarkets, WithUnknown}
=============================================================================
