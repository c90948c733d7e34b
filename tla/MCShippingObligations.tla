----------------------- MODULE MCShippingObligations -----------------------
(* Small instances of ShippingObligations for TLC.                          *)
EXTENDS ShippingObligations, TLC

CONSTANTS o1, o2

\* Stores, waivers and options name nothing or the second order.
NoneOrSecond == {{}, {o2}}

\* The first order is due on the first day, the second on any.
FirstIsDueFirst == planned[o1] = 1
==============================================================================
