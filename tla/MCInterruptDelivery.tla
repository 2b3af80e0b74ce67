------------------------- MODULE MCInterruptDelivery -------------------------
(* Model of InterruptDelivery for TLC; the constants are in                  *)
(* MCInterruptDelivery.cfg and MCInterruptDeliveryLine8.cfg.                 *)
EXTENDS InterruptDelivery
=============================================================================
