--------------------------- MODULE MCLeadership ---------------------------
(***************************************************************************)
(* Two plain Controller starts and one passive standby: three processes    *)
(* are the least that can pass one clean-shutdown record on twice.         *)
(***************************************************************************)
EXTENDS Leadership, TLC

CONSTANTS a, b, standby

MCProcs == {a, b, standby}
MCPassive == {standby}
===========================================================================
