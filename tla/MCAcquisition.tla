---------------------------- MODULE MCAcquisition ----------------------------
(* Five heights: batches of two for BTC, flushes of two for the seed and     *)
(* chunks of two for a node, two full ones and a short one each, and answers *)
(* of monerod that leave out any of them; a budget that runs out in front of *)
(* the last height.                                                          *)
EXTENDS Acquisition
==============================================================================
