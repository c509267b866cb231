--------------------------- MODULE MCEventMonitor ---------------------------
(* Constants of the TLC runs of EventMonitor. *)
EXTENDS EventMonitor

(* Every block has a log of every contract, but block 2 has none of the    *)
(* contract added later.                                                   *)
MCEmits == (Heights \X Addresses) \ {<<2, "late">>}

(* The log of the later contract in block 1 has no topics. *)
MCAnonymous == {<<1, "late">>}
=============================================================================
