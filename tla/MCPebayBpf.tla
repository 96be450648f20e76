------------------------------ MODULE MCPebayBpf ------------------------------
(* The update of pebay_bpf.h and, beneath it, the double words of u128.h.  *)
EXTENDS PebayBpf

MCValues == {0, 1, 3, 5, 7}

(* A stall at the saturation limit among fast completions. *)
MCStalls == {0, 15}

(* Zero, one, the signed words at the ends, minus two and minus one. *)
MCEdges == {0, 1, W \div 2 - 1, W \div 2, W - 2, W - 1}
===============================================================================
