-------------------------- MODULE MCBridgeWindows ---------------------------
(* 32 addresses stand for 2^32 and 64 for 2^64, and a last digit has two
   values; a granule of the I/O window is less than Mega, as 2^12 is. *)
EXTENDS BridgeWindows

MCWindows == {"io", "memory", "prefetchable"}
MCScale == [io |-> 2, memory |-> 4, prefetchable |-> 4]
MCSteps == [io |-> 16, memory |-> 8, prefetchable |-> 16]
MCWidth == [text |-> [io |-> 32, memory |-> 32, prefetchable |-> 64],
            json |-> [w \in MCWindows |-> 64]]

=============================================================================
