--------------------------- MODULE MCConfigCache ---------------------------
(* Three offsets, two device states: a byte is the pair of the offset it was *)
(* read at and the state of the device when it was read.                    *)
EXTENDS ConfigCache

MCOffset == 0..2
MCGen == {0, 1}
MCByte == MCOffset \X MCGen
MCContents == [o \in MCOffset |-> {o} \X MCGen]
=============================================================================
