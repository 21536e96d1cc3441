--------------------------- MODULE MCConfigReader ---------------------------
(* Offsets 0..6 with MIN_READ_BLOCK scaled from 16 to 2 and c_int's limit    *)
(* from 2^31-1 to 5, so that a request may have to be split twice, may not   *)
(* fit a c_int, may be empty and may overflow.                               *)
EXTENDS ConfigReader

MCRequests == {<<0, 7>>, <<0, 4>>, <<2, 3>>, <<5, 2>>, <<3, 0>>, <<4, 4>>}
=============================================================================
