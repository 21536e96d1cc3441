----------------------------- MODULE MCSession ------------------------------
(* Two slots, one of them a bridge's, and one replacement of a device. *)
EXTENDS Session

Full == AllFields
MCFillResults == {Full, Full \ {"sizes", "parent"}, {"ident"}}
MCGaps == {{}, {"parent", "driver", "resources", "capabilities"}}

=============================================================================
