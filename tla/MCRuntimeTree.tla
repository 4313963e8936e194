---------------------------- MODULE MCRuntimeTree ----------------------------
(* Two children, one of them read-only, compete for a slot.                *)
EXTENDS RuntimeTree

CONSTANTS writer, reader

MCKids     == {writer, reader}
MCReadOnly == {reader}
=============================================================================
