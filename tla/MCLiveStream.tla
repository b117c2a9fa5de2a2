---------------------------- MODULE MCLiveStream ----------------------------
(***************************************************************************)
(* Two consumers of a server that is started twice.                        *)
(***************************************************************************)
EXTENDS LiveStream

=============================================================================
