---------------------------- MODULE MCLspDocSync ----------------------------
(* Instances of LspDocSync for TLC. *)
EXTENDS LspDocSync

OneDoc == {1}
TwoDocs == {1, 2}
=============================================================================
