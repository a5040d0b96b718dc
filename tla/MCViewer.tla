------------------------------ MODULE MCViewer ------------------------------
(* A small instance of Viewer for TLC. *)
EXTENDS Viewer
=============================================================================
