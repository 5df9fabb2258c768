-------------------------- MODULE MCBitmapWriter --------------------------
(* Small instances of BitmapWriter. *)
EXTENDS BitmapWriter
=============================================================================
