----------------------------- MODULE MCIsoDownload -----------------------------
(* Three requests for one image of two chunks, and a restart. *)
EXTENDS IsoDownload
=============================================================================
