------------------------------ MODULE MCUploads ------------------------------
(* A small instance of Uploads.                                              *)
EXTENDS Uploads

CONSTANTS t1, t2
=============================================================================
