--------------------------- MODULE MCRequestParser ---------------------------
(* The shortest request has 15 bytes, and a header adds 5, or 9 when it is   *)
(* continued on a line with one byte of text: 25 bytes leave room for that   *)
(* and for two headers, 4 kept bytes for an escape in a URI and one more.    *)
EXTENDS RequestParser, TLC
=============================================================================
