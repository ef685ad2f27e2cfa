--------------------------- MODULE MCSoundLibrary ---------------------------
(* Two sounds in each catalogue and silence: a fade between any two of them  *)
(* can be interrupted by a request for the third, or for one of its own ends. *)
(* One foreground file cannot be decoded.                                    *)
EXTENDS SoundLibrary, TLC

CONSTANTS f1, f2, b1, b2

MCForeground == {f1, f2}
MCBackground == {b1, b2}
MCUnloadable == {f2}

=============================================================================
