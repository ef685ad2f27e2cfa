------------------------------ MODULE MCProcess ------------------------------
(* Three connections and two descriptors.                                    *)
EXTENDS Process
=============================================================================
