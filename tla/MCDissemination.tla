--------------------------- MODULE MCDissemination ---------------------------
(* Dissemination from one origin.                                           *)
EXTENDS Dissemination

CONSTANTS r1
OneRouter == {r1}
NameAndAdj == {"NAME", "ADJ"}
==============================================================================
