---------------------------- MODULE MC_XmlParser ----------------------------
(***************************************************************************)
(* Requests of up to two children over one account id and one symbol.    *)
(* The number texts cover a negative, zero and positive amount, a         *)
(* non-canonical spelling and "NaN", both of which ParseFloat accepts,    *)
(* one it rejects, and the empty attribute.                               *)
(***************************************************************************)
EXTENDS XmlParser

CONSTANTS u1, s1

MCUids == {u1}
MCSyms == {s1}
MCNumTexts == {"-1", "0", "2", "2e0", "NaN", "two", ""}
MCIdTexts == {"1"}
=============================================================================
