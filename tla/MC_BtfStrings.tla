---------------------------- MODULE MC_BtfStrings ----------------------------
(* An instance of BtfStrings for TLC: sections of up to three strings.       *)
EXTENDS BtfStrings

SomeStrings == {<<0>> \o s : s \in UNION {[1 .. n -> 0 .. 2] : n \in 0 .. 3}}
=============================================================================
