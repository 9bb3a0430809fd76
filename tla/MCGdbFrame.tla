----------------------------- MODULE MCGdbFrame -----------------------------
(***************************************************************************)
(* The markers; '!' and '}' as counts of 4 and 96, and 4, which is an      *)
(* escaped '$' and no count; 'a'.  Wrong digits: 'a' and '$'.  Messages of *)
(* up to two units, whose counts are those of '!' and '}'.                 *)
(***************************************************************************)
EXTENDS GdbFrame

MCChars == Markers \cup {33, 4, 97}

MCDigits == {97, 36}

MCUnit == [char : Markers \cup {97}, more : {0, 4, 96}]
MCMessages == {<<>>} \cup {<<u>> : u \in MCUnit} \cup {<<u, v>> : u, v \in MCUnit}
=============================================================================
