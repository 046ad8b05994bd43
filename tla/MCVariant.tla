----------------------------- MODULE MCVariant -----------------------------
(* One seed, whose names nothing else shares; an edit narrows or widens a
   choice, and drops or adds a parameter. *)
EXTENDS Variant, TLC

CONSTANTS pack, size, a, b

MCParams == {pack, size}
MCValues == {a, b}
Choice(of) == [type |-> "choice", of |-> of, default |-> None]
Text(d) == [type |-> "string", of |-> <<>>, default |-> d]

MCManifests ==
    { (pack :> Choice(<<b>>)),
      (pack :> Choice(<<a, b>>)) @@ (size :> Text(a)) }

MCPins == {<<>>, (pack :> a), (pack :> b), (size :> b)}
MCDrawn == [s \in Seeds |-> [n \in MCParams |-> [k \in 1..2 |-> IF n = pack THEN k ELSE 1]]]
=============================================================================
