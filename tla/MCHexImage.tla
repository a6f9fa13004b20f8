----------------------------- MODULE MCHexImage -----------------------------
(* HexImage on a flash of three bytes in pages of four: data at every      *)
(* address with lengths up to the flash and one beyond, two bases, and one *)
(* line of every way to be wrong.                                          *)
EXTENDS HexImage

MCLine(t, c, a, u) == [type |-> t, count |-> c, address |-> a, upper |-> u]

MCLines ==
    {MCLine("data", c, a, 0) : c \in 0..2, a \in 0..2}
        \cup {MCLine("data", 4, 0, 0), MCLine("data", 1, 3, 0)}
        \cup {MCLine("base", 2, 0, u) : u \in 0..1}
        \cup {MCLine("base", 2, 1, 0), MCLine("base", 1, 0, 0)}
        \cup {MCLine("eof", 0, 0, 0), MCLine("eof", 1, 0, 0), MCLine("eof", 0, 1, 0)}
        \cup {MCLine("other", 0, 0, 0), MCLine("bad", 0, 0, 0)}
=============================================================================
