----------------------------- MODULE MCOtgImage -----------------------------
(* Small instances of OtgSet: every way to misplace at most one word in each *)
(* place where the linker pads, and images from a factory.                   *)
EXTENDS OtgVpd

CONSTANTS r1, r2
MCRuns   == {r1, r2}
MCParams == (r1 :> {"mac0", "vpd", "vpdext"} @@ r2 :> {"mac1", "mac2", "vpdstd"})
MCMacs   == {"built", "new"}
MCFragile == {MAC0, MFR_CRC}

MCLayouts1 == [offset : {17, 18}, size : {6, 7},
               pad : 0..1, start : 0..1, mid : 0..1, gap : 0..1]
MCLayouts2 == [size : 3..5, tail : 0..1]

Plain1 == [offset |-> 17, size |-> 6, pad |-> 0, start |-> 0, mid |-> 0, gap |-> 0]
Plain2 == [size |-> 4, tail |-> 0]

\* "built" is laid out as in otg_dummy.c.  "b" has its checksum right before the
\* end of its area, which info takes for wrong, and "c" is cut off.
Content(id, ro, fill, rw, ended) ==
    [id |-> id, ro |-> ro, fill |-> fill, rw |-> rw, ended |-> ended]
MCContents ==
    ("built" :> Content(<<66>>, <<[kw |-> PN, data |-> <<67>>]>>, 6,
                        <<[kw |-> YA, data |-> <<68>>], [kw |-> RW, data |-> Blank(2)]>>, TRUE)
     @@ "made" :> Content(<<66, 67>>, << >>, 8, << >>, TRUE)
     @@ "a" :> Content(<<65>>, <<[kw |-> PN, data |-> <<65, 66>>], [kw |-> SN, data |-> << >>]>>,
                       6, << >>, TRUE)
     @@ "b" :> Content(<<65, 66>>, <<[kw |-> SN, data |-> <<66>>]>>, 0,
                       <<[kw |-> YA, data |-> <<65>>]>>, TRUE)
     @@ "c" :> Content(<<67>>, << >>, 6, << >>, FALSE))
MCVpds == {[name |-> "a", size |-> 1], [name |-> "b", size |-> 2], [name |-> "c", size |-> 1]}

\* Images with an extended VPD of two words, whose second manufacturing CRC was
\* never right: alone, and before another one.
Stage2    == S2Write(Link2(Plain2), 1)
Unstamped(second) ==
    Append(PWrite(PWrite(Link1(Plain1, <<"version", "OTG">>, Stage2), 5,
                         Entry("extVPD", 2, 29)), 6, second),
           Vpd([name |-> "made", size |-> 2]))
Stamped(f) == PWrite(FoldLeft(S1Write, f, <<1, 2, 3, 4, 5>>), MFR2_CRC, Zero)
MCFactory ==
    {Stamped(Unstamped(Entry("none", 0, 0))),
     Stamped(Append(Unstamped(Entry("extVPD", 1, 30)), Vpd([name |-> "a", size |-> 1])))}

=============================================================================
