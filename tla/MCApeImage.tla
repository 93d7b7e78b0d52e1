----------------------------- MODULE MCApeImage -----------------------------
(* Images of two sections and a BSS, the first of any contents up to a      *)
(* length; and images that apestamp has to refuse.                          *)
EXTENDS ApeImage

CONSTANT MaxLen
MCChar == {0, 1}
TrailingCRC == <<2, 3>> \* the placeholder of the trailing CRC
Good  == {Linked(<<s, <<1, 0>> \o TrailingCRC>>, 2) :
              s \in UNION {[1..n -> MCChar] : n \in {W * i : i \in 0..MaxLen \div W}}}
Odd   == Linked(<<<<0, 0>>, <<1, 1>> \o TrailingCRC>>, 2)
Refused ==
    {[Odd EXCEPT !.right = {}], [Odd EXCEPT !.sections = <<Raw(2, 2), Bss(8, 2)>>]}
    \union {[Odd EXCEPT !.sections[1] = x] :
            x \in {Raw(4, 2), Raw(2, 3), Raw(2, 10), [Raw(2, 2) EXCEPT !.comp = 1],
                   [Raw(2, 2) EXCEPT !.csize = 2], [Raw(2, 2) EXCEPT !.sum = Zero]}}
    \union {[Odd EXCEPT !.sections[3] = x] :
            x \in {[Bss(8, 2) EXCEPT !.comp = 1], [Bss(8, 2) EXCEPT !.csize = 2], [Bss(8, 2) EXCEPT !.crc32 = 1],
                   [Bss(8, 2) EXCEPT !.sum = Placeholder]}}
MCImages == Good \union Refused
=============================================================================
