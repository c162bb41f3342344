------------------------------ MODULE MCSystem ------------------------------
(* Instances of System for TLC. *)
EXTENDS System, TLC

CONSTANTS a, b, m

Walk == <<[x |-> 3, y |-> -2, buttons |-> {"L"}], [x |-> -31, y |-> 0, buttons |-> {}],
          [x |-> 1, y |-> 31, buttons |-> {"R"}], [x |-> 0, y |-> -1, buttons |-> {}]>>

Only(driver) == [drivers |-> {driver}, others |-> {0}, tasks |-> {a, b}]

ManyPrograms == {Only("serial"), Only("console"), Only("disk"),
                [drivers |-> {"serial", "mouse"}, others |-> {}, tasks |-> {a}],
                [Only("x11") EXCEPT !.drivers = {"x11", "windows"}],
                [Only("x11") EXCEPT !.drivers = {"x11", "windows", "events"}],
                [Only("x11") EXCEPT !.drivers = {"x11", "colors"}, !.tasks = {a}],
                [Only("x11") EXCEPT !.drivers = {"graphics"}, !.tasks = {a}],
                [Only("text") EXCEPT !.tasks = {a}],
                [Only("print") EXCEPT !.tasks = {a}],
                Only("buffers"), Only("fat"), Only("idle"),
                [drivers |-> {"boot"}, others |-> {}, tasks |-> {}]}

\* Columns at both ends of the bytes of a line, and within them
ByteEnds == {0, 6, 7, 8, 15, 16}

\* Two characters, the one with its first and last pixels set
TwoGlyphs == {{<<0, 0>>, <<7, 7>>, <<3, 4>>}, {<<1, 6>>}}

\* Bitmaps with clear padding: one narrower, one wider than a byte
TwoBitmaps == {[w |-> 3, h |-> 2, set |-> {<<0, 0>>, <<2, 1>>}],
               [w |-> 10, h |-> 1, set |-> {<<0, 0>>, <<6, 0>>, <<7, 0>>, <<8, 0>>, <<9, 0>>}]}

\* A .EXE of `size` bytes, in sectors of four: a header of seven bytes
\* with a relocation table at its second
Exe(size) == [type |-> "exe", size |-> size, fileBlocks |-> (size + 3) \div 4,
              relOffset |-> 1, relBytes |-> 4, header |-> 7]

\* A COFF program: two bytes of .text, five of .data and three of .bss
Coff == [type |-> "coff", text |-> [size |-> 2, paddr |-> 1], data |-> [size |-> 5, paddr |-> 5],
         bss |-> [size |-> 3, paddr |-> 11]]

Floppy == [totalSectors |-> 20, spc |-> 1, hiddenSectors |-> 0, sectorsPerFAT |-> 8, nFATs |-> 2,
           directory |-> <<<<"other">>, <<"other", "kernel">>>>, chain |-> <<2, 3, 4, 5>>, end |-> 4095, kernel |-> Exe(14)]

\* Chains in order and out of it, of sectors and of pairs of them, with FAT12
\* and FAT16; ended as they should be, by a bad cluster or by a free one; and
\* one of four sectors to a cluster, the last of which reaches the relocation table
SomeDisks ==
    {[Floppy EXCEPT !.chain = c, !.end = e, !.kernel = k] :
        c \in {<<2, 3, 4, 5>>, <<5, 19, 3, 2>>}, e \in {4088, 4095, 4087, 4080, 0}, k \in {Exe(14), Exe(16), Coff}}
    \cup {[Floppy EXCEPT !.chain = c, !.spc = 2, !.totalSectors = t, !.end = IF t = 20 THEN 4095 ELSE 65535, !.kernel = k] :
            c \in {<<3, 2>>, <<4, 5>>}, t \in {20, 8174}, k \in {Exe(13), Coff}}
    \cup {[Floppy EXCEPT !.chain = <<3>>, !.end = 4087],
          [Floppy EXCEPT !.chain = <<3, 2>>, !.spc = 4, !.totalSectors = 40, !.kernel = Exe(17)],
          [Floppy EXCEPT !.directory = <<<<"other", "label">>, <<"kernel">>>>],
          [Floppy EXCEPT !.directory = <<<<"other">>>>],
          [Floppy EXCEPT !.kernel = [type |-> "none"]]}

\* Corners of windows and rectangles, and paths of three points
TwoOrigins == {<<0, 0>>, <<5, 3>>}
ManyPoints == {<<p, q, r>> : p \in {<<1, 1>>, <<9, 4>>}, q \in {<<1, 1>>, <<9, 4>>, <<2, 0>>}, r \in {<<1, 1>>, <<3, 6>>}}

\* Texts of x and y with line feeds, returns and a form feed
SomeTexts == {<<120>>, <<121, 10>>, <<13, 121>>, <<120, 121, 120, 10>>, <<12>>}

\* Numerals at the ends of their ranges and of their groups of digits
Dec(v) == [conv |-> "i", val |-> v]
Lng(v) == [conv |-> "l", val |-> v]
Hex(v) == [conv |-> "x", val |-> v]
Str(text) == [conv |-> "s", text |-> text]
SomeFormats ==
    {<<Dec(v)>> : v \in {-32768, -100, 0, 9, 305, 9999, 10020, 32767}}
    \cup {<<Lng(v)>> : v \in {-2147483647, -1, 0, 10005, 99999999, 100000005, 100010005, 1230000456}}
    \cup {<<Hex(v)>> : v \in {0, 10, 160, 2570, 4095, 61453}}
    \cup {<<Str(<<88, 61>>), Dec(-5), Str(<<32>>), Hex(171)>>}

SomeOffsets == {0, 1, -1, 2}

Corners == {[x |-> 0, y |-> 0, w |-> 2, h |-> 2]}

\* Black and two shades of grey
Greys == <<0, 1381653, 2763306>>

Symmetry == Permutations({a, b})
=============================================================================
