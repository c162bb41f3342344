------------------------------- MODULE Printk --------------------------------
(***************************************************************************)
(* The formatted output of litetask's kernel, kernel/clib: doprint.c,      *)
(* which turns values into characters, printk.c, which sends them to the   *)
(* screen and to a ring in memory, and sprintf.c, which stores them.       *)
(*                                                                         *)
(* A format is the sequence of its pieces: numbers with their conversion,  *)
(* and texts (%s, %c and what stands between).                             *)
(***************************************************************************)
EXTENDS Text

CONSTANTS
    Formats,        \* bound: the formats programs print
    RingSizes,      \* bound: the sizes of the ring in memory
    MaxPrinted      \* bound: the formats printed with printk()

ASSUME PrintAssumption == RingSizes \subseteq Nat \ {0}

VARIABLES
    pDrv,           \* whether printk() writes to the text driver
    pBuf,           \* NULL, or the memory of the ring
    bufferSize,     \* its size
    bufferLoc,      \* the place of the next character
    printed         \* history: NULL, or the last format and how it was printed

printVars == <<pDrv, pBuf, bufferSize, bufferLoc, printed>>

PrintInit == pDrv = FALSE /\ pBuf = NULL /\ bufferSize = 0 /\ bufferLoc = 0 /\ printed = NULL

-----------------------------------------------------------------------------
(* doprint.c.                                                              *)

Minus == 45

\* The character of a digit
Char(digit) == (IF digit > 9 THEN digit - 10 + 65 ELSE digit + 48) % 256

\* The digits of val at these places and at that of the units, from the first
\* that is not zero on; from the second in any case with doZero
Digits(places, val, doZero) ==
    LET next(s, k) == IF s.val >= places[k] \/ (s.zero /\ k > 1)
                      THEN [text |-> Append(s.text, Char(s.val \div places[k])), val |-> s.val % places[k], zero |-> TRUE]
                      ELSE s
        at[k \in 0 .. Len(places)] == IF k = 0 THEN [text |-> <<>>, val |-> val, zero |-> doZero] ELSE next(at[k - 1], k)
        s == at[Len(places)]
    IN  Append(s.text, Char(s.val))

MinInt == -32768

\* The smallest integer is its own negative: it has a sign and no digit but the last
doInt(val, doZero) ==
    LET decimal == <<10000, 1000, 100, 10>>
    IN  IF val = MinInt THEN <<Minus>> \o Digits(decimal, MinInt, doZero)
        ELSE IF val < 0 THEN <<Minus>> \o Digits(decimal, -val, doZero)
        ELSE Digits(decimal, val, doZero)

\* Faulty: the zeros of the lowest four digits are left out
doLongBare(lval) ==
    LET v == IF lval < 0 THEN -lval ELSE lval
        high == v \div 100000000
        med == (v % 100000000) \div 10000
    IN  (IF lval < 0 THEN <<Minus>> ELSE <<>>)
        \o (IF high # 0 THEN doInt(high, FALSE) ELSE <<>>)
        \o (IF med # 0 THEN doInt(med, high # 0) ELSE <<>>)
        \o doInt(v % 10000, FALSE)

\* In three parts, of which the middle one is left out when it is zero
doLong(lval) ==
    LET v == IF lval < 0 THEN -lval ELSE lval
        high == v \div 100000000
        med == (v % 100000000) \div 10000
    IN  (IF lval < 0 THEN <<Minus>> ELSE <<>>)
        \o (IF high # 0 THEN doInt(high, FALSE) ELSE <<>>)
        \o (IF med # 0 THEN doInt(med, high # 0) ELSE <<>>)
        \o doInt(v % 10000, high # 0 \/ med # 0)

doHex(val) == Digits(<<4096, 256, 16>>, val, FALSE)

Piece(p) ==
    CASE p.conv = "i" -> doInt(p.val, FALSE)
      [] p.conv = "l" -> doLong(p.val)
      [] p.conv = "x" -> doHex(p.val)
      [] p.conv = "s" -> p.text

\* The characters of the pieces, one after the other
Joined(piece(_), fmt) ==
    LET upTo[k \in 0 .. Len(fmt)] == IF k = 0 THEN <<>> ELSE upTo[k - 1] \o piece(fmt[k])
    IN  upTo[Len(fmt)]

doPrint(fmt) == Joined(Piece, fmt)

-----------------------------------------------------------------------------
(* The calls.                                                              *)

\* The ring after a text.  The place is compared with the size when it has been
\* written to
Ring(text) ==
    LET next(r, c) == [buf |-> [r.buf EXCEPT ![r.loc] = c],
                       loc |-> IF r.loc + 1 >= bufferSize THEN 0 ELSE r.loc + 1]
        at[k \in 0 .. Len(text)] == IF k = 0 THEN [buf |-> pBuf, loc |-> bufferLoc] ELSE next(at[k - 1], text[k])
    IN  at[Len(text)]

\* Each character to the screen, by the driver or the BIOS, and to the ring
printk(t, fmt) ==
    LET text == doPrint(fmt)
    IN  /\ Idle(t) /\ written < MaxPrinted
        /\ IF pDrv THEN Show(text) ELSE UNCHANGED <<textX, textY, textScreen, page>>
        /\ IF pBuf = NULL THEN UNCHANGED <<pBuf, bufferLoc>>
           ELSE pBuf' = Ring(text).buf /\ bufferLoc' = Ring(text).loc
        /\ printed' = [fmt |-> fmt, text |-> text, kept |-> pBuf # NULL, strayed |-> bufferLoc >= bufferSize]
        /\ written' = written + 1
        /\ Leave(t, Len(text))
        /\ UNCHANGED <<pDrv, bufferSize, curMode, oldMode, width, biosMode>>

\* With the null that ends the string counted
sprintf(t, fmt) ==
    /\ Idle(t)
    /\ printed' = [fmt |-> fmt, text |-> doPrint(fmt), kept |-> FALSE, strayed |-> FALSE]
    /\ Leave(t, Len(doPrint(fmt)) + 1)
    /\ UNCHANGED <<pDrv, pBuf, bufferSize, bufferLoc, textVars>>

\* The place stays where it was.  The rings are the first part of one memory
setPrintk(t, drv, size) ==
    /\ Idle(t)
    /\ pDrv' = drv
    /\ bufferSize' = size
    /\ pBuf' = IF size = 0 THEN NULL ELSE [i \in 0 .. 64 |-> Blank]
    /\ printed' = NULL
    /\ Leave(t, 0)
    /\ UNCHANGED <<bufferLoc, textVars>>

PrintStep(t) ==
    \/ \E fmt \in Formats : printk(t, fmt) \/ (written = 0 /\ sprintf(t, fmt))
    \/ \E drv \in BOOLEAN, size \in {0} \cup RingSizes : setPrintk(t, drv, size)

-----------------------------------------------------------------------------
(* Properties.                                                             *)

\* The numeral of v: as few digits as its value needs
Numeral(v, base) ==
    LET abs == IF v < 0 THEN -v ELSE v
        n == CHOOSE k \in 1 .. 10 : abs \div base ^ (k - 1) < base /\ \A j \in 1 .. k - 1 : abs \div base ^ (j - 1) >= base
        digits == [k \in 1 .. n |-> Char((abs \div base ^ (n - k)) % base)]
    IN  IF v < 0 THEN <<Minus>> \o digits ELSE digits

\* What a piece says.  The smallest integer is printed as -0, and a long number
\* loses the four digits in its middle if they are zeros below others
Said(p) ==
    CASE p.conv = "s" -> p.text
      [] p.conv = "x" -> Numeral(p.val, 16)
      [] p.conv = "i" /\ p.val = MinInt -> <<Minus, Char(0)>>
      [] OTHER ->
            LET digits == Numeral(p.val, 10)
                n == Len(digits)
            IN  IF p.conv = "l" /\ n > 8 /\ \A k \in n - 7 .. n - 4 : digits[k] = Char(0)
                THEN [k \in 1 .. n - 4 |-> IF k <= n - 8 THEN digits[k] ELSE digits[k + 4]]
                ELSE digits

\* What is printed are the numerals and texts of the format, and the ring ends in
\* the last of its characters: all that there is room for, and all but the
\* first if the ring was replaced by one that ends before the place it was at.
PrintkKeeps ==
    printed # NULL =>
        LET said == Joined(Said, printed.fmt)
            n == Len(said) - IF printed.strayed THEN 1 ELSE 0
        IN  /\ printed.text = said
            /\ printed.kept =>
                \A k \in 1 .. IF n < bufferSize THEN n ELSE bufferSize :
                    pBuf[(bufferLoc - k) % bufferSize] = said[Len(said) + 1 - k]
=============================================================================
