------------------------------- MODULE MCLog -------------------------------
\* Log with formats of up to three items, of every kind, around a buffer of twelve
\* characters, and what a line of the log should be, told without buffers.
EXTENDS Log, SequencesExt

MCChar == {"n", "t", ">", "a", "b", "c", "%", "\n", "(", ")"} \cup NumberChars

Plain == [conv |-> "char", char |-> "a", num |-> 0, str |-> <<>>, signed |-> TRUE,
          zero |-> " ", width |-> 0, frac |-> 0, hex |-> 0]
Int10(n, z, w) == [Plain EXCEPT !.conv = "d", !.num = n, !.zero = z, !.width = w]
Hex(n, h, w)   == [Plain EXCEPT !.conv = "d", !.num = n, !.hex = h, !.signed = FALSE,
                                !.width = w]
Str(s)         == [Plain EXCEPT !.conv = "s", !.str = s]
Real(n, w, p)  == [Plain EXCEPT !.conv = "f", !.num = n, !.width = w, !.frac = p]

\* Ordinary characters and %%; signed, unsigned and hexadecimal integers, with and
\* without width; a process id; strings; 12.96875 (which carries with one digit), -0.5,
\* 2.125 and 19.875; 19.875 with a precision whose scale wraps, and 2.125 with one whose
\* scale is 0.
MCItems ==
  {Plain, [Plain EXCEPT !.char = "%"],
   Int10(-37, " ", 0), Int10(120, "0", 5), Hex(-1, 1, 0), Hex(171, 2, 4),
   [Hex(-5, 1, 0) EXCEPT !.conv = "P"], Str(<<>>), Str(<<"a", "b", "c", "a", "b">>),
   Real(415, 0, 1), Real(-16, 0, 0), Real(68, 4, 2), Real(636, 0, 0), Real(636, 0, 3),
   Real(68, 0, 7), [Plain EXCEPT !.conv = "end"]}

MCFormats ==
  BoundedSeq(MCItems, 2)
    \cup [1..3 -> {Int10(-37, " ", 0), Int10(120, "0", 5), Real(68, 4, 2), Str(<<"a", "b", "c">>)}]

MCCalls ==
  [fn : {"ngx_log_stderr"}, fmt : MCFormats, err : {0, 4}, level : {0}]
    \cup [fn : {"ngx_log_error_core"}, fmt : MCFormats, err : {0, 4}, level : {6, 7}]

MCPrefix == <<"n">>
MCStamp  == <<"t", ">">>
MCErrInfo == [e \in {4} |-> <<"(", ")", " ">>]

-----------------------------------------------------------------------------
(* What an item means, told in another way: by recursion on the number, with the width and
   the fraction as numbers. *)

Decimals[n \in 0..2000] ==
  LET d == <<"0", "1", "2", "3", "4", "5", "6", "7", "8", "9">>[(n % 10) + 1]
  IN IF n < 10 THEN <<d>> ELSE Append(Decimals[n \div 10], d)

TwoHex(n, hex) ==
  LET glyph(d) == IF d < 10 THEN Decimals[d][1]
                  ELSE IF hex = 1 THEN <<"a", "b", "c", "d", "e", "f">>[d - 9]
                  ELSE <<"A", "B", "C", "D", "E", "F">>[d - 9]
  IN IF n < 16 THEN <<glyph(n)>> ELSE <<glyph(n \div 16), glyph(n % 16)>>

Filled(s, zero, width) == [k \in 1..(width - Len(s)) |-> zero] \o s

SignOf(n) == IF n < 0 THEN <<"-">> ELSE <<>>
Abs(n) == IF n < 0 THEN -n ELSE n

\* A precision that the scale has room for.  Beyond it there is no meaning to compare with.
Fits(item) == 10^item.frac < ScaleModulus

\* The value in units of the last digit that is shown, rounded half up.
Shown(item) == LET unit == 10^item.frac IN
  IF item.frac = 0 THEN Abs(item.num) \div 32 ELSE (Abs(item.num) * unit + 16) \div 32

Meaning(item) ==
  LET n == IF item.conv = "d" /\ ~item.signed THEN item.num % UintModulus ELSE item.num
      unit == 10^item.frac
  IN CASE item.conv = "char" -> <<item.char>>
       [] item.conv = "s" -> item.str
       [] item.conv \in {"d", "P"} ->
            SignOf(n) \o Filled(IF item.hex = 0 THEN Decimals[Abs(n)]
                               ELSE TwoHex(Abs(n), item.hex), item.zero, item.width)
       [] item.conv = "end" -> <<>>
       [] item.conv = "f" ->
            SignOf(n) \o Filled(Decimals[Shown(item) \div unit], item.zero, item.width)
                    \o (IF item.frac = 0 THEN <<>>
                       ELSE <<".">> \o Filled(Decimals[Shown(item) % unit], "0", item.frac))

\* Numbers of up to four digits, with and without sign, in every base and width, and the
\* numbers from -70/32 to 650/32 with up to two decimals.
MCNumbers ==
  {Int10(n, z, w) : n \in -110..1010, z \in {" ", "0"}, w \in {0, 3}}
    \cup {Hex(n, h, w) : n \in -9..255, h \in 0..2, w \in {0, 3}}
    \cup {Real(n, w, p) : n \in -70..650, w \in {0, 3}, p \in 0..2}

ASSUME TextsMean ==
  \A item \in MCItems \cup MCNumbers : Fits(item) => Text(item) = Meaning(item)
=============================================================================
