------------------------------- MODULE Format -------------------------------
(***************************************************************************)
(* ngx_vslprintf and ngx_sprintf_num of app/ngx_printf.cxx: a format and   *)
(* its arguments are expanded into a buffer that ends at last.             *)
(*                                                                         *)
(* A format is a sequence of items: an ordinary character, or a directive  *)
(* with what its flags, width and precision say and the argument it takes  *)
(* from the list.  The buffer is the sequence of what has been written.    *)
(* A floating-point argument is given in 32nds, which a double holds       *)
(* exactly.                                                                *)
(***************************************************************************)
EXTENDS Integers, FiniteSets, Sequences

CONSTANTS
  Char,               \* the characters
  NGX_MAX_ERROR_STR,  \* the room in a buffer
  UintModulus,        \* 2^32
  ScaleModulus,       \* 2^64
  Int64Len            \* NGX_INT64_LEN, digits that ngx_sprintf_num has room for

HexDigits == <<"1", "2", "3", "4", "5", "6", "7", "8", "9", "a", "b", "c", "d", "e", "f">>
HEXDigits == <<"1", "2", "3", "4", "5", "6", "7", "8", "9", "A", "B", "C", "D", "E", "F">>
NumberChars ==
  {"0", " ", "-", "."} \cup {HexDigits[d] : d \in 1..15} \cup {HEXDigits[d] : d \in 1..15}

ASSUME FormatAssumption ==
  /\ NumberChars \subseteq Char
  /\ {NGX_MAX_ERROR_STR, UintModulus, ScaleModulus, Int64Len} \subseteq Nat \ {0}

\* conv is the letter that ends a directive, "char" for an ordinary character (and for
\* %%, and for a directive that the default branch copies), "end" for a directive
\* that the end of the format cuts off.
Item == [conv : {"char", "d", "P", "s", "f", "end"}, char : Char, num : Int,
         str : Seq(Char), signed : BOOLEAN, zero : {"0", " "}, width : Nat,
         frac : Nat, hex : 0..2]

VARIABLES
  fmt,          \* the format with its arguments
  pos,          \* how far it has been read
  buf,          \* what is in the buffer
  astray        \* the format has been read beyond its end

formatVars == <<fmt, pos, buf, astray>>

-----------------------------------------------------------------------------
(* ngx_sprintf_num *)

Least(m, n) == IF m <= n THEN m ELSE n

Digit(hex, d) ==
  IF d \in 1..15 THEN IF hex = 2 THEN HEXDigits[d] ELSE HexDigits[d] ELSE "0"

\* The digits, which the code writes from the last one to the first.
Numeral(n, hex) ==
  LET base == IF hex = 0 THEN 10 ELSE 16
      len  == 1 + Cardinality({k \in 1..(Int64Len - 1) : base^k <= n})
  IN [k \in 1..len |-> Digit(hex, (n \div base^(len - k)) % base)]

\* What fits of a string, copied behind b.
CopyTo(b, s) == b \o SubSeq(s, 1, Least(Len(s), NGX_MAX_ERROR_STR - Len(b)))

\* What a number of len digits has in front.  The code counts with len itself.
Padding(len, zero, width) == [k \in 1..(IF len < width THEN width - len ELSE 0) |-> zero]

SprintfNum(b, n, zero, hex, width) ==
  LET digits == Numeral(n, hex)
  IN CopyTo(CopyTo(b, Padding(Len(digits), zero, width)), digits)

-----------------------------------------------------------------------------
(* ngx_vslprintf *)

Magnitude(n) == IF n < 0 THEN -n ELSE n

Minus(n) == IF n < 0 THEN <<"-">> ELSE <<>>

\* A sign is written whenever it is needed: the loop has seen room for one character.
Sign(b, n) == b \o Minus(n)

\* u, x and X make %d unsigned, but not %P.
Argument(item) ==
  IF item.conv = "P" \/ item.signed THEN item.num ELSE item.num % UintModulus

Integer(b, item) ==
  LET n == Argument(item)
  IN SprintfNum(Sign(b, n), Magnitude(n), item.zero, item.hex, item.width)

\* The factor is a product in 64 bits: exact up to 19 digits, 0 from 64 digits on.
Scale(frac) == 10^frac % ScaleModulus

\* The fraction is rounded to frac digits, ...
Rounded(item) == ((Magnitude(item.num) % 32) * Scale(item.frac) + 16) \div 32
Carry(item) == item.frac > 0 /\ Rounded(item) = Scale(item.frac)

\* ... and may carry.
Whole(item) == Magnitude(item.num) \div 32 + IF Carry(item) THEN 1 ELSE 0
Fraction(item) == IF Carry(item) THEN 0 ELSE Rounded(item)

Float(b, item) ==
  LET front == SprintfNum(Sign(b, item.num), Whole(item), item.zero, 0, item.width)
  IN IF item.frac = 0 THEN front
     ELSE SprintfNum(CopyTo(front, <<".">>), Fraction(item), "0", 0, item.frac)

\* Mutant: the terminator of the format is all the loop looks at.
MoreToExpand_Unbounded == pos <= Len(fmt) /\ ~astray

MoreToExpand == pos <= Len(fmt) /\ Len(buf) < NGX_MAX_ERROR_STR /\ ~astray

\* One turn of the loop.
Turn ==
  LET item == fmt[pos] IN
  /\ MoreToExpand
  /\ pos' = pos + 1
  /\ buf' = CASE item.conv = "char"       -> Append(buf, item.char)
              [] item.conv \in {"d", "P"} -> Integer(buf, item)
              [] item.conv = "s"          -> CopyTo(buf, item.str)
              [] item.conv = "f"          -> Float(buf, item)
              [] OTHER                    -> buf
  /\ astray' = (item.conv = "end")
  /\ UNCHANGED fmt

-----------------------------------------------------------------------------
(* What a format gives, whatever the room *)

Number(n, zero, hex, width) ==
  LET digits == Numeral(n, hex) IN Padding(Len(digits), zero, width) \o digits

Text(item) ==
  CASE item.conv = "char" -> <<item.char>>
    [] item.conv \in {"d", "P"} ->
         LET n == Argument(item)
         IN Minus(n) \o Number(Magnitude(n), item.zero, item.hex, item.width)
    [] item.conv = "s" -> item.str
    [] item.conv = "f" ->
         Minus(item.num) \o Number(Whole(item), item.zero, 0, item.width)
           \o IF item.frac = 0 THEN <<>>
              ELSE <<".">> \o Number(Fraction(item), "0", 0, item.frac)
    [] OTHER -> <<>>

\* The text of the first k items of a format, behind some prefix.
Texts(prefix, format) ==
  LET text[k \in 0..Len(format)] ==
        IF k = 0 THEN prefix ELSE text[k - 1] \o Text(format[k])
  IN text
=============================================================================
