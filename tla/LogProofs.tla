------------------------------ MODULE LogProofs ------------------------------
(***************************************************************************)
(* Proofs about Log, for any size of the buffer, any format, width,        *)
(* precision and argument, any error and any text: nothing is written      *)
(* beyond the end of a buffer, a line is what its call means as far as     *)
(* there is room, and what goes to the console goes to the log.            *)
(***************************************************************************)
EXTENDS Log, FiniteSetTheorems, SequenceTheorems, WellFoundedInduction, TLAPS

Buffer == {b \in Seq(Char) : Len(b) <= NGX_MAX_ERROR_STR}

LEMMA Sizes == NGX_MAX_ERROR_STR \in Nat /\ NGX_MAX_ERROR_STR > 2 /\ UintModulus \in Nat
               /\ UintModulus > 0 /\ Int64Len \in Nat
BY FormatAssumption, LogAssumption

\* Concatenation and the beginning of a sequence.
LEMMA ConcatType ==
  ASSUME NEW S, NEW s \in Seq(S), NEW t \in Seq(S)
  PROVE  s \o t \in Seq(S) /\ Len(s \o t) = Len(s) + Len(t)
BY ConcatProperties

LEMMA FrontType ==
  ASSUME NEW S, NEW s \in Seq(S), NEW n \in 0..Len(s)
  PROVE  SubSeq(s, 1, n) \in Seq(S) /\ Len(SubSeq(s, 1, n)) = n
OBVIOUS

\* What is copied fits.
LEMMA CopyToType ==
  ASSUME NEW b \in Buffer, NEW s \in Seq(Char)
  PROVE  CopyTo(b, s) \in Buffer
<1> DEFINE n == Least(Len(s), NGX_MAX_ERROR_STR - Len(b))
           t == SubSeq(s, 1, n)
<1>1. n \in 0..Len(s) /\ n <= NGX_MAX_ERROR_STR - Len(b)
  BY Sizes DEF Least, Buffer
<1>2. t \in Seq(Char) /\ Len(t) = n
  BY <1>1, FrontType
<1>3. CopyTo(b, s) = b \o t
  BY DEF CopyTo
<1>4. b \in Seq(Char) /\ Len(b) \in Nat
  BY DEF Buffer
<1> HIDE DEF n, t
<1>5. b \o t \in Seq(Char) /\ Len(b \o t) = Len(b) + Len(t)
  BY <1>2, <1>4, ConcatType
<1>6. QED
  BY <1>1, <1>2, <1>3, <1>4, <1>5, Sizes DEF Buffer

\* Padding consists of characters.
LEMMA PaddingType ==
  ASSUME NEW len \in Nat, NEW zero \in Char, NEW width \in Nat
  PROVE  Padding(len, zero, width) \in Seq(Char)
<1> DEFINE n == IF len < width THEN width - len ELSE 0
<1>1. n \in Nat
  OBVIOUS
<1>2. Padding(len, zero, width) = [k \in 1..n |-> zero]
  BY DEF Padding
<1> HIDE DEF n
<1>3. QED
  BY <1>1, <1>2

\* The numeral of anything is a non-empty sequence of characters.
LEMMA NumeralType ==
  ASSUME NEW n, NEW hex \in 0..2
  PROVE  Numeral(n, hex) \in Seq(Char) /\ Len(Numeral(n, hex)) \in Nat
<1> DEFINE base == IF hex = 0 THEN 10 ELSE 16
           K    == {k \in 1..(Int64Len - 1) : base^k <= n}
           len  == 1 + Cardinality(K)
           f(k) == Digit(hex, (n \div base^(len - k)) % base)
<1>1. Cardinality(K) \in Nat
  <2>1. IsFiniteSet(1..(Int64Len - 1))
    BY Sizes, FS_Interval
  <2>2. QED
    BY <2>1, FS_Subset, FS_CardinalityType
<1>2. \A d : Digit(hex, d) \in Char
  BY FormatAssumption DEF Digit, NumberChars
<1>3. Numeral(n, hex) = [k \in 1..len |-> f(k)]
  BY DEF Numeral
<1>4. \A k : f(k) \in Char
  BY <1>2
<1>5. len \in Nat
  BY <1>1
<1> HIDE DEF len, f
<1>6. QED
  BY <1>3, <1>4, <1>5

LEMMA SprintfNumType ==
  ASSUME NEW b \in Buffer, NEW n, NEW zero \in Char, NEW hex \in 0..2, NEW width \in Nat
  PROVE  SprintfNum(b, n, zero, hex, width) \in Buffer
<1> DEFINE digits  == Numeral(n, hex)
           padding == Padding(Len(digits), zero, width)
<1>1. digits \in Seq(Char) /\ Len(digits) \in Nat
  BY NumeralType
<1>2. SprintfNum(b, n, zero, hex, width) = CopyTo(CopyTo(b, padding), digits)
  BY DEF SprintfNum
<1> HIDE DEF digits
<1>3. padding \in Seq(Char)
  BY <1>1, PaddingType
<1> HIDE DEF padding
<1>4. QED
  BY <1>1, <1>2, <1>3, CopyToType

\* One character fits when the loop has seen room.
LEMMA AppendType ==
  ASSUME NEW b \in Buffer, Len(b) < NGX_MAX_ERROR_STR, NEW c \in Char
  PROVE  Append(b, c) \in Buffer
BY Sizes DEF Buffer

LEMMA Chars == "0" \in Char /\ " " \in Char /\ "-" \in Char /\ "." \in Char
BY FormatAssumption DEF NumberChars

\* The concatenation of texts, in a form that Zenon instantiates.
LEMMA Associative ==
  \A s, t, u \in Seq(Char) : (s \o t) \o u = s \o (t \o u)
<1>1. ASSUME NEW s \in Seq(Char), NEW t \in Seq(Char), NEW u \in Seq(Char)
      PROVE  (s \o t) \o u = s \o (t \o u)
  BY ConcatAssociative
<1>2. QED
  BY <1>1

LEMMA SingletonType ==
  ASSUME NEW S, NEW e \in S
  PROVE  <<e>> \in Seq(S) /\ Len(<<e>>) = 1
OBVIOUS

LEMMA MinusType == \A n : Minus(n) \in Seq(Char) /\ Len(Minus(n)) \in 0..1
<1>1. <<"-">> \in Seq(Char) /\ Len(<<"-">>) = 1
  BY Chars, SingletonType
<1>2. <<>> \in Seq(Char) /\ Len(<<>>) = 0
  OBVIOUS
<1>3. QED
  BY <1>1, <1>2 DEF Minus

LEMMA SignType ==
  ASSUME NEW b \in Buffer, Len(b) < NGX_MAX_ERROR_STR, NEW n
  PROVE  Sign(b, n) \in Buffer
<1>1. b \in Seq(Char) /\ Len(b) \in Nat /\ Minus(n) \in Seq(Char) /\ Len(Minus(n)) \in 0..1
  BY MinusType DEF Buffer
<1>2. Sign(b, n) \in Seq(Char) /\ Len(Sign(b, n)) = Len(b) + Len(Minus(n))
  BY <1>1, ConcatType DEF Sign
<1>3. \A x, m \in Nat, y \in 0..1 : x < m => x + y <= m
  OBVIOUS
<1>4. Len(b) + Len(Minus(n)) <= NGX_MAX_ERROR_STR
  BY <1>1, <1>3, Sizes
<1>5. QED
  BY <1>2, <1>4 DEF Buffer

LEMMA ItemType ==
  ASSUME NEW item \in Item
  PROVE  /\ item.zero \in Char /\ item.char \in Char /\ item.str \in Seq(Char)
         /\ item.hex \in 0..2 /\ item.width \in Nat /\ item.frac \in Nat
BY Chars DEF Item

LEMMA IntegerType ==
  ASSUME NEW b \in Buffer, Len(b) < NGX_MAX_ERROR_STR, NEW item \in Item
  PROVE  Integer(b, item) \in Buffer
<1>1. Integer(b, item) =
        SprintfNum(Sign(b, Argument(item)), Magnitude(Argument(item)), item.zero, item.hex,
                   item.width)
  BY DEF Integer
<1>2. Sign(b, Argument(item)) \in Buffer
  BY SignType
<1>3. QED
  BY <1>1, <1>2, ItemType, SprintfNumType

LEMMA FloatType ==
  ASSUME NEW b \in Buffer, Len(b) < NGX_MAX_ERROR_STR, NEW item \in Item
  PROVE  Float(b, item) \in Buffer
<1> DEFINE front  == SprintfNum(Sign(b, item.num), Whole(item), item.zero, 0, item.width)
           dotted == CopyTo(front, <<".">>)
<1>1. Float(b, item) = IF item.frac = 0 THEN front
                       ELSE SprintfNum(dotted, Fraction(item), "0", 0, item.frac)
  BY DEF Float
<1>2. front \in Buffer
  <2>1. Sign(b, item.num) \in Buffer
    BY SignType
  <2>2. item.zero \in Char /\ item.width \in Nat /\ 0 \in 0..2
    BY ItemType
  <2>3. QED
    BY <2>1, <2>2, SprintfNumType
<1> HIDE DEF front
<1>3. <<".">> \in Seq(Char)
  BY Chars, SingletonType
<1>4. dotted \in Buffer
  BY <1>2, <1>3, CopyToType
<1> HIDE DEF dotted
<1>5. SprintfNum(dotted, Fraction(item), "0", 0, item.frac) \in Buffer
  <2>1. item.frac \in Nat
    BY ItemType
  <2>2. "0" \in Char
    BY Chars, Zenon
  <2>3. 0 \in 0..2
    OBVIOUS
  <2>4. QED
    BY <1>4, <2>1, <2>2, <2>3, SprintfNumType
<1>6. QED
  BY <1>1, <1>2, <1>5

-----------------------------------------------------------------------------
\* A turn of the loop of ngx_vslprintf.
LEMMA TurnType ==
  ASSUME TypeOK, Turn
  PROVE  /\ buf' \in Buffer /\ fmt' = fmt
         /\ pos' \in 1..(Len(fmt) + 1) /\ astray' \in BOOLEAN
<1>1. buf \in Buffer /\ Len(buf) < NGX_MAX_ERROR_STR
  BY DEF TypeOK, Turn, MoreToExpand, Buffer
<1>2. pos \in 1..Len(fmt) /\ fmt \in Seq(Item)
  BY DEF TypeOK, Turn, MoreToExpand
<1> DEFINE item == fmt[pos]
<1>3. item \in Item
  BY <1>2, ElementOfSeq
<1>4. buf' \in Buffer
  <2>1. Append(buf, item.char) \in Buffer
    BY <1>1, <1>3, ItemType, AppendType
  <2>2. Integer(buf, item) \in Buffer
    BY <1>1, <1>3, IntegerType
  <2>3. CopyTo(buf, item.str) \in Buffer
    BY <1>1, <1>3, ItemType, CopyToType
  <2>4. Float(buf, item) \in Buffer
    BY <1>1, <1>3, FloatType
  <2>5. buf' = CASE item.conv = "char"       -> Append(buf, item.char)
                 [] item.conv \in {"d", "P"} -> Integer(buf, item)
                 [] item.conv = "s"          -> CopyTo(buf, item.str)
                 [] item.conv = "f"          -> Float(buf, item)
                 [] OTHER                    -> buf
    BY DEF Turn
  <2> HIDE DEF item
  <2>6. QED
    BY <1>1, <2>1, <2>2, <2>3, <2>4, <2>5
<1>5. astray' \in BOOLEAN
  BY Zenon DEF Turn
<1>6. pos' \in 1..(Len(fmt) + 1) /\ fmt' = fmt
  BY <1>2 DEF Turn
<1>7. QED
  BY <1>4, <1>5, <1>6

\* ngx_log_errno.
LEMMA WithErrnoType ==
  ASSUME TypeOK
  PROVE  WithErrno(buf) \in Buffer
<1>1. buf \in Buffer
  BY DEF TypeOK, Buffer
<1>2. CASE err # 0 /\ Len(buf) + Len(ErrInfo[err]) < NGX_MAX_ERROR_STR
  <2>1. ErrInfo[err] \in Seq(Char)
    BY <1>2, LogAssumption DEF TypeOK
  <2>2. buf \o ErrInfo[err] \in Seq(Char)
        /\ Len(buf \o ErrInfo[err]) = Len(buf) + Len(ErrInfo[err])
    BY <2>1, <1>1, ConcatType DEF Buffer
  <2>3. QED
    BY <1>2, <2>2, Sizes DEF WithErrno, Buffer, TypeOK
<1>3. CASE ~(err # 0 /\ Len(buf) + Len(ErrInfo[err]) < NGX_MAX_ERROR_STR)
  BY <1>1, <1>3 DEF WithErrno
<1>4. QED
  BY <1>2, <1>3

\* The newline, and the record in front of it and with it.
LEMMA NewlineType ==
  ASSUME NEW b \in Buffer
  PROVE  LET p == NewlineAt(b)
             t == SubSeq(b, 1, p) \o <<"\n">> \o SubSeq(b, p + 2, Len(b))
         IN t \in Buffer /\ p + 1 \in 0..Len(t)
<1> DEFINE p     == NewlineAt(b)
           front == SubSeq(b, 1, p)
           back  == SubSeq(b, p + 2, Len(b))
<1>1. /\ b \in Seq(Char) /\ Len(b) \in Nat /\ Len(b) <= NGX_MAX_ERROR_STR
      /\ p \in 0..Len(b) /\ p <= NGX_MAX_ERROR_STR - 2
  BY Sizes DEF Buffer, NewlineAt, Least
<1>2. front \in Seq(Char) /\ Len(front) = p
  BY <1>1, FrontType
<1> HIDE DEF p
<1>3. back \in Seq(Char) /\ Len(back) = IF p + 2 <= Len(b) THEN Len(b) - p - 1 ELSE 0
  <2>1. \A i \in (p + 2)..Len(b) : b[i] \in Char
    BY <1>1
  <2>2. p + 2 \in Int /\ Len(b) \in Int
    BY <1>1
  <2>3. back \in Seq(Char)
        /\ Len(back) = IF p + 2 <= Len(b) THEN Len(b) - (p + 2) + 1 ELSE 0
    BY <2>1, <2>2, SubSeqProperties
  <2>4. QED
    BY <2>3, <1>1
<1> HIDE DEF front, back
<1>4. <<"\n">> \in Seq(Char) /\ Len(<<"\n">>) = 1
  BY LogAssumption
<1>5. front \o <<"\n">> \in Seq(Char) /\ Len(front \o <<"\n">>) = p + 1
  BY <1>2, <1>4, ConcatType
<1>6. front \o <<"\n">> \o back \in Seq(Char)
      /\ Len(front \o <<"\n">> \o back) = p + 1 + Len(back)
  BY <1>3, <1>5, ConcatType
<1>7. front \o <<"\n">> \o back \in Buffer /\ p + 1 \in 0..Len(front \o <<"\n">> \o back)
  <2>1. /\ Len(back) \in Nat /\ p + 1 + Len(back) <= NGX_MAX_ERROR_STR
        /\ p + 1 \in 0..(p + 1 + Len(back))
    <3>1. /\ p \in Nat /\ Len(b) \in Nat /\ NGX_MAX_ERROR_STR \in Nat
          /\ p <= NGX_MAX_ERROR_STR - 2 /\ Len(b) <= NGX_MAX_ERROR_STR
      BY <1>1, Sizes
    <3>2. CASE p + 2 <= Len(b)
      BY <1>3, <3>1, <3>2
    <3>3. CASE ~(p + 2 <= Len(b))
      BY <1>3, <3>1, <3>3
    <3>4. QED
      BY <3>2, <3>3
  <2>2. QED
    BY <1>6, <2>1 DEF Buffer
<1>8. QED
  BY <1>7 DEF front, back, p

-----------------------------------------------------------------------------
USE DEF formatVars, callVars

LEMMA PrefixType == \A f \in {"ngx_log_stderr", "ngx_log_error_core"} : PrefixOf(f) \in Buffer
BY LogAssumption DEF PrefixOf, Buffer

LEMMA RecordType ==
  ASSUME TypeOK, length \in 0..Len(buf)
  PROVE  Record \in Seq(Char)
BY FrontType DEF TypeOK, Record

\* The file after a write: with the record, with part of it, or as it was.
LEMMA FileAfter ==
  ASSUME TypeOK, length \in 0..Len(buf), WriteLog
  PROVE  /\ file' \in Seq(Seq(Char))
         /\ disk = "ok" => file' \in {file, file \o <<Record>>}
         /\ disk = "ok" /\ level <= log_level /\ fd = "file" => file' = file \o <<Record>>
         /\ disk \in {"full", "broken"} => file' = file
<1> DEFINE S == Seq(Char)
<1>1. Record \in S /\ file \in Seq(S) /\ disk \in {"ok", "full", "short", "broken"}
  BY RecordType DEF TypeOK
<1>2. PICK text \in (IF level <= log_level /\ fd = "file" THEN InFile(Record) ELSE {<<>>}) :
        file' = file \o text
  BY DEF WriteLog
<1>3. \A n \in 0..(Len(Record) - 1) : SubSeq(Record, 1, n) \in S
  <2>1. ASSUME NEW n \in 0..(Len(Record) - 1) PROVE SubSeq(Record, 1, n) \in S
    <3>1. n <= Len(Record) /\ n \in Nat
      BY <1>1
    <3> QED
      BY <1>1, <3>1
  <2> QED
    BY <2>1
<1> HIDE DEF S
<1>4. file \o <<>> = file
  BY <1>1
<1>5. \A r \in S : file \o <<r>> \in Seq(S)
  BY <1>1
<1>6. CASE disk = "ok"
  <2>1. text = <<Record>> \/ text = <<>>
    BY <1>2, <1>6 DEF InFile
  <2>2. level <= log_level /\ fd = "file" => text = <<Record>>
    BY <1>2, <1>6 DEF InFile
  <2> QED
    BY <1>1, <1>2, <1>4, <1>5, <1>6, <2>1, <2>2 DEF S
<1>7. CASE disk \in {"full", "broken"}
  <2>1. text = <<>>
    BY <1>2, <1>7 DEF InFile
  <2> QED
    BY <1>1, <1>2, <1>4, <1>7, <2>1 DEF S
<1>8. CASE disk = "short"
  <2>1. text = <<>> \/ \E n \in 0..(Len(Record) - 1) : text = <<SubSeq(Record, 1, n)>>
    BY <1>2, <1>8 DEF InFile
  <2>2. file \o text \in Seq(S)
    BY <1>1, <1>3, <1>4, <1>5, <2>1
  <2> QED
    BY <1>2, <1>8, <2>2 DEF S
<1> QED
  BY <1>1, <1>6, <1>7, <1>8

\* A text as a format.
LEMMA AsFormatType ==
  ASSUME NEW text \in Seq(Char)
  PROVE  AsFormat(text) \in Seq(Item)
<1>1. ASSUME NEW c \in Char PROVE AsItem(c) \in Item
  <2>1. TRUE \in BOOLEAN /\ <<>> \in Seq(Char) /\ 0 \in Nat /\ 0 \in Int /\ 0 \in 0..2
    OBVIOUS
  <2>2. QED
    BY <2>1, Zenon DEF AsItem, Item
<1>2. \A k \in 1..Len(text) : AsItem(text[k]) \in Item
  BY <1>1
<1> DEFINE g(k) == AsItem(text[k])
<1>3. AsFormat(text) = [k \in 1..Len(text) |-> g(k)] /\ Len(text) \in Nat
  BY DEF AsFormat
<1>4. \A k \in 1..Len(text) : g(k) \in Item
  BY <1>2
<1> HIDE DEF g
<1>5. QED
  BY <1>3, <1>4

\* What is proved: the types, and that a complete record lies in the buffer.
Inv == TypeOK /\ (pc = "write" => length \in 0..Len(buf))

LEMMA InitInv == Init => Inv
<1> SUFFICES ASSUME Init PROVE Inv
  OBVIOUS
<1>1. asked \in [fn : {"ngx_log_stderr", "ngx_log_error_core"}, fmt : Seq(Item),
                 err : {0} \cup DOMAIN ErrInfo, level : Nat]
  BY LogAssumption DEF Init
<1>2. buf \in Buffer
  BY <1>1, PrefixType DEF Init
<1>3. astray \in BOOLEAN
  BY Zenon DEF Init
<1>4. pos \in 1..(Len(fmt) + 1)
  BY <1>1 DEF Init
<1>5. console \in Seq(Seq(Char)) /\ file \in Seq(Seq(Char))
  BY DEF Init
<1>6. QED
  BY <1>1, <1>2, <1>3, <1>4, <1>5, Sizes
  DEF Init, Inv, TypeOK, Buffer, NGX_LOG_STDERR, NGX_LOG_NOTICE

LEMMA StepInv == Inv /\ [Next]_vars => Inv'
<1> SUFFICES ASSUME Inv, [Next]_vars PROVE Inv'
  OBVIOUS
<1> USE DEF Inv
<1>1. CASE Expand
  <2>1. /\ buf' \in Buffer /\ fmt' = fmt
        /\ pos' \in 1..(Len(fmt) + 1) /\ astray' \in BOOLEAN
    BY <1>1, TurnType DEF Expand
  <2>2. QED
    BY <1>1, <2>1 DEF Expand, TypeOK, Buffer
<1>2. CASE GoAstray
  BY <1>2 DEF GoAstray, TypeOK
<1>3. CASE FinishRecord
  <2>1. buf' \in Buffer /\ length' \in 0..Len(buf')
    BY <1>3, WithErrnoType, NewlineType DEF FinishRecord
  <2>2. length' \in 0..NGX_MAX_ERROR_STR
    BY <2>1, Sizes DEF Buffer
  <2>3. QED
    BY <1>3, <2>1, <2>2 DEF FinishRecord, TypeOK, Buffer
<1>4. CASE WriteConsole
  <2>1. console' \in Seq(Seq(Char))
    BY <1>4, RecordType DEF WriteConsole, TypeOK
  <2>2. CASE fd = "file"
    <3>1. fmt' \in Seq(Item) /\ pos' \in 1..(Len(fmt') + 1)
      BY <1>4, <2>2, AsFormatType DEF WriteConsole, TypeOK
    <3>2. buf' \in Buffer
      BY <1>4, <2>2, PrefixType DEF WriteConsole
    <3>3. astray' \in BOOLEAN
      BY <1>4, <2>2, Zenon DEF WriteConsole
    <3>4. QED
      BY <1>4, <2>1, <2>2, <3>1, <3>2, <3>3
      DEF WriteConsole, TypeOK, Buffer, NGX_LOG_STDERR
  <2>3. CASE fd # "file"
    BY <1>4, <2>1, <2>3 DEF WriteConsole, TypeOK
  <2>4. QED
    BY <2>2, <2>3
<1>5. CASE WriteLog
  <2>1. console' \in Seq(Seq(Char))
    BY <1>5, RecordType DEF WriteLog, TypeOK
  <2>2. file' \in Seq(Seq(Char))
    BY <1>5, FileAfter DEF WriteLog
  <2>3. QED
    BY <1>5, <2>1, <2>2 DEF WriteLog, TypeOK
<1>6. CASE UNCHANGED vars
  BY <1>6 DEF vars, TypeOK
<1>7. QED
  BY <1>1, <1>2, <1>3, <1>4, <1>5, <1>6 DEF Next

\* Nothing is written beyond the end of the buffers, whatever the formats, widths,
\* arguments and errors.  A sign, a character and a newline are written without a look at
\* the room: the loop and NewlineAt have seen that there is some.
THEOREM WithinBuffer == Spec => []TypeOK
<1>1. Inv => TypeOK
  BY DEF Inv
<1>2. QED
  BY <1>1, InitInv, StepInv, PTL DEF Spec

-----------------------------------------------------------------------------
(* The copy of a line of ngx_log_stderr *)

\* The record of the log has the stamp and then the line, as far as there is room in
\* front of the newline.
CarriesLine(record, first) ==
  LET m == Least(Len(Stamp) + Len(first), NGX_MAX_ERROR_STR - 2) IN
  /\ m <= Len(record)
  /\ \A i \in 1..m :
       record[i] = IF i <= Len(Stamp) THEN Stamp[i] ELSE first[i - Len(Stamp)]

\* What is in the buffer of a complete record behind the newline: nothing, or what the
\* newline was too late for.
Complete == length \in 1..Len(buf) /\ (length = Len(buf) \/ length = NGX_MAX_ERROR_STR - 1)

\* The format is the line, and perhaps one character that was behind its newline.
AsWritten(first) ==
  /\ Len(first) \in 1..Len(fmt)
  /\ Len(fmt) = Len(first) \/ Len(first) = NGX_MAX_ERROR_STR - 1
  /\ \A k \in 1..Len(first) : first[k] = fmt[k].char
  /\ \A k \in 1..Len(fmt) : fmt[k].conv = IF fmt[k].char = "%" THEN "end" ELSE "char"

\* What has been expanded of it.
SoFar ==
  /\ Len(buf) = Len(Stamp) + pos - 1
  /\ \A i \in 1..Len(buf) :
       buf[i] = IF i <= Len(Stamp) THEN Stamp[i] ELSE fmt[i - Len(Stamp)].char

Copies == IF disk = "broken" THEN SubSeq(console, 2, Len(console)) ELSE file

\* ngx_log_error_core, called by ngx_log_stderr.
Second == asked.fn = "ngx_log_stderr" /\ fn = "ngx_log_error_core"

SecondInv ==
  /\ fd = "file" /\ level = NGX_LOG_STDERR /\ console # <<>>
  /\ AsWritten(console[1])
  /\ pc # "return" => Len(console) = 1 /\ file = <<>>
  /\ pc = "expand" /\ ~astray => SoFar
  /\ astray => /\ pc # "write" /\ pos - 1 \in 1..Len(console[1])
               /\ console[1][pos - 1] = "%"
  /\ pc = "write" => CarriesLine(Record, console[1])
  /\ pc = "return" /\ ~astray =>
       disk \in {"full", "short"} \/ (Len(Copies) = 1 /\ CarriesLine(Copies[1], console[1]))

CopyInv ==
  /\ fn = "ngx_log_stderr" =>
       (pc # "return" \/ fd = "file" => console = <<>>) /\ file = <<>>
  /\ pc = "write" => Complete
  /\ Second => SecondInv

LEMMA StampType == Stamp \in Seq(Char) /\ Len(Stamp) \in 1..NGX_MAX_ERROR_STR
BY LogAssumption

\* The characters of a beginning, of an addition at the end.
LEMMA FrontElements ==
  ASSUME NEW S, NEW s \in Seq(S), NEW n \in 0..Len(s)
  PROVE  \A i \in 1..n : SubSeq(s, 1, n)[i] = s[i]
OBVIOUS

LEMMA ConcatElements ==
  ASSUME NEW S, NEW s \in Seq(S), NEW t \in Seq(S)
  PROVE  \A i \in 1..Len(s) : (s \o t)[i] = s[i]
BY ConcatProperties

LEMMA AppendElements ==
  ASSUME NEW S, NEW s \in Seq(S), NEW e \in S
  PROVE  /\ Append(s, e) \in Seq(S) /\ Len(Append(s, e)) = Len(s) + 1
         /\ \A i \in 1..Len(s) : Append(s, e)[i] = s[i]
         /\ Append(s, e)[Len(s) + 1] = e
OBVIOUS

\* ngx_log_errno leaves what is there.
LEMMA WithErrnoKeeps ==
  ASSUME TypeOK
  PROVE  /\ Len(WithErrno(buf)) >= Len(buf)
         /\ \A i \in 1..Len(buf) : WithErrno(buf)[i] = buf[i]
<1>1. buf \in Seq(Char) /\ Len(buf) \in Nat
  BY DEF TypeOK
<1>2. CASE err # 0 /\ Len(buf) + Len(ErrInfo[err]) < NGX_MAX_ERROR_STR
  <2>1. ErrInfo[err] \in Seq(Char)
    BY <1>2, LogAssumption DEF TypeOK
  <2>2. /\ Len(buf \o ErrInfo[err]) = Len(buf) + Len(ErrInfo[err])
        /\ \A i \in 1..Len(buf) : (buf \o ErrInfo[err])[i] = buf[i]
    BY <2>1, <1>1, ConcatType, ConcatElements
  <2>3. Len(ErrInfo[err]) \in Nat
    BY <2>1
  <2>4. WithErrno(buf) = buf \o ErrInfo[err]
    BY <1>2 DEF WithErrno
  <2>5. QED
    BY <1>1, <2>2, <2>3, <2>4
<1>3. CASE ~(err # 0 /\ Len(buf) + Len(ErrInfo[err]) < NGX_MAX_ERROR_STR)
  <2>1. WithErrno(buf) = buf
    BY <1>3 DEF WithErrno
  <2>2. QED
    BY <1>1, <2>1
<1>4. QED
  BY <1>2, <1>3

\* The newline leaves what is in front of it.
LEMMA NewlineKeeps ==
  ASSUME NEW b \in Buffer
  PROVE  LET p == NewlineAt(b)
             t == SubSeq(b, 1, p) \o <<"\n">> \o SubSeq(b, p + 2, Len(b))
         IN /\ p \in 0..Len(b)
            /\ \A i \in 1..p : t[i] = b[i]
            /\ t[p + 1] = "\n"
            /\ p + 1 = Len(t) \/ p + 1 = NGX_MAX_ERROR_STR - 1
            /\ p = Len(b) \/ p = NGX_MAX_ERROR_STR - 2
<1> DEFINE p     == NewlineAt(b)
           front == SubSeq(b, 1, p)
           head  == front \o <<"\n">>
           back  == SubSeq(b, p + 2, Len(b))
<1>1. /\ b \in Seq(Char) /\ Len(b) \in Nat /\ Len(b) <= NGX_MAX_ERROR_STR
      /\ p \in 0..Len(b) /\ p <= NGX_MAX_ERROR_STR - 2
      /\ p = Len(b) \/ p = NGX_MAX_ERROR_STR - 2
  BY Sizes DEF Buffer, NewlineAt, Least
<1>2. front \in Seq(Char) /\ Len(front) = p /\ \A i \in 1..p : front[i] = b[i]
  BY <1>1, FrontType, FrontElements
<1> HIDE DEF p
<1>3. back \in Seq(Char) /\ (p = Len(b) => Len(back) = 0)
  <2>1. \A i \in (p + 2)..Len(b) : b[i] \in Char
    BY <1>1
  <2>2. p + 2 \in Int /\ Len(b) \in Int
    BY <1>1
  <2>3. back \in Seq(Char)
        /\ Len(back) = IF p + 2 <= Len(b) THEN Len(b) - (p + 2) + 1 ELSE 0
    BY <2>1, <2>2, SubSeqProperties
  <2>4. QED
    BY <2>3, <1>1
<1> HIDE DEF front, back
<1>4. "\n" \in Char
  BY LogAssumption
<1>5. head \in Seq(Char) /\ Len(head) = p + 1 /\ head[p + 1] = "\n"
      /\ \A i \in 1..p : head[i] = front[i]
  BY <1>1, <1>2, <1>4
<1> HIDE DEF head
<1>6. /\ Len(head \o back) = p + 1 + Len(back)
      /\ \A i \in 1..(p + 1) : (head \o back)[i] = head[i]
  BY <1>3, <1>5, ConcatType, ConcatElements
<1>7. p \in Nat /\ (\A i \in 1..p : i \in 1..(p + 1)) /\ p + 1 \in 1..(p + 1)
  BY <1>1
<1>8. /\ \A i \in 1..p : (head \o back)[i] = b[i]
      /\ (head \o back)[p + 1] = "\n"
  BY <1>2, <1>5, <1>6, <1>7
<1>9. p + 1 = Len(head \o back) \/ p + 1 = NGX_MAX_ERROR_STR - 1
  BY <1>1, <1>3, <1>6, <1>7, Sizes
<1>10. QED
  BY <1>1, <1>8, <1>9 DEF p, front, head, back

\* The line is a format of ordinary characters, but for %.
LEMMA AsFormatElements ==
  ASSUME NEW text \in Seq(Char)
  PROVE  /\ Len(AsFormat(text)) = Len(text)
         /\ \A k \in 1..Len(text) :
              /\ AsFormat(text)[k].char = text[k]
              /\ AsFormat(text)[k].conv = IF text[k] = "%" THEN "end" ELSE "char"
<1> DEFINE f == AsFormat(text)
<1>1. f = [k \in 1..Len(text) |-> AsItem(text[k])] /\ Len(text) \in Nat
  BY DEF AsFormat
<1>2. f \in Seq(Item)
  BY AsFormatType
<1> HIDE DEF f
<1>3. DOMAIN f = 1..Len(text)
  BY <1>1
<1>4. Len(f) \in Nat /\ DOMAIN f = 1..Len(f)
  BY <1>2
<1>5. Len(f) = Len(text)
  BY <1>1, <1>3, <1>4
<1>6. \A k \in 1..Len(text) : f[k] = AsItem(text[k])
  BY <1>1
<1>7. \A c : AsItem(c).char = c /\ AsItem(c).conv = IF c = "%" THEN "end" ELSE "char"
  BY DEF AsItem
<1>8. QED
  BY <1>5, <1>6, <1>7 DEF f

LEMMA InitCopy == Init => CopyInv
BY DEF Init, CopyInv, Second

\* A turn of the loop.
LEMMA ExpandCopy ==
  ASSUME Inv, CopyInv, Expand
  PROVE  CopyInv'
<1> USE DEF Inv
<1>1. /\ pc = "expand" /\ pc' = pc /\ fn' = fn /\ asked' = asked /\ fd' = fd /\ disk' = disk
      /\ level' = level /\ console' = console /\ file' = file /\ fmt' = fmt
      /\ pos' = pos + 1 /\ ~astray
      /\ pos \in 1..Len(fmt) /\ Len(buf) < NGX_MAX_ERROR_STR
  BY DEF Expand, Turn, MoreToExpand, TypeOK
<1>2. CASE ~Second
  BY <1>1, <1>2 DEF CopyInv, Second
<1>3. CASE Second
  <2> DEFINE first == console[1]
             item  == fmt[pos]
  <2>1. SecondInv /\ AsWritten(first) /\ SoFar
    BY <1>1, <1>3 DEF CopyInv, SecondInv
  <2>2. item.conv = (IF item.char = "%" THEN "end" ELSE "char") /\ item.char \in Char
    <3>1. item \in Item
      BY <1>1, ElementOfSeq DEF TypeOK
    <3>2. QED
      BY <1>1, <2>1, <3>1, ItemType DEF AsWritten
  <2>3. astray' = (item.conv = "end")
    BY DEF Expand, Turn
  <2>4. AsWritten(first)'
    BY <1>1, <2>1 DEF AsWritten
  <2>5. CASE item.char # "%"
    <3>1. buf' = Append(buf, item.char) /\ ~astray'
      BY <2>2, <2>3, <2>5 DEF Expand, Turn
    <3>2. buf \in Seq(Char)
      BY DEF TypeOK
    <3>3. /\ Len(buf') = Len(buf) + 1 /\ buf'[Len(buf) + 1] = item.char
          /\ \A i \in 1..Len(buf) : buf'[i] = buf[i]
      BY <2>2, <3>1, <3>2, AppendElements
    <3>4. Len(buf) = Len(Stamp) + pos - 1 /\ Len(buf) \in Nat /\ Len(Stamp) \in Nat
      BY <2>1, <3>2, StampType DEF SoFar
    <3>5. SoFar'
      <4>1. Len(buf') = Len(Stamp) + pos' - 1
        BY <1>1, <3>3, <3>4
      <4>2. ASSUME NEW i \in 1..Len(buf')
            PROVE  buf'[i] = IF i <= Len(Stamp) THEN Stamp[i] ELSE fmt[i - Len(Stamp)].char
        <5>1. CASE i \in 1..Len(buf)
          BY <2>1, <3>3, <5>1 DEF SoFar
        <5>2. CASE i = Len(buf) + 1
          <6>1. ~(i <= Len(Stamp)) /\ i - Len(Stamp) = pos
            BY <1>1, <3>4, <5>2
          <6>2. QED
            BY <3>3, <5>2, <6>1
        <5>3. QED
          BY <3>3, <3>4, <5>1, <5>2
      <4>3. QED
        BY <1>1, <4>1, <4>2 DEF SoFar
    <3>6. QED
      BY <1>1, <1>3, <2>1, <2>4, <3>1, <3>5 DEF CopyInv, SecondInv, Second
  <2>6. CASE item.char = "%"
    <3>1. pos \in 1..Len(first)
      <4>1. Len(first) \in 1..Len(fmt) /\ Len(fmt) \in Nat
            /\ (Len(fmt) = Len(first) \/ Len(first) = NGX_MAX_ERROR_STR - 1)
        BY <2>1 DEF AsWritten, TypeOK
      <4>2. pos <= NGX_MAX_ERROR_STR - 1
        BY <1>1, <2>1, StampType, Sizes DEF SoFar
      <4>3. QED
        BY <1>1, <4>1, <4>2
    <3>2. first[pos] = "%" /\ pos' - 1 = pos
      BY <1>1, <2>1, <2>6, <3>1 DEF AsWritten
    <3>3. astray'
      BY <2>2, <2>3, <2>6
    <3>4. QED
      BY <1>1, <1>3, <2>1, <2>4, <3>1, <3>2, <3>3 DEF CopyInv, SecondInv, Second
  <2>7. QED
    BY <2>5, <2>6
<1>4. QED
  BY <1>2, <1>3

\* The record is complete.
LEMMA FinishCopy ==
  ASSUME Inv, CopyInv, FinishRecord
  PROVE  CopyInv'
<1> USE DEF Inv
<1> DEFINE b == WithErrno(buf)
           p == NewlineAt(b)
           t == SubSeq(b, 1, p) \o <<"\n">> \o SubSeq(b, p + 2, Len(b))
<1>1. /\ pc = "expand" /\ pc' = "write" /\ fn' = fn /\ asked' = asked /\ fd' = fd
      /\ disk' = disk /\ level' = level /\ console' = console /\ file' = file /\ fmt' = fmt
      /\ pos' = pos /\ ~astray /\ astray' = astray
      /\ buf' = t /\ length' = p + 1
      /\ pos > Len(fmt) \/ Len(buf) >= NGX_MAX_ERROR_STR
  <2>1. pos \in Nat /\ Len(fmt) \in Nat /\ Len(buf) \in Nat /\ NGX_MAX_ERROR_STR \in Nat
    BY Sizes DEF TypeOK
  <2>2. pos > Len(fmt) \/ Len(buf) >= NGX_MAX_ERROR_STR
    <3>1. ~(pos <= Len(fmt) /\ Len(buf) < NGX_MAX_ERROR_STR)
      BY DEF FinishRecord, MoreToExpand
    <3>2. QED
      BY <2>1, <3>1
  <2>3. QED
    BY <2>2 DEF FinishRecord, MoreToExpand
<1>2. b \in Buffer /\ Len(b) >= Len(buf) /\ \A i \in 1..Len(buf) : b[i] = buf[i]
  BY WithErrnoType, WithErrnoKeeps
<1> HIDE DEF b
<1>3. /\ p \in 0..Len(b) /\ t \in Buffer /\ p + 1 \in 0..Len(t)
      /\ \A i \in 1..p : t[i] = b[i]
      /\ p + 1 = Len(t) \/ p + 1 = NGX_MAX_ERROR_STR - 1
      /\ p = Len(b) \/ p = NGX_MAX_ERROR_STR - 2
  BY <1>2, NewlineKeeps, NewlineType
<1> HIDE DEF p, t
<1>4. p \in Nat /\ Len(b) \in Nat /\ Len(buf) \in Nat
  BY <1>2, <1>3 DEF TypeOK, Buffer
<1>5. Complete'
  BY <1>1, <1>3, <1>4 DEF Complete
<1>6. CASE ~Second
  BY <1>1, <1>5, <1>6 DEF CopyInv, Second
<1>7. CASE Second
  <2> DEFINE first == console[1]
             m     == Least(Len(Stamp) + Len(first), NGX_MAX_ERROR_STR - 2)
  <2>1. SecondInv /\ AsWritten(first) /\ SoFar
    BY <1>1, <1>7 DEF CopyInv, SecondInv
  <2>2. Len(first) \in 1..Len(fmt) /\ Len(fmt) \in Nat
    BY <2>1 DEF AsWritten, TypeOK
  <2>3. Len(Stamp) \in Nat /\ NGX_MAX_ERROR_STR \in Nat /\ NGX_MAX_ERROR_STR > 2
    BY StampType, Sizes
  <2>4. Len(buf) = Len(Stamp) + pos - 1 /\ pos \in Nat
    BY <2>1 DEF SoFar, TypeOK
  <2>5. m \in Nat /\ m <= Len(Stamp) + Len(first) /\ m <= NGX_MAX_ERROR_STR - 2
    BY <2>2, <2>3 DEF Least
  <2> HIDE DEF m
  <2>6. m <= Len(buf) /\ m <= p
    <3>1. pos > Len(fmt) \/ Len(buf) >= NGX_MAX_ERROR_STR
      BY <1>1
    <3>2. m <= Len(buf)
      <4>1. CASE pos > Len(fmt)
        BY <2>2, <2>3, <2>4, <2>5, <4>1
      <4>2. CASE Len(buf) >= NGX_MAX_ERROR_STR
        BY <1>4, <2>3, <2>5, <4>2
      <4>3. QED
        BY <3>1, <4>1, <4>2
    <3>3. Len(b) >= Len(buf) /\ (p = Len(b) \/ p = NGX_MAX_ERROR_STR - 2)
      BY <1>2, <1>3
    <3>4. m <= p
      <4>1. CASE p = Len(b)
        BY <1>4, <2>5, <3>2, <3>3, <4>1
      <4>2. CASE p = NGX_MAX_ERROR_STR - 2
        BY <2>3, <2>5, <4>2
      <4>3. QED
        BY <3>3, <4>1, <4>2
    <3>5. QED
      BY <3>2, <3>4
  <2>7. Record' = SubSeq(t, 1, p + 1) /\ Len(Record') = p + 1
        /\ \A i \in 1..(p + 1) : Record'[i] = t[i]
    BY <1>1, <1>3, FrontType, FrontElements DEF Record, Buffer
  <2>8. ASSUME NEW i \in 1..m
        PROVE  Record'[i] = IF i <= Len(Stamp) THEN Stamp[i] ELSE first[i - Len(Stamp)]
    <3>1. i \in 1..(p + 1) /\ i \in 1..p /\ i \in 1..Len(buf)
      BY <1>4, <2>5, <2>6
    <3>2. Record'[i] = buf[i]
      BY <1>2, <1>3, <2>7, <3>1
    <3>3. ~(i <= Len(Stamp)) => i - Len(Stamp) \in 1..Len(first)
      BY <2>2, <2>3, <2>5
    <3>4. QED
      BY <2>1, <3>1, <3>2, <3>3 DEF SoFar, AsWritten
  <2>9. CarriesLine(Record', first)
    BY <1>4, <2>5, <2>6, <2>7, <2>8 DEF CarriesLine, m
  <2>10. AsWritten(first)'
    BY <1>1, <2>1 DEF AsWritten
  <2>11. CarriesLine(Record, first)'
    BY <1>1, <2>9 DEF CarriesLine
  <2>12. QED
    BY <1>1, <1>5, <1>7, <2>1, <2>10, <2>11 DEF CopyInv, SecondInv, Second
<1>8. QED
  BY <1>6, <1>7

\* ngx_log_stderr writes the record, and passes it on.
LEMMA WriteConsoleCopy ==
  ASSUME Inv, CopyInv, WriteConsole
  PROVE  CopyInv'
<1> USE DEF Inv
<1>1. /\ pc = "write" /\ fn = "ngx_log_stderr" /\ console' = <<Record>> /\ file' = <<>>
      /\ asked' = asked /\ fd' = fd /\ disk' = disk /\ length' = length /\ Complete
      /\ length \in 0..Len(buf)
  BY DEF WriteConsole, CopyInv
<1>2. CASE fd # "file"
  <2>1. pc' = "return" /\ fn' = fn
    BY <1>2 DEF WriteConsole
  <2>2. QED
    BY <1>1, <1>2, <2>1 DEF CopyInv, Second
<1>3. CASE fd = "file"
  <2>1. /\ fn' = "ngx_log_error_core" /\ level' = NGX_LOG_STDERR /\ fmt' = AsFormat(buf)
        /\ pos' = 1 /\ astray' = FALSE /\ buf' = Stamp /\ pc' = "expand"
    BY <1>3 DEF WriteConsole, PrefixOf
  <2>2. buf \in Seq(Char) /\ Len(buf) \in Nat
    BY DEF TypeOK
  <2>3. Len(Record) = length /\ \A k \in 1..length : Record[k] = buf[k]
    BY <1>1, <2>2, FrontType, FrontElements DEF Record
  <2>4. console'[1] = Record /\ Len(console') = 1 /\ console' # <<>>
    BY <1>1
  <2>5. AsWritten(console[1])'
    <3>1. /\ Len(fmt') = Len(buf)
          /\ \A k \in 1..Len(buf) :
               /\ fmt'[k].char = buf[k]
               /\ fmt'[k].conv = IF buf[k] = "%" THEN "end" ELSE "char"
      BY <2>1, <2>2, AsFormatElements
    <3>2. length \in 1..Len(buf) /\ (length = Len(buf) \/ length = NGX_MAX_ERROR_STR - 1)
          /\ \A k \in 1..length : k \in 1..Len(buf)
      BY <1>1, <2>2 DEF Complete
    <3> HIDE DEF Inv
    <3>3. QED
      BY <2>3, <2>4, <3>1, <3>2 DEF AsWritten
  <2>6. SoFar'
    <3>1. Len(Stamp) \in Nat /\ \A i \in 1..Len(Stamp) : i <= Len(Stamp)
      BY StampType
    <3>2. QED
      BY <2>1, <3>1 DEF SoFar
  <2>7. QED
    BY <1>1, <1>3, <2>1, <2>4, <2>5, <2>6 DEF CopyInv, SecondInv, Second
<1>4. QED
  BY <1>2, <1>3

\* ngx_log_error_core writes the record.
LEMMA WriteLogCopy ==
  ASSUME Inv, CopyInv, WriteLog
  PROVE  CopyInv'
<1> USE DEF Inv
<1>1. /\ pc = "write" /\ fn = "ngx_log_error_core" /\ pc' = "return" /\ fn' = fn
      /\ asked' = asked /\ fd' = fd /\ disk' = disk /\ level' = level /\ fmt' = fmt
      /\ pos' = pos /\ astray' = astray
  BY DEF WriteLog
<1>2. CASE ~Second
  BY <1>1, <1>2 DEF CopyInv, Second
<1>3. CASE Second
  <2>1. /\ SecondInv /\ fd = "file" /\ level = NGX_LOG_STDERR /\ AsWritten(console[1])
        /\ Len(console) = 1 /\ file = <<>> /\ ~astray /\ CarriesLine(Record, console[1])
    BY <1>1, <1>3 DEF CopyInv, SecondInv
  <2>2. level <= log_level
    BY <2>1 DEF NGX_LOG_STDERR, TypeOK
  <2>3. /\ disk = "ok" => file' = <<Record>>
        /\ console' = IF disk = "broken" THEN Append(console, Record) ELSE console
    <3>1. disk = "ok" => file' = file \o <<Record>>
      BY <1>1, <2>1, <2>2, FileAfter
    <3>2. console' = IF disk = "broken" THEN Append(console, Record) ELSE console
      BY <2>1, <2>2 DEF WriteLog, Fallback
    <3>3. QED
      BY <2>1, <3>1, <3>2
  <2>4. console \in Seq(Seq(Char)) /\ Record \in Seq(Char)
    BY <1>1, RecordType DEF TypeOK
  <2>5. /\ console' \in Seq(Seq(Char)) /\ console'[1] = console[1] /\ console' # <<>>
        /\ disk = "broken" => Len(console') = 2 /\ console'[2] = Record
    <3>1. /\ Append(console, Record) \in Seq(Seq(Char)) /\ Len(Append(console, Record)) = 2
          /\ Append(console, Record)[1] = console[1] /\ Append(console, Record)[2] = Record
      <4> DEFINE S == Seq(Char)
      <4>1. console \in Seq(S) /\ Record \in S
        BY <2>4
      <4> HIDE DEF S
      <4>2. /\ Append(console, Record) \in Seq(S)
            /\ Len(Append(console, Record)) = Len(console) + 1
            /\ \A i \in 1..Len(console) : Append(console, Record)[i] = console[i]
            /\ Append(console, Record)[Len(console) + 1] = Record
        BY <4>1, AppendElements
      <4>3. 1 \in 1..Len(console) /\ Len(console) + 1 = 2
        BY <2>1
      <4>4. QED
        BY <4>2, <4>3 DEF S
    <3>2. QED
      BY <2>1, <2>3, <2>4, <3>1
  <2>6. CASE disk = "ok"
    <3>1. Copies' = <<Record>>
      BY <1>1, <2>1, <2>3, <2>6 DEF Copies
    <3>2. Len(Copies') = 1 /\ Copies'[1] = Record
      BY <3>1
    <3>3. Len(Copies)' = 1 /\ CarriesLine(Copies[1], console[1])'
      BY <2>1, <2>5, <3>2 DEF CarriesLine
    <3>4. AsWritten(console[1])'
      BY <1>1, <2>1, <2>5 DEF AsWritten
    <3>5. QED
      BY <1>1, <2>1, <2>5, <3>3, <3>4 DEF CopyInv, SecondInv, Second
  <2>7. CASE disk \in {"full", "short"}
    <3>1. AsWritten(console[1])'
      BY <1>1, <2>1, <2>5 DEF AsWritten
    <3>2. QED
      BY <1>1, <2>1, <2>5, <2>7, <3>1 DEF CopyInv, SecondInv, Second
  <2>8. CASE disk = "broken"
    <3>1. Copies' = SubSeq(console', 2, 2)
      BY <1>1, <2>5, <2>8 DEF Copies
    <3>2. Len(Copies') = 1 /\ Copies'[1] = Record
      BY <2>5, <2>8, <3>1
    <3>3. Len(Copies)' = 1 /\ CarriesLine(Copies[1], console[1])'
      BY <2>1, <2>5, <3>2 DEF CarriesLine
    <3>4. AsWritten(console[1])'
      BY <1>1, <2>1, <2>5 DEF AsWritten
    <3>5. QED
      BY <1>1, <2>1, <2>5, <3>3, <3>4 DEF CopyInv, SecondInv, Second
  <2>9. QED
    BY <2>6, <2>7, <2>8 DEF TypeOK
<1>4. QED
  BY <1>2, <1>3

LEMMA StepCopy == Inv /\ CopyInv /\ [Next]_vars => CopyInv'
<1> SUFFICES ASSUME Inv, CopyInv, [Next]_vars PROVE CopyInv'
  OBVIOUS
<1>1. CASE GoAstray
  BY <1>1 DEF GoAstray, CopyInv, Second, SecondInv, AsWritten, Inv, TypeOK
<1>2. CASE UNCHANGED vars
  BY <1>2 DEF vars, CopyInv, Complete, Second, SecondInv, AsWritten, SoFar, CarriesLine,
              Record, Copies
<1>3. QED
  BY <1>1, <1>2, ExpandCopy, FinishCopy, WriteConsoleCopy, WriteLogCopy DEF Next

\* A record that carries a line has the beginning of the stamp and the line for prefix.
LEMMA CarriesPrefix ==
  ASSUME NEW first \in Seq(Char), NEW record \in Seq(Char), CarriesLine(record, first)
  PROVE  LET copy == Stamp \o first
             m    == Least(Len(copy), NGX_MAX_ERROR_STR - 2)
         IN IsPrefix(SubSeq(copy, 1, m), record)
<1> DEFINE copy == Stamp \o first
           m    == Least(Len(copy), NGX_MAX_ERROR_STR - 2)
           s    == SubSeq(copy, 1, m)
<1>1. /\ copy \in Seq(Char) /\ Len(copy) = Len(Stamp) + Len(first)
      /\ \A i \in 1..(Len(Stamp) + Len(first)) :
           copy[i] = IF i <= Len(Stamp) THEN Stamp[i] ELSE first[i - Len(Stamp)]
  BY StampType, ConcatProperties
<1> HIDE DEF copy
<1>2. Len(copy) \in Nat /\ m \in 0..Len(copy) /\ m <= Len(record)
      /\ \A i \in 1..m :
           record[i] = IF i <= Len(Stamp) THEN Stamp[i] ELSE first[i - Len(Stamp)]
  BY <1>1, Sizes DEF CarriesLine, Least
<1> HIDE DEF m
<1>3. s \in Seq(Char) /\ Len(s) = m /\ \A i \in 1..m : s[i] = copy[i]
  BY <1>1, <1>2, FrontType, FrontElements
<1>4. \A i \in 1..m : s[i] = record[i]
  <2>1. \A i \in 1..m : i \in 1..(Len(Stamp) + Len(first))
    BY <1>1, <1>2
  <2>2. QED
    BY <1>1, <1>2, <1>3, <2>1
<1> HIDE DEF s
<1>5. m \in 0..Len(record) /\ m \in 0..Len(s)
  BY <1>2, <1>3
<1>6. SubSeq(record, 1, m) \in Seq(Char) /\ Len(SubSeq(record, 1, m)) = m
      /\ \A i \in 1..m : SubSeq(record, 1, m)[i] = record[i]
  BY <1>5, FrontType, FrontElements
<1>7. SubSeq(s, 1, m) \in Seq(Char) /\ Len(SubSeq(s, 1, m)) = m
      /\ \A i \in 1..m : SubSeq(s, 1, m)[i] = s[i]
  BY <1>3, <1>5, FrontType, FrontElements
<1>8. SubSeq(s, 1, m) = SubSeq(record, 1, m)
  BY <1>4, <1>6, <1>7, SeqEqual
<1>9. IsPrefix(s, record)
  BY <1>2, <1>3, <1>8 DEF IsPrefix
<1>10. QED
  BY <1>9 DEF s, m, copy

\* What ngx_log_stderr writes on the console is in the log, behind the stamp and as far as
\* there is room, whatever it contains but for a %, whatever the level of the log; or on the
\* console again if the log cannot be written.
THEOREM CopyAlwaysReachesLog == Spec => []CopyReachesLog
<1>1. Inv /\ CopyInv => CopyReachesLog
  <2> SUFFICES ASSUME Inv, CopyInv, pc = "return", asked.fn = "ngx_log_stderr",
                      console # <<>>, fd = "file"
               PROVE  CopyReachesLog
    BY DEF CopyReachesLog
  <2>1. Second /\ SecondInv
    BY DEF Inv, TypeOK, CopyInv, Second
  <2>2. console[1] \in Seq(Char)
    <3>1. console \in Seq(Seq(Char)) /\ 1 \in 1..Len(console)
      BY DEF Inv, TypeOK
    <3>2. QED
      BY <3>1, ElementOfSeq
  <2>3. CASE astray
    <3>1. pos - 1 \in DOMAIN console[1] /\ console[1][pos - 1] = "%"
      BY <2>1, <2>2, <2>3 DEF SecondInv
    <3>2. QED
      BY <2>3, <3>1 DEF CopyReachesLog, ToSet
  <2>4. CASE ~astray /\ disk \notin {"full", "short"}
    <3>1. Len(Copies) = 1 /\ CarriesLine(Copies[1], console[1])
      BY <2>1, <2>4 DEF SecondInv
    <3>2. Copies \in Seq(Seq(Char))
      BY DEF Inv, TypeOK, Copies
    <3>3. Copies[1] \in Seq(Char)
      <4>1. 1 \in 1..Len(Copies)
        BY <3>1
      <4>2. QED
        BY <3>2, <4>1, ElementOfSeq
    <3>4. QED
      BY <2>2, <2>4, <3>1, <3>3, CarriesPrefix DEF CopyReachesLog, Copies
  <2>5. CASE ~astray /\ disk \in {"full", "short"}
    BY <2>5 DEF CopyReachesLog
  <2>6. QED
    BY <2>3, <2>4, <2>5
<1>2. QED
  BY <1>1, InitInv, StepInv, InitCopy, StepCopy, PTL DEF Spec

-----------------------------------------------------------------------------
(* What a format gives *)

\* A set of numbers has a least one: what is needed of induction on numbers.
LEMMA LeastNumber ==
  ASSUME NEW T \in SUBSET Nat, T # {}
  PROVE  \E x \in T : \A y \in T : x <= y
<1>1. IsWellFoundedOn(OpToRel(<, Nat), Nat)
  BY NatLessThanWellFounded
<1>2. PICK x \in T : \A y \in T : ~ (<<y, x>> \in OpToRel(<, Nat))
  BY <1>1, WFMin
<1>3. \A y \in T : ~(y < x)
  BY <1>2 DEF OpToRel
<1>4. x \in Nat /\ \A y \in T : y \in Nat
  BY <1>2
<1>5. \A u, v \in Nat : ~(v < u) => u <= v
  OBVIOUS
<1>6. \A y \in T : x <= y
  BY <1>3, <1>4, <1>5
<1>7. QED
  BY <1>2, <1>6

\* A number and an item become characters.
LEMMA NumberType ==
  ASSUME NEW n, NEW zero \in Char, NEW hex \in 0..2, NEW width \in Nat
  PROVE  Number(n, zero, hex, width) \in Seq(Char)
<1> DEFINE digits  == Numeral(n, hex)
           padding == Padding(Len(digits), zero, width)
<1>1. digits \in Seq(Char) /\ Len(digits) \in Nat
  BY NumeralType
<1>2. Number(n, zero, hex, width) = padding \o digits
  BY DEF Number
<1> HIDE DEF digits
<1>3. padding \in Seq(Char)
  BY <1>1, PaddingType
<1> HIDE DEF padding
<1>4. QED
  BY <1>1, <1>2, <1>3, ConcatType

\* The two kinds of numbers in front of, and behind, the point.
Point(item) == IF item.frac = 0 THEN <<>>
               ELSE <<".">> \o Number(Fraction(item), "0", 0, item.frac)

LEMMA PointType ==
  ASSUME NEW item \in Item
  PROVE  Point(item) \in Seq(Char)
<1>1. Number(Fraction(item), "0", 0, item.frac) \in Seq(Char)
  <2>1. item.frac \in Nat
    BY ItemType
  <2>2. "0" \in Char
    BY Chars, Zenon
  <2>3. 0 \in 0..2
    OBVIOUS
  <2>4. QED
    BY <2>1, <2>2, <2>3, NumberType
<1>2. <<".">> \in Seq(Char)
  BY Chars, SingletonType
<1>3. <<>> \in Seq(Char)
  OBVIOUS
<1> DEFINE t == Number(Fraction(item), "0", 0, item.frac)
           d == <<".">>
<1>4. Point(item) = IF item.frac = 0 THEN <<>> ELSE d \o t
  BY DEF Point
<1> HIDE DEF t, d
<1>5. d \o t \in Seq(Char)
  BY <1>1, <1>2, ConcatType DEF t, d
<1>6. QED
  BY <1>3, <1>4, <1>5

LEMMA TextType ==
  ASSUME NEW item \in Item
  PROVE  Text(item) \in Seq(Char)
<1> DEFINE n == Argument(item)
           i == Number(Magnitude(n), item.zero, item.hex, item.width)
           f == Number(Whole(item), item.zero, 0, item.width)
<1>1. i \in Seq(Char) /\ f \in Seq(Char)
  <2>1. item.zero \in Char /\ item.width \in Nat /\ item.hex \in 0..2 /\ 0 \in 0..2
    BY ItemType
  <2>2. QED
    BY <2>1, NumberType
<1>2. Minus(n) \in Seq(Char) /\ Minus(item.num) \in Seq(Char) /\ Point(item) \in Seq(Char)
  BY MinusType, PointType
<1>3. Text(item) = CASE item.conv = "char"       -> <<item.char>>
                     [] item.conv \in {"d", "P"} -> Minus(n) \o i
                     [] item.conv = "s"          -> item.str
                     [] item.conv = "f"          -> Minus(item.num) \o f \o Point(item)
                     [] OTHER                    -> <<>>
  BY DEF Text, Point
<1> HIDE DEF n, i, f
<1>4. Minus(n) \o i \in Seq(Char) /\ Minus(item.num) \o f \o Point(item) \in Seq(Char)
  BY <1>1, <1>2, ConcatType
<1>5. <<item.char>> \in Seq(Char) /\ item.str \in Seq(Char) /\ <<>> \in Seq(Char)
  BY ItemType, SingletonType
<1>6. QED
  BY <1>3, <1>4, <1>5

\* The texts of the beginnings of a format exist, for it is finite, ...
Expansion(g, p, f, n) ==
  /\ g \in [0..n -> Seq(Char)]
  /\ g[0] = p
  /\ \A k \in 1..n : g[k] = g[k - 1] \o Text(f[k])

LEMMA ExpansionExists ==
  ASSUME NEW p \in Seq(Char), NEW f \in Seq(Item)
  PROVE  \E g : Expansion(g, p, f, Len(f))
<1> DEFINE T == {n \in 0..Len(f) : ~ \E g : Expansion(g, p, f, n)}
<1>1. Len(f) \in Nat
  OBVIOUS
<1>2. ASSUME T # {} PROVE FALSE
  <2>1. PICK n \in T : \A m \in T : n <= m
    <3>1. T \in SUBSET Nat
      BY <1>1
    <3> HIDE DEF T
    <3>2. QED
      BY <1>2, <3>1, LeastNumber
  <2>2. n \in 0..Len(f) /\ ~ \E g : Expansion(g, p, f, n)
    BY <2>1
  <2>3. n # 0
    <3>1. Expansion([k \in 0..0 |-> p], p, f, 0)
      BY DEF Expansion
    <3>2. QED
      BY <2>2, <3>1
  <2>4. n - 1 \in 0..Len(f) /\ ~(n <= n - 1)
    BY <1>1, <2>2, <2>3
  <2>5. PICK g : Expansion(g, p, f, n - 1)
    BY <2>1, <2>4
  <2> DEFINE h == [k \in 0..n |-> IF k < n THEN g[k] ELSE g[n - 1] \o Text(f[n])]
  <2>6. g[n - 1] \in Seq(Char) /\ g[n - 1] \o Text(f[n]) \in Seq(Char)
    <3>1. g[n - 1] \in Seq(Char)
      BY <2>4, <2>5 DEF Expansion
    <3>2. f[n] \in Item
      BY <2>2, <2>3, ElementOfSeq
    <3>3. QED
      BY <3>1, <3>2, TextType, ConcatType
  <2>7. h \in [0..n -> Seq(Char)]
    <3>1. \A k \in 0..n : k < n => k \in 0..(n - 1)
      BY <2>2
    <3>2. QED
      BY <2>5, <2>6, <3>1 DEF Expansion
  <2>8. h[0] = p
    <3>1. 0 \in 0..n /\ 0 < n
      BY <2>2, <2>3
    <3>2. QED
      BY <2>5, <3>1 DEF Expansion
  <2>9. ASSUME NEW k \in 1..n PROVE h[k] = h[k - 1] \o Text(f[k])
    <3>1. k \in 0..n /\ k - 1 \in 0..n /\ k - 1 < n
      BY <2>2
    <3>2. h[k - 1] = g[k - 1]
      BY <3>1
    <3>3. CASE k = n
      <4>1. ~(k < n)
        BY <2>2, <3>3
      <4>2. h[k] = g[n - 1] \o Text(f[n])
        BY <3>1, <4>1
      <4>3. QED
        BY <3>2, <3>3, <4>2
    <3>4. CASE k < n
      <4>1. k \in 1..(n - 1)
        BY <2>2, <3>4
      <4>2. g[k] = g[k - 1] \o Text(f[k])
        BY <2>5, <4>1 DEF Expansion
      <4>3. h[k] = g[k]
        BY <3>1, <3>4
      <4>4. QED
        BY <3>2, <4>2, <4>3
    <3>5. k = n \/ k < n
      BY <2>2
    <3>6. QED
      BY <3>3, <3>4, <3>5
  <2>10. Expansion(h, p, f, n)
    BY <2>7, <2>8, <2>9 DEF Expansion
  <2>11. QED
    BY <2>2, <2>10
<1>3. Len(f) \in 0..Len(f)
  BY <1>1
<1>4. QED
  BY <1>2, <1>3

\* ... and Texts is made of them.
LEMMA TextsProperties ==
  ASSUME NEW p \in Seq(Char), NEW f \in Seq(Item)
  PROVE  /\ Texts(p, f)[0] = p
         /\ \A k \in 1..Len(f) : Texts(p, f)[k] = Texts(p, f)[k - 1] \o Text(f[k])
         /\ \A k \in 0..Len(f) : Texts(p, f)[k] \in Seq(Char)
<1> DEFINE Step(g) == [k \in 0..Len(f) |-> IF k = 0 THEN p ELSE g[k - 1] \o Text(f[k])]
           c == Texts(p, f)
           T == {n \in 0..Len(f) : c[n] \notin Seq(Char)}
<1>1. c = CHOOSE g : g = Step(g)
  BY DEF Texts
<1>2. Len(f) \in Nat
  OBVIOUS
<1>3. \E g : g = Step(g)
  <2>1. PICK g : Expansion(g, p, f, Len(f))
    BY ExpansionExists
  <2>2. g = [k \in 0..Len(f) |-> g[k]]
    BY <2>1 DEF Expansion
  <2>3. \A k \in 0..Len(f) : g[k] = IF k = 0 THEN p ELSE g[k - 1] \o Text(f[k])
    <3>1. \A k \in 0..Len(f) : k # 0 => k \in 1..Len(f)
      BY <1>2
    <3>2. QED
      BY <2>1, <3>1 DEF Expansion
  <2>4. g = Step(g)
    BY <2>2, <2>3
  <2>5. QED
    BY <2>4
<1>4. c = Step(c)
  BY <1>1, <1>3
<1> HIDE DEF c
<1>5. c[0] = p
  <2>1. 0 \in 0..Len(f)
    BY <1>2
  <2>2. Step(c)[0] = p
    BY <2>1
  <2>3. QED
    BY <1>4, <2>2
<1>6. ASSUME NEW k \in 1..Len(f) PROVE c[k] = c[k - 1] \o Text(f[k])
  <2>1. k \in 0..Len(f) /\ k # 0
    BY <1>2
  <2>2. Step(c)[k] = c[k - 1] \o Text(f[k])
    BY <2>1
  <2>3. QED
    BY <1>4, <2>2
<1>7. ASSUME T # {} PROVE FALSE
  <2>1. PICK n \in T : \A m \in T : n <= m
    <3>1. T \in SUBSET Nat
      BY <1>2
    <3> HIDE DEF T
    <3>2. QED
      BY <1>7, <3>1, LeastNumber
  <2>2. n \in 1..Len(f) /\ n - 1 \in 0..Len(f) /\ ~(n <= n - 1)
    <3>1. n \in 0..Len(f) /\ n # 0
      BY <1>5, <2>1
    <3>2. QED
      BY <1>2, <3>1
  <2>3. c[n - 1] \in Seq(Char)
    BY <2>1, <2>2
  <2>4. f[n] \in Item
    BY <2>2, ElementOfSeq
  <2>5. c[n] \in Seq(Char)
    BY <1>6, <2>2, <2>3, <2>4, TextType, ConcatType, ZenonT(30)
  <2>6. QED
    BY <2>1, <2>5
<1>8. \A k \in 0..Len(f) : c[k] \in Seq(Char)
  BY <1>7
<1>9. QED
  BY <1>5, <1>6, <1>8 DEF c

\* A text goes on as it has begun.
Beginning(s, t) == Len(s) <= Len(t) /\ \A i \in 1..Len(s) : s[i] = t[i]

LEMMA TextsGrow ==
  ASSUME NEW p \in Seq(Char), NEW f \in Seq(Item), NEW j \in 0..Len(f)
  PROVE  Beginning(Texts(p, f)[j], Texts(p, f)[Len(f)])
<1> DEFINE c == Texts(p, f)
           T == {n \in j..Len(f) : ~Beginning(c[j], c[n])}
<1>1. Len(f) \in Nat /\ j \in Nat /\ j <= Len(f)
  OBVIOUS
<1>2. \A k \in 0..Len(f) : c[k] \in Seq(Char) /\ Len(c[k]) \in Nat
  <2>1. \A k \in 0..Len(f) : c[k] \in Seq(Char)
    BY TextsProperties
  <2> HIDE DEF c
  <2>2. \A s \in Seq(Char) : Len(s) \in Nat
    OBVIOUS
  <2>3. QED
    BY <2>1, <2>2
<1>3. \A k \in 1..Len(f) : c[k] = c[k - 1] \o Text(f[k])
  BY TextsProperties
<1> HIDE DEF c
<1>4. ASSUME T # {} PROVE FALSE
  <2>1. PICK n \in T : \A m \in T : n <= m
    <3>1. T \in SUBSET Nat
      BY <1>1
    <3> HIDE DEF T
    <3>2. QED
      BY <1>4, <3>1, LeastNumber
  <2>2. n # j
    <3>1. Beginning(c[j], c[j])
      BY <1>1, <1>2 DEF Beginning
    <3>2. QED
      BY <2>1, <3>1
  <2>3. n \in 1..Len(f) /\ n - 1 \in j..Len(f) /\ n - 1 \in 0..Len(f) /\ ~(n <= n - 1)
    <3>1. n \in j..Len(f)
      BY <2>1
    <3>2. QED
      BY <1>1, <2>2, <3>1
  <2>4. Beginning(c[j], c[n - 1])
    BY <2>1, <2>3
  <2>5. c[n - 1] \in Seq(Char) /\ c[j] \in Seq(Char) /\ Text(f[n]) \in Seq(Char)
    BY <1>2, <2>3, ElementOfSeq, TextType
  <2>6. /\ Len(c[n]) = Len(c[n - 1]) + Len(Text(f[n]))
        /\ \A i \in 1..Len(c[n - 1]) : c[n][i] = c[n - 1][i]
    <3> DEFINE s == c[n - 1]
               u == Text(f[n])
    <3>1. c[n] = s \o u /\ s \in Seq(Char) /\ u \in Seq(Char)
      BY <1>3, <2>3, <2>5
    <3> HIDE DEF s, u
    <3>2. Len(s \o u) = Len(s) + Len(u) /\ \A i \in 1..Len(s) : (s \o u)[i] = s[i]
      BY <3>1, ConcatType, ConcatElements
    <3>3. QED
      BY <3>1, <3>2 DEF s, u
  <2>7. Len(c[n - 1]) \in Nat /\ Len(c[j]) \in Nat /\ Len(Text(f[n])) \in Nat
    BY <2>5
  <2>8. Len(c[j]) <= Len(c[n]) /\ \A i \in 1..Len(c[j]) : i \in 1..Len(c[n - 1])
    <3>1. \A u, v, w \in Nat : u <= v => u <= v + w /\ \A i \in 1..u : i \in 1..v
      OBVIOUS
    <3>2. Len(c[j]) <= Len(c[n - 1])
      BY <2>4 DEF Beginning
    <3>3. Len(c[j]) <= Len(c[n - 1]) + Len(Text(f[n]))
          /\ \A i \in 1..Len(c[j]) : i \in 1..Len(c[n - 1])
      BY <2>7, <3>1, <3>2, Zenon
    <3>4. QED
      BY <2>6, <3>3
  <2>9. Beginning(c[j], c[n])
    BY <2>4, <2>6, <2>8 DEF Beginning
  <2>10. QED
    BY <2>1, <2>9
<1>5. Len(f) \in j..Len(f)
  BY <1>1
<1>6. QED
  BY <1>4, <1>5 DEF c

-----------------------------------------------------------------------------
(* What of it is in the buffer *)

\* The buffer holds of a text what fits.
IsCut(b, t) ==
  /\ Len(b) = Least(Len(t), NGX_MAX_ERROR_STR)
  /\ \A i \in 1..Len(b) : b[i] = t[i]

LEMMA CutType ==
  ASSUME NEW b \in Seq(Char), NEW t, IsCut(b, t), Len(t) \in Nat
  PROVE  b \in Buffer
BY Sizes DEF IsCut, Buffer, Least

\* To copy a string is to add it to the text.
LEMMA CutCopy ==
  ASSUME NEW b \in Seq(Char), NEW t \in Seq(Char), NEW s \in Seq(Char), IsCut(b, t)
  PROVE  IsCut(CopyTo(b, s), t \o s)
<1> DEFINE n == Least(Len(s), NGX_MAX_ERROR_STR - Len(b))
           u == SubSeq(s, 1, n)
<1>1. /\ Len(b) \in Nat /\ Len(s) \in Nat /\ Len(t) \in Nat /\ NGX_MAX_ERROR_STR \in Nat
      /\ Len(b) = Least(Len(t), NGX_MAX_ERROR_STR) /\ \A i \in 1..Len(b) : b[i] = t[i]
  BY Sizes DEF IsCut
<1>2. n \in 0..Len(s) /\ Len(b) <= Len(t) /\ (n = 0 \/ Len(b) = Len(t))
      /\ Len(b) + n = Least(Len(t) + Len(s), NGX_MAX_ERROR_STR)
  <2>1. \A x, y, m \in Nat :
          LET k == Least(y, m - Least(x, m))
          IN /\ k \in 0..y /\ Least(x, m) <= x /\ (k = 0 \/ Least(x, m) = x)
             /\ Least(x, m) + k = Least(x + y, m)
    BY DEF Least
  <2>2. QED
    BY <1>1, <2>1
<1>3. u \in Seq(Char) /\ Len(u) = n /\ \A i \in 1..n : u[i] = s[i]
  BY <1>2, FrontType, FrontElements
<1>4. CopyTo(b, s) = b \o u
  BY DEF CopyTo
<1> HIDE DEF n, u
<1>5. Len(b \o u) = Len(b) + n /\ Len(t \o s) = Len(t) + Len(s)
  BY <1>3, ConcatType
<1>6. /\ \A i \in 1..(Len(b) + n) : (b \o u)[i] = IF i <= Len(b) THEN b[i] ELSE u[i - Len(b)]
      /\ \A i \in 1..(Len(t) + Len(s)) :
           (t \o s)[i] = IF i <= Len(t) THEN t[i] ELSE s[i - Len(t)]
  BY <1>3, ConcatProperties
<1>7. ASSUME NEW i \in 1..(Len(b) + n) PROVE (b \o u)[i] = (t \o s)[i]
  <2>1. i \in 1..(Len(t) + Len(s))
    BY <1>1, <1>2
  <2>2. CASE i <= Len(b)
    <3>1. i \in 1..Len(b) /\ i <= Len(t)
      BY <1>1, <1>2, <2>2
    <3>2. QED
      BY <1>1, <1>6, <2>1, <2>2, <3>1
  <2>3. CASE ~(i <= Len(b))
    <3>1. Len(b) = Len(t) /\ i - Len(b) \in 1..n
      BY <1>1, <1>2, <2>3
    <3>2. QED
      BY <1>3, <1>6, <2>1, <2>3, <3>1
  <2>4. QED
    BY <2>2, <2>3
<1>8. QED
  BY <1>2, <1>4, <1>5, <1>7 DEF IsCut

\* What is written without a look at the room is a copy too, if there is room.
LEMMA CopyFits ==
  ASSUME NEW b \in Seq(Char), NEW s \in Seq(Char), Len(b) + Len(s) <= NGX_MAX_ERROR_STR
  PROVE  CopyTo(b, s) = b \o s
<1>1. Len(b) \in Nat /\ Len(s) \in Nat /\ NGX_MAX_ERROR_STR \in Nat
  BY Sizes
<1>2. Least(Len(s), NGX_MAX_ERROR_STR - Len(b)) = Len(s)
  BY <1>1 DEF Least
<1>3. SubSeq(s, 1, Len(s)) = s
  OBVIOUS
<1>4. QED
  BY <1>2, <1>3 DEF CopyTo

\* A copy is a sequence of characters.
LEMMA CopyToSeq ==
  ASSUME NEW b \in Seq(Char), NEW t \in Seq(Char), NEW s \in Seq(Char), IsCut(b, t)
  PROVE  CopyTo(b, s) \in Seq(Char)
<1>1. b \in Buffer
  <2>1. Len(t) \in Nat
    OBVIOUS
  <2>2. QED
    BY <2>1, CutType
<1>2. QED
  BY <1>1, CopyToType DEF Buffer

LEMMA CutNumber ==
  ASSUME NEW b \in Seq(Char), NEW t \in Seq(Char), IsCut(b, t),
         NEW n, NEW zero \in Char, NEW hex \in 0..2, NEW width \in Nat
  PROVE  /\ SprintfNum(b, n, zero, hex, width) \in Seq(Char)
         /\ IsCut(SprintfNum(b, n, zero, hex, width), t \o Number(n, zero, hex, width))
<1> DEFINE digits  == Numeral(n, hex)
           padding == Padding(Len(digits), zero, width)
<1>1. digits \in Seq(Char) /\ Len(digits) \in Nat
  BY NumeralType
<1>2. /\ SprintfNum(b, n, zero, hex, width) = CopyTo(CopyTo(b, padding), digits)
      /\ Number(n, zero, hex, width) = padding \o digits
  BY DEF SprintfNum, Number
<1> HIDE DEF digits
<1>3. padding \in Seq(Char)
  BY <1>1, PaddingType
<1> HIDE DEF padding
<1>4. CopyTo(b, padding) \in Seq(Char) /\ IsCut(CopyTo(b, padding), t \o padding)
  BY <1>3, CopyToSeq, CutCopy
<1>5. t \o padding \in Seq(Char)
  BY <1>3, ConcatType
<1> DEFINE c == CopyTo(b, padding)
           v == t \o padding
<1>6. c \in Seq(Char) /\ v \in Seq(Char) /\ IsCut(c, v)
  BY <1>4, <1>5
<1> HIDE DEF c, v
<1>7. CopyTo(c, digits) \in Seq(Char) /\ IsCut(CopyTo(c, digits), v \o digits)
  BY <1>1, <1>6, CopyToSeq, CutCopy
<1>8. v \o digits = t \o (padding \o digits)
  BY <1>1, <1>3, Associative, ZenonT(40) DEF v
<1>9. QED
  BY <1>2, <1>7, <1>8 DEF c

\* A sign.
LEMMA CutSign ==
  ASSUME NEW b \in Seq(Char), NEW t \in Seq(Char), IsCut(b, t), Len(b) < NGX_MAX_ERROR_STR,
         NEW n
  PROVE  Sign(b, n) \in Seq(Char) /\ IsCut(Sign(b, n), t \o Minus(n))
<1>1. Minus(n) \in Seq(Char) /\ Len(Minus(n)) \in 0..1 /\ Len(b) \in Nat
  BY MinusType
<1>2. \A x, m \in Nat, y \in 0..1 : x < m => x + y <= m
  OBVIOUS
<1>3. Len(b) + Len(Minus(n)) <= NGX_MAX_ERROR_STR
  BY <1>1, <1>2, Sizes
<1>4. Sign(b, n) = CopyTo(b, Minus(n))
  BY <1>1, <1>3, CopyFits DEF Sign
<1>5. QED
  BY <1>1, <1>4, CopyToSeq, CutCopy

LEMMA CutInteger ==
  ASSUME NEW b \in Seq(Char), NEW t \in Seq(Char), IsCut(b, t), Len(b) < NGX_MAX_ERROR_STR,
         NEW item \in Item, item.conv \in {"d", "P"}
  PROVE  IsCut(Integer(b, item), t \o Text(item))
<1> DEFINE n == Argument(item)
           c == Sign(b, n)
           v == t \o Minus(n)
           i == Number(Magnitude(n), item.zero, item.hex, item.width)
<1>1. item.zero \in Char /\ item.width \in Nat /\ item.hex \in 0..2
  BY ItemType
<1>2. Integer(b, item) = SprintfNum(c, Magnitude(n), item.zero, item.hex, item.width)
  BY DEF Integer
<1>3. Text(item) = Minus(n) \o i
  BY DEF Text
<1>4. c \in Seq(Char) /\ IsCut(c, v)
  BY CutSign
<1>5. Minus(n) \in Seq(Char) /\ i \in Seq(Char)
  BY <1>1, MinusType, NumberType
<1>6. v \in Seq(Char)
  BY <1>5, ConcatType
<1> HIDE DEF c, v, n
<1>7. IsCut(Integer(b, item), v \o i)
  BY <1>1, <1>2, <1>4, <1>6, CutNumber
<1> HIDE DEF i
<1>8. v \o i = t \o (Minus(n) \o i)
  <2>1. v = t \o Minus(n)
    BY DEF v
  <2>2. (t \o Minus(n)) \o i = t \o (Minus(n) \o i)
    BY <1>5, Associative, Zenon
  <2>3. QED
    BY <2>1, <2>2, Zenon
<1>9. QED
  BY <1>3, <1>7, <1>8

LEMMA CutFloat ==
  ASSUME NEW b \in Seq(Char), NEW t \in Seq(Char), IsCut(b, t), Len(b) < NGX_MAX_ERROR_STR,
         NEW item \in Item, item.conv = "f"
  PROVE  IsCut(Float(b, item), t \o Text(item))
<1> DEFINE c == Sign(b, item.num)
           m == Minus(item.num)
           w == Number(Whole(item), item.zero, 0, item.width)
           f == Number(Fraction(item), "0", 0, item.frac)
           d == <<".">>
           front == SprintfNum(c, Whole(item), item.zero, 0, item.width)
           v == t \o m
           x == v \o w
<1>1. item.zero \in Char /\ item.width \in Nat /\ item.frac \in Nat /\ 0 \in 0..2
  BY ItemType
<1>2. "0" \in Char
  BY Chars, Zenon
<1>3. Float(b, item) = IF item.frac = 0 THEN front
                       ELSE SprintfNum(CopyTo(front, d), Fraction(item), "0", 0, item.frac)
  BY DEF Float
<1>4. Text(item) = m \o w \o Point(item)
  BY DEF Text, Point
<1>5. Point(item) = IF item.frac = 0 THEN <<>> ELSE d \o f
  BY DEF Point
<1>6. m \in Seq(Char) /\ w \in Seq(Char) /\ f \in Seq(Char) /\ d \in Seq(Char)
  BY <1>1, <1>2, MinusType, NumberType, Chars, SingletonType
<1>7. c \in Seq(Char) /\ IsCut(c, v)
  BY CutSign
<1> HIDE DEF c, m, d
<1>8. v \in Seq(Char)
  BY <1>6, ConcatType
<1> HIDE DEF v
<1>9. front \in Seq(Char) /\ IsCut(front, x)
  BY <1>1, <1>7, <1>8, CutNumber
<1> HIDE DEF w, front
<1>10. x \in Seq(Char) /\ x = t \o (m \o w) /\ m \o w \in Seq(Char)
  <2>1. v \o w \in Seq(Char) /\ m \o w \in Seq(Char)
    BY <1>6, <1>8, ConcatType
  <2>2. (t \o m) \o w = t \o (m \o w)
    BY <1>6, Associative, ZenonT(40)
  <2>3. QED
    BY <2>1, <2>2 DEF v
<1> DEFINE mw == m \o w
<1>11. x \in Seq(Char) /\ x = t \o mw /\ mw \in Seq(Char)
  BY <1>10
<1>12. Text(item) = mw \o Point(item)
  BY <1>4
<1> HIDE DEF x, mw
<1>13. CASE item.frac = 0
  <2>1. mw \o <<>> = mw
    BY <1>11, ConcatEmptySeq
  <2>2. QED
    BY <1>3, <1>5, <1>9, <1>11, <1>12, <1>13, <2>1
<1>14. CASE item.frac # 0
  <2> DEFINE k == CopyTo(front, d)
             y == x \o d
  <2>1. k \in Seq(Char) /\ IsCut(k, y)
    BY <1>6, <1>9, <1>11, CopyToSeq, CutCopy
  <2>2. y \in Seq(Char)
    BY <1>6, <1>11, ConcatType
  <2>3. Float(b, item) = SprintfNum(k, Fraction(item), "0", 0, item.frac)
    BY <1>3, <1>14
  <2> HIDE DEF k, y
  <2>4. IsCut(Float(b, item), y \o f)
    BY <1>1, <1>2, <2>1, <2>2, <2>3, CutNumber
  <2> HIDE DEF f
  <2>5. y \o f = x \o (d \o f) /\ d \o f \in Seq(Char)
    <3> HIDE DEF f
    <3>0. x \in Seq(Char) /\ d \in Seq(Char) /\ f \in Seq(Char)
      BY <1>6, <1>11
    <3>1. (x \o d) \o f = x \o (d \o f)
      BY <3>0, Associative, ZenonT(40)
    <3>2. d \o f \in Seq(Char)
      BY <1>6, ConcatType
    <3>3. QED
      BY <3>1, <3>2 DEF y
  <2> DEFINE df == d \o f
  <2>6. y \o f = x \o df /\ df \in Seq(Char) /\ Point(item) = df
    <3>1. Point(item) = df
      BY <1>5, <1>14
    <3>2. QED
      BY <2>5, <3>1
  <2> HIDE DEF df
  <2>7. x \o df = t \o (mw \o df)
    BY <1>11, <2>6, Associative, ZenonT(40)
  <2>8. QED
    BY <1>12, <2>4, <2>6, <2>7
<1>15. QED
  BY <1>13, <1>14

\* A turn of the loop adds what its item says.
LEMMA CutTurn ==
  ASSUME TypeOK, Turn, NEW t \in Seq(Char), IsCut(buf, t), ~astray'
  PROVE  IsCut(buf', t \o Text(fmt[pos]))
<1> DEFINE item == fmt[pos]
<1>1. buf \in Seq(Char) /\ Len(buf) < NGX_MAX_ERROR_STR /\ Len(buf) \in Nat
  BY DEF TypeOK, Turn, MoreToExpand
<1>2. item \in Item
  <2>1. pos \in 1..Len(fmt) /\ fmt \in Seq(Item)
    BY DEF TypeOK, Turn, MoreToExpand
  <2>2. QED
    BY <2>1, ElementOfSeq
<1>3. /\ item.conv # "end"
      /\ buf' = CASE item.conv = "char"       -> Append(buf, item.char)
                  [] item.conv \in {"d", "P"} -> Integer(buf, item)
                  [] item.conv = "s"          -> CopyTo(buf, item.str)
                  [] item.conv = "f"          -> Float(buf, item)
                  [] OTHER                    -> buf
  BY DEF Turn
<1> HIDE DEF item
<1>4. item.conv \in {"char", "d", "P", "s", "f"} /\ item.char \in Char /\ item.str \in Seq(Char)
  BY <1>2, <1>3, ItemType DEF Item
<1>5. CASE item.conv = "char"
  <2> DEFINE s == <<item.char>>
  <2>1. s \in Seq(Char) /\ Len(s) = 1
    BY <1>4, SingletonType
  <2>2. Append(buf, item.char) = buf \o s
    <3>1. buf \in Seq(Char) /\ item.char \in Char
      BY <1>1, <1>4
    <3>2. QED
      BY <3>1, AppendIsConcat
  <2>3. Text(item) = s
    BY <1>5 DEF Text
  <2>4. buf' = Append(buf, item.char)
    BY <1>3, <1>5
  <2> HIDE DEF s
  <2>5. Len(buf) + Len(s) <= NGX_MAX_ERROR_STR
    BY <1>1, <2>1, Sizes
  <2>6. buf' = CopyTo(buf, s)
    BY <1>1, <2>1, <2>2, <2>4, <2>5, CopyFits
  <2>7. QED
    BY <1>1, <2>1, <2>3, <2>6, CutCopy DEF item
<1>6. CASE item.conv \in {"d", "P"}
  <2>1. buf' = Integer(buf, item)
    BY <1>3, <1>6
  <2>2. QED
    BY <1>1, <1>2, <1>6, <2>1, CutInteger DEF item
<1>7. CASE item.conv = "s"
  <2>1. buf' = CopyTo(buf, item.str) /\ Text(item) = item.str
    BY <1>3, <1>7 DEF Text
  <2>2. QED
    BY <1>1, <1>4, <2>1, CutCopy DEF item
<1>8. CASE item.conv = "f"
  <2>1. buf' = Float(buf, item)
    BY <1>3, <1>8
  <2>2. QED
    BY <1>1, <1>2, <1>8, <2>1, CutFloat DEF item
<1>9. QED
  BY <1>4, <1>5, <1>6, <1>7, <1>8
-----------------------------------------------------------------------------
(* The line *)

Info == IF asked.err = 0 THEN <<>> ELSE ErrInfo[asked.err]

\* The text of the call, up to its k-th item, and all of it.
TextTo(k) == Texts(PrefixOf(asked.fn), asked.fmt)[k]
WholeText == TextTo(Len(asked.fmt))

\* While the record of the call is being made its text is in the buffer, and once it has
\* been made it is whole.  Only ngx_log_stderr goes on with another record.
LineInv ==
  /\ err = asked.err
  /\ fn = asked.fn =>
       /\ fmt = asked.fmt
       /\ astray => pc # "write"
       /\ astray \/ pc # "return" => console = <<>> /\ file = <<>>
       /\ pc = "expand" /\ ~astray => IsCut(buf, TextTo(pos - 1))
       /\ pc = "write" => LineWhole(Record, WholeText, Info)
  /\ fn # asked.fn => asked.fn = "ngx_log_stderr" /\ console # <<>>
  /\ RecordWhole

LEMMA InfoType ==
  ASSUME TypeOK
  PROVE  Info \in Seq(Char)
<1>1. asked.err \in {0} \cup DOMAIN ErrInfo
  BY LogAssumption DEF TypeOK
<1>2. <<>> \in Seq(Char)
  OBVIOUS
<1>3. QED
  BY <1>1, <1>2, LogAssumption DEF Info

LEMMA AskedTexts ==
  ASSUME TypeOK
  PROVE  /\ asked.fmt \in Seq(Item) /\ Len(asked.fmt) \in Nat
         /\ asked.fn \in {"ngx_log_stderr", "ngx_log_error_core"}
         /\ TextTo(0) = PrefixOf(asked.fn) /\ PrefixOf(asked.fn) \in Seq(Char)
         /\ \A k \in 1..Len(asked.fmt) : TextTo(k) = TextTo(k - 1) \o Text(asked.fmt[k])
         /\ \A k \in 0..Len(asked.fmt) :
              TextTo(k) \in Seq(Char) /\ Beginning(TextTo(k), WholeText)
<1>1. /\ asked.fmt \in Seq(Item)
      /\ asked.fn \in {"ngx_log_stderr", "ngx_log_error_core"}
  BY LogAssumption DEF TypeOK
<1>2. PrefixOf(asked.fn) \in Seq(Char)
  BY <1>1, PrefixType DEF Buffer
<1>3. Len(asked.fmt) \in Nat
  BY <1>1
<1>4. /\ TextTo(0) = PrefixOf(asked.fn)
      /\ \A k \in 1..Len(asked.fmt) : TextTo(k) = TextTo(k - 1) \o Text(asked.fmt[k])
      /\ \A k \in 0..Len(asked.fmt) : TextTo(k) \in Seq(Char)
  BY <1>1, <1>2, TextsProperties DEF TextTo
<1>5. \A k \in 0..Len(asked.fmt) : Beginning(TextTo(k), WholeText)
  BY <1>1, <1>2, TextsGrow DEF TextTo, WholeText
<1>6. QED
  BY <1>1, <1>2, <1>3, <1>4, <1>5

\* When the loop ends the buffer holds of the whole text what fits.
LEMMA CutWhole ==
  ASSUME TypeOK, LineInv, fn = asked.fn, pc = "expand", ~astray, ~MoreToExpand
  PROVE  IsCut(buf, WholeText)
<1>1. /\ fmt = asked.fmt /\ IsCut(buf, TextTo(pos - 1))
  BY DEF LineInv
<1>2. /\ pos \in 1..(Len(fmt) + 1) /\ Len(fmt) \in Nat /\ Len(buf) \in Nat
      /\ NGX_MAX_ERROR_STR \in Nat /\ Len(buf) <= NGX_MAX_ERROR_STR
  BY Sizes DEF TypeOK
<1>3. pos = Len(fmt) + 1 \/ Len(buf) = NGX_MAX_ERROR_STR
  BY <1>2 DEF MoreToExpand
<1>4. pos - 1 \in 0..Len(asked.fmt) /\ Len(asked.fmt) \in 0..Len(asked.fmt)
  BY <1>1, <1>2
<1>5. CASE pos = Len(fmt) + 1
  <2>1. pos - 1 = Len(asked.fmt)
    BY <1>1, <1>2, <1>5
  <2>2. QED
    BY <1>1, <2>1 DEF WholeText
<1>6. CASE Len(buf) = NGX_MAX_ERROR_STR
  <2> DEFINE t == TextTo(pos - 1)
  <2>1. t \in Seq(Char) /\ WholeText \in Seq(Char) /\ Beginning(t, WholeText)
    BY <1>4, AskedTexts DEF WholeText
  <2>2. IsCut(buf, t)
    BY <1>1
  <2> HIDE DEF t
  <2>3. Len(t) \in Nat /\ Len(WholeText) \in Nat
    BY <2>1
  <2>4. \A x, y, m \in Nat : x <= y /\ m = Least(x, m)
          => m = Least(y, m) /\ \A i \in 1..m : i \in 1..x
    BY DEF Least
  <2>5. Len(t) <= Len(WholeText) /\ NGX_MAX_ERROR_STR = Least(Len(t), NGX_MAX_ERROR_STR)
    BY <1>6, <2>1, <2>2 DEF IsCut, Beginning
  <2>6. /\ Len(buf) = Least(Len(WholeText), NGX_MAX_ERROR_STR)
        /\ \A i \in 1..Len(buf) : i \in 1..Len(t)
    BY <1>2, <1>6, <2>3, <2>4, <2>5
  <2>7. \A i \in 1..Len(buf) : buf[i] = WholeText[i]
    BY <2>1, <2>2, <2>6 DEF IsCut, Beginning
  <2>8. QED
    BY <2>6, <2>7 DEF IsCut
<1>7. QED
  BY <1>3, <1>5, <1>6

\* A sequence that begins like another one.
LEMMA PrefixElements ==
  ASSUME NEW s \in Seq(Char), NEW t \in Seq(Char), Beginning(s, t)
  PROVE  IsPrefix(s, t)
<1> DEFINE n == Len(s)
<1>1. n \in Nat /\ n \in 0..Len(s) /\ n \in 0..Len(t) /\ n <= Len(t)
  BY DEF Beginning
<1>2. SubSeq(s, 1, n) \in Seq(Char) /\ Len(SubSeq(s, 1, n)) = n
      /\ \A i \in 1..n : SubSeq(s, 1, n)[i] = s[i]
  BY <1>1, FrontType, FrontElements
<1>3. SubSeq(t, 1, n) \in Seq(Char) /\ Len(SubSeq(t, 1, n)) = n
      /\ \A i \in 1..n : SubSeq(t, 1, n)[i] = t[i]
  BY <1>1, FrontType, FrontElements
<1>4. \A i \in 1..n : s[i] = t[i]
  BY DEF Beginning
<1>5. SubSeq(s, 1, n) = SubSeq(t, 1, n)
  BY <1>2, <1>3, <1>4, SeqEqual
<1>6. QED
  BY <1>1, <1>5 DEF IsPrefix

\* A record is whole if its first p characters are those of the text and the error, and
\* the newline comes when there is nothing more or no room, and not in between.
LEMMA LineFromParts ==
  ASSUME NEW record \in Seq(Char), NEW text \in Seq(Char), NEW info \in Seq(Char),
         NEW p \in Nat,
         Len(record) = p + 1, record[p + 1] = "\n",
         p <= NGX_MAX_ERROR_STR - 2, p <= Len(text) + Len(info),
         \A i \in 1..p : record[i] = (text \o info)[i],
         p = Len(text) + Len(info) \/ Len(text) + Len(info) > NGX_MAX_ERROR_STR - 2,
         p >= Least(Len(text), NGX_MAX_ERROR_STR - 2),
         p > Len(text) => p >= Len(text) + Len(info) - 1
  PROVE  LineWhole(record, text, info)
<1> DEFINE full == text \o info
           line == SubSeq(record, 1, p)
<1>1. full \in Seq(Char) /\ Len(full) = Len(text) + Len(info)
  BY ConcatType
<1>2. \A i \in 1..p : record[i] = full[i]
  OBVIOUS
<1> HIDE DEF full
<1>3. p \in 0..Len(record)
  OBVIOUS
<1>4. line \in Seq(Char) /\ Len(line) = p /\ \A i \in 1..p : line[i] = record[i]
  BY <1>3, FrontType, FrontElements
<1>5. Front(record) = line /\ Last(record) = "\n"
  BY DEF Front, Last
<1> HIDE DEF line
<1>6. IsPrefix(line, full)
  BY <1>1, <1>2, <1>4, PrefixElements DEF Beginning
<1>7. p = Len(full) => line = full
  BY <1>1, <1>2, <1>4, SeqEqual
<1>8. QED
  BY <1>1, <1>4, <1>5, <1>6, <1>7 DEF LineWhole, full

\* What ngx_log_errno makes of the text that fits, cut where the newline comes.
LEMMA FinishParts ==
  ASSUME TypeOK, err = asked.err, NEW text \in Seq(Char), IsCut(buf, text)
  PROVE  LET b == WithErrno(buf)
             p == NewlineAt(b)
         IN /\ p \in Nat /\ p <= NGX_MAX_ERROR_STR - 2 /\ p <= Len(text) + Len(Info)
            /\ \A i \in 1..p : b[i] = (text \o Info)[i]
            /\ p = Len(text) + Len(Info) \/ Len(text) + Len(Info) > NGX_MAX_ERROR_STR - 2
            /\ p >= Least(Len(text), NGX_MAX_ERROR_STR - 2)
            /\ p > Len(text) => p >= Len(text) + Len(Info) - 1
<1> DEFINE b == WithErrno(buf)
           p == NewlineAt(b)
           M == NGX_MAX_ERROR_STR
<1>1. Info \in Seq(Char) /\ Len(Info) \in Nat /\ Len(text) \in Nat /\ buf \in Seq(Char)
      /\ Len(buf) \in Nat
  BY InfoType DEF TypeOK
<1>2. M \in Nat /\ M > 2
  BY Sizes
<1>3. Len(buf) = Least(Len(text), M) /\ \A i \in 1..Len(buf) : buf[i] = text[i]
  BY DEF IsCut
<1>4. \A i \in 1..Len(text) : (text \o Info)[i] = text[i]
  BY <1>1, ConcatElements
<1>5. p = Least(Len(b), M - 2)
  BY DEF NewlineAt
<1>6. CASE err # 0 /\ Len(buf) + Len(ErrInfo[err]) < M
  <2>1. Info = ErrInfo[err] /\ b = buf \o Info
    BY <1>6 DEF Info, WithErrno
  <2>2. \A x, y, m \in Nat : Least(x, m) + y < m => Least(x, m) = x
    BY DEF Least
  <2>3. Len(buf) = Len(text) /\ Len(text) + Len(Info) < M
    BY <1>1, <1>2, <1>3, <1>6, <2>1, <2>2
  <2>4. buf = text
    BY <1>1, <1>3, <2>3, SeqEqual
  <2>5. b = text \o Info /\ Len(b) = Len(text) + Len(Info)
    BY <1>1, <2>1, <2>4, ConcatType
  <2> HIDE DEF b, p, M
  <2>6. \A x, y, m \in Nat : m > 2 /\ x + y < m =>
          LET k == Least(x + y, m - 2)
          IN /\ k \in Nat /\ k <= m - 2 /\ k <= x + y
             /\ k = x + y \/ x + y > m - 2
             /\ k >= Least(x, m - 2)
             /\ k > x => k >= x + y - 1
    BY DEF Least
  <2>7. /\ p \in Nat /\ p <= M - 2 /\ p <= Len(text) + Len(Info)
        /\ p = Len(text) + Len(Info) \/ Len(text) + Len(Info) > M - 2
        /\ p >= Least(Len(text), M - 2)
        /\ p > Len(text) => p >= Len(text) + Len(Info) - 1
    BY <1>1, <1>2, <1>5, <2>3, <2>5, <2>6
  <2>8. \A i \in 1..p : b[i] = (text \o Info)[i]
    BY <2>5
  <2>9. QED
    BY <2>7, <2>8 DEF b, p, M
<1>7. CASE ~(err # 0 /\ Len(buf) + Len(ErrInfo[err]) < M)
  <2>1. b = buf
    BY <1>7 DEF WithErrno
  <2>2. Len(Info) = 0 \/ Len(buf) + Len(Info) >= M
    BY <1>1, <1>2, <1>7 DEF Info
  <2> HIDE DEF b, p, M
  <2>3. \A x, y, m \in Nat : m > 2 /\ (y = 0 \/ Least(x, m) + y >= m) =>
          LET k == Least(Least(x, m), m - 2)
          IN /\ k \in Nat /\ k <= m - 2 /\ k <= x + y
             /\ k = x + y \/ x + y > m - 2
             /\ k >= Least(x, m - 2)
             /\ ~(k > x)
             /\ k <= x /\ k <= Least(x, m)
    BY DEF Least
  <2>4. /\ p \in Nat /\ p <= M - 2 /\ p <= Len(text) + Len(Info)
        /\ p = Len(text) + Len(Info) \/ Len(text) + Len(Info) > M - 2
        /\ p >= Least(Len(text), M - 2)
        /\ ~(p > Len(text))
        /\ p <= Len(text) /\ p <= Len(buf)
    <3>1. Len(buf) = Least(Len(text), M) /\ p = Least(Least(Len(text), M), M - 2)
      BY <1>3, <1>5, <2>1
    <3>2. Len(Info) = 0 \/ Least(Len(text), M) + Len(Info) >= M
      BY <2>2, <3>1
    <3> DEFINE x == Len(text)
               y == Len(Info)
    <3>3. x \in Nat /\ y \in Nat /\ M \in Nat /\ M > 2
          /\ (y = 0 \/ Least(x, M) + y >= M) /\ p = Least(Least(x, M), M - 2)
          /\ Len(buf) = Least(x, M)
      BY <1>1, <1>2, <3>1, <3>2
    <3> HIDE DEF x, y
    <3>4. /\ p \in Nat /\ p <= M - 2 /\ p <= x + y
          /\ p = x + y \/ x + y > M - 2
          /\ p >= Least(x, M - 2)
          /\ ~(p > x)
          /\ p <= x /\ p <= Least(x, M)
      BY <2>3, <3>3
    <3>5. QED
      BY <3>3, <3>4 DEF x, y
  <2>5. ASSUME NEW i \in 1..p PROVE b[i] = (text \o Info)[i]
    <3>1. i \in 1..Len(text) /\ i \in 1..Len(buf)
      BY <1>1, <2>4
    <3>2. QED
      BY <1>3, <1>4, <2>1, <3>1
  <2>6. QED
    BY <2>4, <2>5 DEF b, p, M
<1>8. QED
  BY <1>6, <1>7 DEF M

LEMMA InitLine == Init => LineInv
<1> SUFFICES ASSUME Init PROVE LineInv
  OBVIOUS
<1>1. TypeOK
  BY InitInv DEF Inv
<1>2. buf = TextTo(0) /\ buf \in Seq(Char) /\ pos - 1 = 0
  BY <1>1, AskedTexts DEF Init
<1>3. IsCut(buf, TextTo(pos - 1))
  <2>1. Len(buf) \in Nat /\ Len(buf) <= NGX_MAX_ERROR_STR
    BY <1>1 DEF TypeOK
  <2>2. Len(buf) = Least(Len(buf), NGX_MAX_ERROR_STR)
    BY <2>1, Sizes DEF Least
  <2>3. QED
    BY <1>2, <2>2 DEF IsCut
<1>4. RecordWhole
  <2>1. console = <<>> /\ file = <<>>
    BY DEF Init
  <2>2. {console[i] : i \in DOMAIN console \cap {1}} = {} /\ ToSet(console) = {} /\ ToSet(file) = {}
    BY <2>1 DEF ToSet
  <2>3. QED
    BY <2>2 DEF RecordWhole
<1>5. QED
  BY <1>3, <1>4 DEF Init, LineInv

\* RecordWhole is about the call and what has been written.
LEMMA SameRecords ==
  ASSUME RecordWhole, asked' = asked, console' = console, file' = file, disk' = disk
  PROVE  RecordWhole'
BY DEF RecordWhole

LEMMA ExpandLine ==
  ASSUME Inv, LineInv, Expand
  PROVE  LineInv'
<1> USE DEF Inv
<1>1. /\ pc = "expand" /\ pc' = pc /\ fn' = fn /\ asked' = asked /\ err' = err
      /\ console' = console /\ file' = file /\ fmt' = fmt /\ pos' = pos + 1 /\ ~astray
      /\ pos \in 1..Len(fmt) /\ disk' = disk
  BY DEF Expand, Turn, MoreToExpand, TypeOK, callVars
<1>2. RecordWhole'
  BY <1>1, SameRecords DEF LineInv
<1>3. ASSUME fn = asked.fn, ~astray'
      PROVE  IsCut(buf', TextTo(pos - 1)')
  <2>1. fmt = asked.fmt /\ IsCut(buf, TextTo(pos - 1))
    BY <1>1, <1>3 DEF LineInv
  <2>2. pos \in 1..Len(asked.fmt) /\ pos - 1 \in 0..Len(asked.fmt) /\ pos' - 1 = pos
    BY <1>1, <2>1
  <2>3. TextTo(pos - 1) \in Seq(Char) /\ TextTo(pos) = TextTo(pos - 1) \o Text(fmt[pos])
    BY <2>1, <2>2, AskedTexts
  <2>4. Turn
    BY DEF Expand
  <2> DEFINE t == TextTo(pos - 1)
  <2>5. t \in Seq(Char) /\ IsCut(buf, t) /\ TextTo(pos) = t \o Text(fmt[pos])
    BY <2>1, <2>3
  <2> HIDE DEF t
  <2>6. IsCut(buf', t \o Text(fmt[pos]))
    BY <1>3, <2>4, <2>5, CutTurn
  <2>7. TextTo(pos - 1)' = TextTo(pos)
    BY <1>1, <2>2 DEF TextTo
  <2>8. QED
    BY <2>5, <2>6, <2>7
<1>4. QED
  BY <1>1, <1>2, <1>3 DEF LineInv

LEMMA FinishLine ==
  ASSUME Inv, LineInv, FinishRecord
  PROVE  LineInv'
<1> USE DEF Inv
<1> DEFINE b == WithErrno(buf)
           p == NewlineAt(b)
           t == SubSeq(b, 1, p) \o <<"\n">> \o SubSeq(b, p + 2, Len(b))
<1>1. /\ pc = "expand" /\ pc' = "write" /\ fn' = fn /\ asked' = asked /\ err' = err
      /\ console' = console /\ file' = file /\ fmt' = fmt /\ ~astray /\ astray' = astray
      /\ buf' = t /\ length' = p + 1 /\ ~MoreToExpand /\ disk' = disk
  BY DEF FinishRecord, callVars
<1>2. RecordWhole'
  BY <1>1, SameRecords DEF LineInv
<1>3. ASSUME fn = asked.fn
      PROVE  LineWhole(Record', WholeText, Info)
  <2>1. IsCut(buf, WholeText) /\ err = asked.err
    BY <1>1, <1>3, CutWhole DEF LineInv
  <2>2. WholeText \in Seq(Char) /\ Info \in Seq(Char)
    <3>1. Len(asked.fmt) \in 0..Len(asked.fmt)
      BY AskedTexts
    <3>2. QED
      BY <3>1, AskedTexts, InfoType DEF WholeText
  <2>3. /\ p \in Nat /\ p <= NGX_MAX_ERROR_STR - 2 /\ p <= Len(WholeText) + Len(Info)
        /\ \A i \in 1..p : b[i] = (WholeText \o Info)[i]
        /\ p = Len(WholeText) + Len(Info)
           \/ Len(WholeText) + Len(Info) > NGX_MAX_ERROR_STR - 2
        /\ p >= Least(Len(WholeText), NGX_MAX_ERROR_STR - 2)
        /\ p > Len(WholeText) => p >= Len(WholeText) + Len(Info) - 1
    BY <2>1, <2>2, FinishParts
  <2>4. b \in Buffer
    BY WithErrnoType
  <2> HIDE DEF b
  <2>5. /\ t \in Buffer /\ p + 1 \in 0..Len(t) /\ t[p + 1] = "\n"
        /\ \A i \in 1..p : t[i] = b[i]
    BY <2>4, NewlineKeeps, NewlineType
  <2> HIDE DEF p, t
  <2>6. Record' = SubSeq(t, 1, p + 1)
    BY <1>1 DEF Record
  <2>7. /\ Record' \in Seq(Char) /\ Len(Record') = p + 1
        /\ \A i \in 1..(p + 1) : Record'[i] = t[i]
    BY <2>5, <2>6, FrontType, FrontElements DEF Buffer
  <2>8. p + 1 \in 1..(p + 1) /\ \A i \in 1..p : i \in 1..(p + 1)
    BY <2>3
  <2> DEFINE record == Record'
             text   == WholeText
             info   == Info
  <2>9. /\ record \in Seq(Char) /\ Len(record) = p + 1 /\ record[p + 1] = "\n"
        /\ \A i \in 1..p : record[i] = (text \o info)[i]
    BY <2>3, <2>5, <2>7, <2>8
  <2>10. text \in Seq(Char) /\ info \in Seq(Char)
    BY <2>2
  <2>11. /\ p \in Nat /\ p <= NGX_MAX_ERROR_STR - 2 /\ p <= Len(text) + Len(info)
         /\ p = Len(text) + Len(info) \/ Len(text) + Len(info) > NGX_MAX_ERROR_STR - 2
         /\ p >= Least(Len(text), NGX_MAX_ERROR_STR - 2)
         /\ p > Len(text) => p >= Len(text) + Len(info) - 1
    BY <2>3
  <2> HIDE DEF record, text, info
  <2>12. LineWhole(record, text, info)
    BY <2>9, <2>10, <2>11, LineFromParts
  <2>13. QED
    BY <2>12 DEF record, text, info
<1>4. /\ LineWhole(Record, WholeText, Info)' <=> LineWhole(Record', WholeText, Info)
  BY <1>1 DEF LineWhole, WholeText, TextTo, Info
<1>5. QED
  BY <1>1, <1>2, <1>3, <1>4 DEF LineInv

\* The first record of ngx_log_stderr.
LEMMA WriteConsoleLine ==
  ASSUME Inv, LineInv, WriteConsole
  PROVE  LineInv'
<1> USE DEF Inv
<1>1. /\ pc = "write" /\ fn = "ngx_log_stderr" /\ console' = Append(console, Record)
      /\ file' = file /\ asked' = asked /\ err' = err
  BY DEF WriteConsole
<1>2. /\ fn = asked.fn /\ console = <<>> /\ file = <<>> /\ fmt = asked.fmt
      /\ LineWhole(Record, WholeText, Info)
  BY <1>1 DEF LineInv
<1>3. console' = <<Record>> /\ console' # <<>>
  BY <1>1, <1>2
<1>4. RecordWhole'
  <2>1. {console'[i] : i \in DOMAIN console' \cap {1}} = {Record}
    BY <1>3
  <2>2. asked'.fn = "ngx_log_stderr" /\ asked' = asked
    BY <1>1, <1>2
  <2>3. QED
    BY <1>2, <2>1, <2>2 DEF RecordWhole, WholeText, TextTo, Info
<1>5. CASE fd = "file"
  <2>1. fn' = "ngx_log_error_core"
    BY <1>5 DEF WriteConsole
  <2>2. QED
    BY <1>1, <1>2, <1>3, <1>4, <2>1 DEF LineInv
<1>6. CASE fd # "file"
  <2>1. pc' = "return" /\ fn' = fn /\ fmt' = fmt /\ astray' = astray
    BY <1>6 DEF WriteConsole
  <2>2. ~astray
    BY <1>1, <1>2 DEF LineInv
  <2>3. QED
    BY <1>1, <1>2, <1>4, <2>1, <2>2 DEF LineInv
<1>7. QED
  BY <1>5, <1>6

\* What ngx_log_error_core writes, to the file or to the console.
LEMMA WriteLogLine ==
  ASSUME Inv, LineInv, WriteLog
  PROVE  LineInv'
<1> USE DEF Inv
<1>1. /\ pc = "write" /\ fn = "ngx_log_error_core" /\ pc' = "return" /\ fn' = fn
      /\ asked' = asked /\ err' = err /\ fmt' = fmt /\ astray' = astray
      /\ console' = console \/ console' = Append(console, Record)
      /\ disk' = disk
  BY DEF WriteLog
<1>2. Record \in Seq(Char) /\ console \in Seq(Seq(Char))
  BY <1>1, RecordType DEF TypeOK
<1>3. CASE fn = asked.fn
  <2>1. /\ console = <<>> /\ file = <<>> /\ fmt = asked.fmt /\ ~astray
        /\ LineWhole(Record, WholeText, Info)
    BY <1>1, <1>3 DEF LineInv
  <2>2. /\ console' = <<>> \/ console' = <<Record>>
        /\ disk # "short" => file' = <<>> \/ file' = <<Record>>
    <3>1. console' = <<>> \/ console' = <<Record>>
      BY <1>1, <2>1
    <3>2. disk # "short" => file' = file \/ file' = file \o <<Record>>
      BY <1>1, FileAfter DEF TypeOK
    <3>3. QED
      BY <2>1, <3>1, <3>2
  <2>3. /\ ToSet(console') \subseteq {Record}
        /\ disk # "short" => ToSet(file') \subseteq {Record}
    BY <2>2 DEF ToSet
  <2>4. asked'.fn # "ngx_log_stderr"
    BY <1>1, <1>3
  <2>5. RecordWhole'
    BY <1>1, <2>1, <2>3, <2>4 DEF RecordWhole, WholeText, TextTo, Info
  <2>6. QED
    BY <1>1, <1>3, <2>1, <2>5 DEF LineInv
<1>4. CASE fn # asked.fn
  <2>1. asked.fn = "ngx_log_stderr" /\ console # <<>> /\ RecordWhole
    BY <1>4 DEF LineInv
  <2>2. /\ console' # <<>> /\ 1 \in DOMAIN console' /\ 1 \in DOMAIN console
        /\ console'[1] = console[1]
    <3> DEFINE S == Seq(Char)
    <3>1. console \in Seq(S) /\ Record \in S
      BY <1>2
    <3> HIDE DEF S
    <3>2. /\ Append(console, Record) \in Seq(S)
          /\ Len(Append(console, Record)) = Len(console) + 1
          /\ \A i \in 1..Len(console) : Append(console, Record)[i] = console[i]
      BY <3>1, AppendElements
    <3>3. Len(console) \in Nat /\ 1 \in 1..Len(console) /\ DOMAIN console = 1..Len(console)
      BY <2>1, <3>1
    <3>4. 1 \in DOMAIN Append(console, Record) /\ Append(console, Record) # <<>>
      BY <3>2, <3>3
    <3>5. QED
      BY <1>1, <2>1, <3>2, <3>3, <3>4
  <2>3. {console'[i] : i \in DOMAIN console' \cap {1}}
          = {console[i] : i \in DOMAIN console \cap {1}}
    BY <2>2
  <2>4. RecordWhole'
    BY <1>1, <2>1, <2>3 DEF RecordWhole
  <2>5. QED
    BY <1>1, <1>4, <2>1, <2>2, <2>4 DEF LineInv
<1>5. QED
  BY <1>3, <1>4

LEMMA StepLine == Inv /\ LineInv /\ [Next]_vars => LineInv'
<1> SUFFICES ASSUME Inv, LineInv, [Next]_vars PROVE LineInv'
  OBVIOUS
<1>1. CASE GoAstray
  <2>1. RecordWhole'
    BY <1>1, SameRecords DEF GoAstray, LineInv
  <2>2. QED
    BY <1>1, <2>1 DEF GoAstray, LineInv
<1>2. CASE UNCHANGED vars
  <2>1. RecordWhole'
    BY <1>2, SameRecords DEF vars, LineInv
  <2>2. QED
    BY <1>2, <2>1 DEF vars, LineInv, IsCut, TextTo, WholeText, Info, Record, LineWhole
<1>3. QED
  BY <1>1, <1>2, ExpandLine, FinishLine, WriteConsoleLine, WriteLogLine DEF Next

\* Every line written is the text that the code's arithmetic gives for the format and its
\* arguments, the error number whole or not at all, and a newline at the end, cut only where
\* the room ends: for every format, width and argument, every error and every size of the
\* buffer, unless write() itself takes a part.  With a precision of 20 and more the text is
\* not the number's decimals: the factor has wrapped (Scale).
THEOREM EveryLineWhole == Spec => []RecordWhole
<1>1. LineInv => RecordWhole
  BY DEF LineInv
<1>2. QED
  BY <1>1, InitInv, StepInv, InitLine, StepLine, PTL DEF Spec
=============================================================================
