-------------------------------- MODULE Log --------------------------------
(***************************************************************************)
(* ngx_log_stderr, ngx_log_errno and ngx_log_error_core of app/ngx_log.cxx.*)
(* ngx_log_stderr writes a line on the console and, when a log file is     *)
(* open, calls ngx_log_error_core with that line as the format.            *)
(*                                                                         *)
(* A % in that line starts a directive that nobody has written.  What      *)
(* follows depends on the next characters and on what lies on the stack:   *)
(* the model calls it astray and says no more about the record.            *)
(***************************************************************************)
EXTENDS Format, SequencesExt

CONSTANTS
  Prefix,       \* "nginx: "
  Stamp,        \* time, level and process id, in front of a line of the log
  ErrInfo,      \* " (number: strerror) " of each error number
  Calls         \* the calls the program makes

NGX_LOG_STDERR == 0
NGX_LOG_NOTICE == 6

ASSUME LogAssumption ==
  /\ {Prefix, Stamp} \subseteq Seq(Char) /\ {"\n", "%"} \subseteq Char
  /\ Len(Prefix) <= NGX_MAX_ERROR_STR /\ Len(Stamp) \in 1..NGX_MAX_ERROR_STR
  /\ NGX_MAX_ERROR_STR > 2
  /\ 0 \notin DOMAIN ErrInfo /\ \A e \in DOMAIN ErrInfo : ErrInfo[e] \in Seq(Char)
  /\ Calls \subseteq [fn : {"ngx_log_stderr", "ngx_log_error_core"}, fmt : Seq(Item),
                      err : {0} \cup DOMAIN ErrInfo, level : Nat]

VARIABLES
  pc,
  fn,           \* the function whose buffer it is
  err, level,   \* its parameters
  length,       \* p - errstr, once the record is complete
  fd,           \* ngx_log.fd: "none" is -1
  log_level,
  disk,         \* what a write to the file meets: "ok", "full" (ENOSPC), "short" (room for
                \* a part), or "broken"
  console,      \* the records written to stderr by this call
  file,         \* the records written to the file by this call
  asked         \* history: the call

vars == <<formatVars, pc, fn, err, level, length, fd, log_level, disk, console, file, asked>>
callVars == <<fd, log_level, disk, asked>>

\* A function starts: its buffer begins with what comes in front of the text.
PrefixOf(function) == IF function = "ngx_log_stderr" THEN Prefix ELSE Stamp

\* A call, whatever has become of the log file.
Init ==
  /\ asked \in Calls
  /\ fn = asked.fn /\ err = asked.err /\ level = asked.level
  /\ fmt = asked.fmt /\ pos = 1 /\ astray = FALSE /\ buf = PrefixOf(asked.fn)
  /\ pc = "expand" /\ length = 0
  /\ fd \in {"none", "stderr", "file"} /\ disk \in {"ok", "full", "short", "broken"}
  /\ log_level \in {NGX_LOG_STDERR, NGX_LOG_NOTICE}
  /\ console = <<>> /\ file = <<>>

Expand ==
  /\ pc = "expand"
  /\ Turn
  /\ UNCHANGED <<pc, fn, err, level, length, callVars, console, file>>

\* The record is whatever it is.
GoAstray ==
  /\ pc = "expand" /\ astray
  /\ pc' = "return"
  /\ UNCHANGED <<formatVars, fn, err, level, length, callVars, console, file>>

\* Mutant: as much of it as fits.
WithErrno_InPart(b) == IF err # 0 THEN CopyTo(b, ErrInfo[err]) ELSE b

\* ngx_log_errno: all of it, or nothing.
WithErrno(b) ==
  IF err # 0 /\ Len(b) + Len(ErrInfo[err]) < NGX_MAX_ERROR_STR
  THEN b \o ErrInfo[err] ELSE b

\* The newline takes the last place but one, if it must.
NewlineAt(b) == Least(Len(b), NGX_MAX_ERROR_STR - 2)

FinishRecord ==
  LET b == WithErrno(buf)
      p == NewlineAt(b)
  IN /\ pc = "expand" /\ ~astray /\ ~MoreToExpand
     /\ buf' = SubSeq(b, 1, p) \o <<"\n">> \o SubSeq(b, p + 2, Len(b))
     /\ length' = p + 1
     /\ pc' = "write"
     /\ UNCHANGED <<fmt, pos, astray, fn, err, level, callVars, console, file>>

Record == SubSeq(buf, 1, length)

\* A text as a format without arguments.
AsItem(c) ==
  [conv |-> IF c = "%" THEN "end" ELSE "char", char |-> c, num |-> 0, str |-> <<>>,
   signed |-> TRUE, zero |-> " ", width |-> 0, frac |-> 0, hex |-> 0]
AsFormat(text) == [k \in 1..Len(text) |-> AsItem(text[k])]

\* The end of ngx_log_stderr: the console, and the file if there is one.
WriteConsole ==
  /\ pc = "write" /\ fn = "ngx_log_stderr"
  /\ console' = Append(console, Record)
  /\ \/ /\ fd = "file"
        /\ fn' = "ngx_log_error_core" /\ level' = NGX_LOG_STDERR
        /\ fmt' = AsFormat(buf) /\ pos' = 1 /\ astray' = FALSE
        /\ buf' = PrefixOf("ngx_log_error_core")
        /\ pc' = "expand"
     \/ /\ fd # "file"
        /\ pc' = "return"
        /\ UNCHANGED <<formatVars, fn, level>>
  /\ UNCHANGED <<err, length, callVars, file>>

\* Mutant: an error is an error.
Fallback_Never == FALSE

\* An error other than a full disk sends the record to the console, if it was for
\* another descriptor.
Fallback == (fd = "file" /\ disk = "broken") \/ fd = "none"

\* What gets into the file: nobody looks whether it is all of the record.
InFile(record) ==
  CASE disk = "ok"    -> {<<record>>}
    [] disk = "short" -> {<<SubSeq(record, 1, n)>> : n \in 0..(Len(record) - 1)}
    [] OTHER          -> {<<>>}

\* The end of ngx_log_error_core.
WriteLog ==
  /\ pc = "write" /\ fn = "ngx_log_error_core"
  /\ LET written == level <= log_level IN
     /\ \E text \in (IF written /\ fd = "file" THEN InFile(Record) ELSE {<<>>}) :
          file' = file \o text
     /\ console' = IF written /\ (fd = "stderr" \/ Fallback)
                   THEN Append(console, Record) ELSE console
  /\ pc' = "return"
  /\ UNCHANGED <<formatVars, fn, err, level, length, callVars>>

Next == Expand \/ GoAstray \/ FinishRecord \/ WriteConsole \/ WriteLog

Spec == Init /\ [][Next]_vars

-----------------------------------------------------------------------------
\* The type invariant.  Nothing is ever written beyond the end of a buffer.
TypeOK ==
  /\ pc \in {"return", "expand", "write"}
  /\ fn \in {"ngx_log_stderr", "ngx_log_error_core"}
  /\ err \in {0} \cup DOMAIN ErrInfo /\ level \in Nat /\ length \in 0..NGX_MAX_ERROR_STR
  /\ fmt \in Seq(Item) /\ pos \in 1..(Len(fmt) + 1) /\ astray \in BOOLEAN
  /\ buf \in Seq(Char) /\ Len(buf) <= NGX_MAX_ERROR_STR
  /\ fd \in {"none", "stderr", "file"} /\ log_level \in Nat
  /\ disk \in {"ok", "full", "short", "broken"} /\ asked \in Calls
  /\ console \in Seq(Seq(Char)) /\ file \in Seq(Seq(Char))

\* Every line written, wherever it ends up, is what the format and its arguments give,
\* then the error whole, and a newline.  If that does not fit the line is cut: the text
\* where the buffer ends, the error left out, or short of the blank at its end, and the
\* newline always there.  Only a short write leaves something else in the file.
LineWhole(record, text, info) ==
  LET full == text \o info
      room == NGX_MAX_ERROR_STR - 2
      line == Front(record)
  IN /\ Last(record) = "\n" /\ Len(line) <= room
     /\ IsPrefix(line, full)
     /\ line = full \/ Len(full) > room
     /\ Len(line) >= Least(Len(text), room)
     /\ Len(line) > Len(text) => Len(line) >= Len(full) - 1

RecordWhole ==
  LET text    == Texts(PrefixOf(asked.fn), asked.fmt)[Len(asked.fmt)]
      info    == IF asked.err = 0 THEN <<>> ELSE ErrInfo[asked.err]
      records == IF asked.fn = "ngx_log_stderr" THEN {console[i] : i \in DOMAIN console \cap {1}}
                 ELSE ToSet(console) \cup IF disk = "short" THEN {} ELSE ToSet(file)
  IN \A record \in records : LineWhole(record, text, info)

\* What ngx_log_stderr has written on the console is also in the log, as the comment at its
\* call of ngx_log_error_core says, or again on the console if the log cannot be written;
\* it is neither filtered nor expanded a second time into something else, unless it
\* contains a %.  The comment of NGX_LOG_STDERR in ngx_macro.h says the contrary, that such
\* a line is no longer written to the log: the function does not follow that one.
CopyReachesLog ==
  LET first == console[1]
      copies == IF disk = "broken" THEN SubSeq(console, 2, Len(console)) ELSE file
      copy == Stamp \o first
      m == Least(Len(copy), NGX_MAX_ERROR_STR - 2)
  IN pc = "return" /\ asked.fn = "ngx_log_stderr" /\ console # <<>> /\ fd = "file" =>
       IF astray THEN "%" \in ToSet(first)
       ELSE \/ disk \in {"full", "short"}
            \/ Len(copies) = 1 /\ IsPrefix(SubSeq(copy, 1, m), copies[1])
=============================================================================
