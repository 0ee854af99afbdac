------------------------------ MODULE MCDispatch ------------------------------
\* Dispatch with a good registration and a log-in, and one packet for each way to be
\* wrong: no body, another size, a wrong checksum, a code without handler, and a
\* code beyond the table.
EXTENDS Dispatch

Good == [body |-> "register", crc |-> TRUE, msgCode |-> 5]

MCPackets ==
  {Good,
   [Good EXCEPT !.body = "none"], [Good EXCEPT !.body = "other"],
   [Good EXCEPT !.crc = FALSE],
   [Good EXCEPT !.msgCode = 4], [Good EXCEPT !.msgCode = 6], [Good EXCEPT !.msgCode = 7]}
=============================================================================
