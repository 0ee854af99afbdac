------------------------------ MODULE MCStartup ------------------------------
\* Startup with configurations of up to two ports.  80 and 65616 are the same port
\* once they are cut to 16 bits, and a missing item is port 10000 for each of them.
EXTENDS Startup

MCConfs ==
  [file : {"ok", "missing", "unreadable"}, Log : BOOLEAN,
   LogLevel : {Absent, Garbage}, ListenPortCount : {Absent, Garbage, 0, 2},
   worker : {Absent, Garbage}, Daemon : {Absent, Garbage, 1},
   port : [1..2 -> {Absent, Garbage, 80, 65616}]]
=============================================================================
