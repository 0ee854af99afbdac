-------------------------------- MODULE Startup --------------------------------
(***************************************************************************)
(* The start of the program, up to the master's cycle: main of             *)
(* app/nginx.cxx, with CConfig::Load and GetIntDefault, ngx_log_init,      *)
(* CSocket::Initialize and ngx_daemon.                                     *)
(*                                                                         *)
(* There are two processes, "main" and the "daemon" it may fork, each with *)
(* its own table of descriptors.  What a descriptor refers to is the       *)
(* terminal, the configuration, the log file, /dev/null or a socket.  A step is one *)
(* system call with what the code makes of its result; any of them may     *)
(* fail.  The configuration is what the parser made of it: an item is      *)
(* absent, a number, or something that std::stoi rejects.                  *)
(***************************************************************************)
EXTENDS Integers, Sequences, FiniteSets, Functions

CONSTANTS
  Absent, Garbage,  \* values of an item that are not numbers
  Confs,            \* the configurations considered
  MaxFds            \* the limit on descriptors of a process (RLIMIT_NOFILE)

ItemValues == Int \cup {Absent, Garbage}

\* What file there is, whether it names a log file, and its numbers; worker stands
\* for worker_connections and Sock_RecyConnectionWaitTime, port[i] for the item
\* "ListenPort" with the number i - 1.
ConfType == [file : {"ok", "missing", "unreadable"}, Log : BOOLEAN,
             LogLevel : ItemValues, ListenPortCount : ItemValues,
             worker : ItemValues, Daemon : ItemValues, port : Seq(ItemValues)]

ASSUME StartupAssumption ==
  /\ Absent \notin Int /\ Garbage \notin Int /\ Absent # Garbage
  /\ Confs \subseteq ConfType
  /\ MaxFds \in Nat /\ MaxFds > 3

VARIABLES
  conf,              \* the configuration of this start
  pc,                \* where each process is
  fds,               \* the descriptor table of each process
  logfd,             \* ngx_log.fd of each process
  sock,              \* the sockets made, in order: their port and state
  m_ListenSocketList,\* the listening sockets the program knows of
  sockfd,            \* the socket that is being prepared
  nullfd,            \* fd of ngx_daemon
  pid,               \* ngx_pid and ngx_parent of each process
  exitcode           \* what main returned, in each process

sockVars == <<sock, m_ListenSocketList, sockfd>>
vars == <<conf, pc, fds, logfd, sockVars, nullfd, pid, exitcode>>

Procs == {"main", "daemon"}
Fds == 0..(MaxFds - 1)
Stderr == 2
NoFd == -1

Tty == <<"tty", 0>>
Conf == <<"conf", 0>>
Log == <<"log", 0>>
Null == <<"null", 0>>
Sock(i) == <<"socket", i>>
Objects == {"tty", "conf", "log", "null", "socket"} \X Nat

-----------------------------------------------------------------------------
(* Descriptor tables *)

\* The kernel gives out the lowest number that is free, or fails.
IsNewFd(t, n) ==
  /\ n \in Fds \ DOMAIN t
  /\ \A m \in 0..(n - 1) : m \in DOMAIN t

Install(t, n, obj) ==
  [m \in DOMAIN t \cup {n} |-> IF m = n THEN obj ELSE t[m]]

Close(t, n) == Restrict(t, DOMAIN t \ {n})

StdTable == [n \in 0..Stderr |-> Tty]
NoTable == [n \in {} |-> Tty]

-----------------------------------------------------------------------------
\* The program is started from a shell, with its three standard descriptors.
Init ==
  /\ conf \in Confs
  /\ pc = [p \in Procs |-> IF p = "main" THEN "load" ELSE "none"]
  /\ fds = [p \in Procs |-> IF p = "main" THEN StdTable ELSE NoTable]
  /\ logfd = [p \in Procs |-> NoFd]
  /\ sock = <<>> /\ m_ListenSocketList = <<>>
  /\ sockfd = NoFd /\ nullfd = NoFd
  /\ pid = [p \in Procs |-> [own |-> "main", parent |-> "shell"]]
  /\ exitcode = [p \in Procs |-> NoFd]

At(p, l) == pc[p] = l
Goto(p, l) == pc' = [pc EXCEPT ![p] = l]
SetTable(p, t) == fds' = [fds EXCEPT ![p] = t]

\* An exception nobody catches.
Terminate(p) ==
  /\ Goto(p, "terminated")
  /\ UNCHANGED <<conf, fds, logfd, sockVars, nullfd, pid, exitcode>>

\* GetIntDefault, for an item that is not garbage (which makes it throw).
IntDefault(v, def) == IF v = Absent THEN def ELSE v

\* Mutant: the check for stderr is missing.
LogIsOpen_EvenStderr(p) == logfd[p] # NoFd

LogIsOpen(p) == logfd[p] \notin {NoFd, Stderr}

\* freeresource, when the process has the descriptors t.
freeresource(p, t) ==
  /\ SetTable(p, IF LogIsOpen(p) THEN Close(t, logfd[p]) ELSE t)
  /\ logfd' = [logfd EXCEPT ![p] = IF LogIsOpen(p) THEN NoFd ELSE @]

\* The end of main: exit_process or freeresource, and return c.
Return(p, c, t) ==
  /\ freeresource(p, t)
  /\ exitcode' = [exitcode EXCEPT ![p] = c]
  /\ Goto(p, "exited")
  /\ UNCHANGED conf

Fail(p) ==
  /\ Return(p, 1, fds[p])
  /\ UNCHANGED <<sockVars, nullfd, pid>>

-----------------------------------------------------------------------------
(* Configuration, log and signals *)

\* CConfig::Load.  A file that cannot be opened makes it throw: main never sees
\* it return false.  Otherwise it stays open, as the FileReader is static.  If it
\* can be opened but not read, the loop of readFile never ends, because feof stays
\* false: no step leads away from "reading".
LoadConf ==
  /\ At("main", "load")
  /\ \/ conf.file = "missing" /\ Terminate("main")
     \/ /\ conf.file # "missing"
        /\ \E n \in Fds : IsNewFd(fds["main"], n)
                          /\ SetTable("main", Install(fds["main"], n, Conf))
        /\ Goto("main", IF conf.file = "ok" THEN "log" ELSE "reading")
        /\ UNCHANGED <<conf, logfd, sockVars, nullfd, pid, exitcode>>

\* ngx_log_init builds a std::string from the null pointer that GetString returns
\* for a missing item: it throws, before the line that tests for null.
BadLogConf ==
  /\ At("main", "log")
  /\ ~conf.Log \/ conf.LogLevel = Garbage
  /\ Terminate("main")

\* The file is opened, or what is logged goes to stderr.
OpenLog ==
  /\ At("main", "log")
  /\ conf.Log /\ conf.LogLevel # Garbage
  /\ \/ \E n \in Fds :
          /\ IsNewFd(fds["main"], n)
          /\ SetTable("main", Install(fds["main"], n, Log))
          /\ logfd' = [logfd EXCEPT !["main"] = n]
     \/ /\ logfd' = [logfd EXCEPT !["main"] = Stderr]
        /\ UNCHANGED fds
  /\ Goto("main", "signals")
  /\ UNCHANGED <<conf, sockVars, nullfd, pid, exitcode>>

\* ngx_init_signals.
InitSignals ==
  /\ At("main", "signals")
  /\ \/ Fail("main")
     \/ /\ Goto("main", "readconf")
        /\ UNCHANGED <<conf, fds, logfd, sockVars, nullfd, pid, exitcode>>

\* CSocket::ReadConf.
ReadConf ==
  /\ At("main", "readconf")
  /\ \/ Garbage \in {conf.ListenPortCount, conf.worker} /\ Terminate("main")
     \/ /\ Garbage \notin {conf.ListenPortCount, conf.worker}
        /\ Goto("main", "socket")
        /\ UNCHANGED <<conf, fds, logfd, sockVars, nullfd, pid, exitcode>>

-----------------------------------------------------------------------------
(* CSocket::ngx_open_listening_sockets *)

m_ListenPortCount == IntDefault(conf.ListenPortCount, 1)

\* Mutant: the last port is left out.
MorePorts_OneTooFew == Len(m_ListenSocketList) + 1 < m_ListenPortCount

MorePorts == Len(m_ListenSocketList) < m_ListenPortCount

\* The item "ListenPort%d" of the socket that is being prepared.
PortItem ==
  IF Len(sock) \in DOMAIN conf.port THEN conf.port[Len(sock)] ELSE Absent

\* Mutant: the port is not cut to 16 bits.
Port_Whole == IntDefault(PortItem, 10000)

\* What htons((in_port_t)iport) keeps of it.
Port == IntDefault(PortItem, 10000) % 65536

Last == Len(sock)

\* socket()
OpenSocket ==
  /\ At("main", "socket") /\ MorePorts
  /\ \/ Fail("main")
     \/ \E n \in Fds :
          /\ IsNewFd(fds["main"], n)
          /\ SetTable("main", Install(fds["main"], n, Sock(Last + 1)))
          /\ sock' = Append(sock, [port |-> 0, state |-> "new"])
          /\ sockfd' = n
          /\ Goto("main", "options")
          /\ UNCHANGED <<conf, logfd, m_ListenSocketList, nullfd, pid, exitcode>>

\* Mutant: the socket stays open.
CloseAndFail_Forgets ==
  /\ Return("main", 1, fds["main"])
  /\ UNCHANGED <<sockVars, nullfd, pid>>

\* A call on the new socket fails: it is closed, and the program ends.  Sockets
\* that listen already are left to the end of the process.
CloseAndFail ==
  /\ Return("main", 1, Close(fds["main"], sockfd))
  /\ UNCHANGED <<sockVars, nullfd, pid>>

\* setsockopt and setnonblocking.
SetOptions ==
  /\ At("main", "options")
  /\ \/ CloseAndFail
     \/ /\ Goto("main", "bind")
        /\ UNCHANGED <<conf, fds, logfd, sockVars, nullfd, pid, exitcode>>

\* A port may be taken by another program; one that this program listens on is.
PortTaken == Port # 0 /\ \E i \in 1..(Last - 1) : sock[i].port = Port

\* Mutant: bind is tried until it works.
Bind_Retries ==
  /\ At("main", "bind") /\ PortItem # Garbage
  /\ \/ UNCHANGED vars
     \/ /\ ~PortTaken
        /\ sock' = [sock EXCEPT ![Last] = [port |-> Port, state |-> "bound"]]
        /\ Goto("main", "listen")
        /\ UNCHANGED <<conf, fds, logfd, m_ListenSocketList, sockfd, nullfd, pid,
                       exitcode>>

\* bind()
Bind ==
  /\ At("main", "bind") /\ PortItem # Garbage
  /\ \/ CloseAndFail
     \/ /\ ~PortTaken
        /\ sock' = [sock EXCEPT ![Last] = [port |-> Port, state |-> "bound"]]
        /\ Goto("main", "listen")
        /\ UNCHANGED <<conf, fds, logfd, m_ListenSocketList, sockfd, nullfd, pid,
                       exitcode>>

\* GetIntDefault throws between socket() and bind().
BadPort ==
  /\ At("main", "bind") /\ PortItem = Garbage
  /\ Terminate("main")

\* listen(), and the socket goes to the list.
Listen ==
  /\ At("main", "listen")
  /\ \/ CloseAndFail
     \/ /\ sock' = [sock EXCEPT ![Last].state = "listening"]
        /\ m_ListenSocketList' = Append(m_ListenSocketList, sockfd)
        /\ Goto("main", "socket")
        /\ UNCHANGED <<conf, fds, logfd, sockfd, nullfd, pid, exitcode>>

\* The end of the loop: an empty list is a failure.
SocketsDone ==
  /\ At("main", "socket") /\ ~MorePorts
  /\ \/ m_ListenSocketList = <<>> /\ Fail("main")
     \/ /\ m_ListenSocketList # <<>> /\ Goto("main", "daemonize")
        /\ UNCHANGED <<conf, fds, logfd, sockVars, nullfd, pid, exitcode>>

-----------------------------------------------------------------------------
(* ngx_daemon *)

StayInForeground ==
  /\ At("main", "daemonize")
  /\ \/ conf.Daemon = Garbage /\ Terminate("main")
     \/ /\ conf.Daemon # Garbage /\ IntDefault(conf.Daemon, 0) # 1
        /\ Goto("main", "cycle")
        /\ UNCHANGED <<conf, fds, logfd, sockVars, nullfd, pid, exitcode>>

\* fork(): the child has copies of everything, the descriptors included.
ForkDaemon ==
  /\ At("main", "daemonize") /\ conf.Daemon = 1
  /\ \/ Fail("main")
     \/ /\ pc' = [pc EXCEPT !["main"] = "parent", !["daemon"] = "setsid"]
        /\ fds' = [fds EXCEPT !["daemon"] = fds["main"]]
        /\ logfd' = [logfd EXCEPT !["daemon"] = logfd["main"]]
        /\ pid' = [pid EXCEPT !["daemon"] = pid["main"]]
        /\ UNCHANGED <<conf, sockVars, nullfd, exitcode>>

\* The original process returns 0 and knows nothing of what becomes of the child.
ParentReturns ==
  /\ At("main", "parent")
  /\ Return("main", 0, fds["main"])
  /\ UNCHANGED <<sockVars, nullfd, pid>>

\* The child's own process numbers, and setsid().
SetSid ==
  /\ At("daemon", "setsid")
  /\ pid' = [pid EXCEPT !["daemon"] = [own |-> "daemon", parent |-> @.own]]
  /\ \/ Return("daemon", 1, fds["daemon"]) /\ UNCHANGED <<sockVars, nullfd>>
     \/ /\ Goto("daemon", "null")
        /\ UNCHANGED <<conf, fds, logfd, sockVars, nullfd, exitcode>>

\* open("/dev/null")
OpenNull ==
  /\ At("daemon", "null")
  /\ \/ Fail("daemon")
     \/ \E n \in Fds :
          /\ IsNewFd(fds["daemon"], n)
          /\ SetTable("daemon", Install(fds["daemon"], n, Null))
          /\ nullfd' = n
          /\ Goto("daemon", "dup0")
          /\ UNCHANGED <<conf, logfd, sockVars, pid, exitcode>>

\* dup2(fd, STDIN_FILENO), then dup2(fd, STDOUT_FILENO).
Dup2(here, n, next) ==
  /\ At("daemon", here)
  /\ \/ Fail("daemon")
     \/ /\ SetTable("daemon", Install(fds["daemon"], n, fds["daemon"][nullfd]))
        /\ Goto("daemon", next)
        /\ UNCHANGED <<conf, logfd, sockVars, nullfd, pid, exitcode>>

WithoutNull(t) == IF nullfd > Stderr THEN Close(t, nullfd) ELSE t

\* close(fd), which the kernel carries out even when it reports an error.
CloseNull ==
  /\ At("daemon", "close")
  /\ \/ Return("daemon", 1, WithoutNull(fds["daemon"])) /\ UNCHANGED sockVars
     \/ /\ SetTable("daemon", WithoutNull(fds["daemon"]))
        /\ Goto("daemon", "cycle")
        /\ UNCHANGED <<conf, logfd, sockVars, exitcode>>
  /\ UNCHANGED <<nullfd, pid>>

Main ==
  \/ LoadConf \/ BadLogConf \/ OpenLog \/ InitSignals \/ ReadConf
  \/ OpenSocket \/ SetOptions \/ Bind \/ BadPort \/ Listen \/ SocketsDone
  \/ StayInForeground \/ ForkDaemon \/ ParentReturns

Daemon ==
  \/ SetSid \/ OpenNull
  \/ Dup2("dup0", 0, "dup1") \/ Dup2("dup1", 1, "close")
  \/ CloseNull

Next == Main \/ Daemon

Spec == Init /\ [][Next]_vars

\* Both processes run.
FairSpec == Spec /\ WF_vars(Main) /\ WF_vars(Daemon)

-----------------------------------------------------------------------------
Started(p) == pc[p] # "none"

MainLabels == {"load", "reading", "log", "signals", "readconf", "socket", "options",
               "bind", "listen", "daemonize", "parent"}
DaemonLabels == {"none", "setsid", "null", "dup0", "dup1", "close"}
Labels == MainLabels \cup DaemonLabels \cup {"cycle", "exited", "terminated"}
PortNumbers == {n \in Nat : n < 65536}
SockType == [port : PortNumbers, state : {"new", "bound", "listening"}]
PidType == [own : Procs, parent : Procs \cup {"shell"}]
IsTable(t) == DOMAIN t \subseteq Fds /\ \A n \in DOMAIN t : t[n] \in Objects

\* The type invariant.
TypeOK ==
  /\ conf \in Confs
  /\ pc \in [Procs -> Labels]
  /\ DOMAIN fds = Procs /\ \A p \in Procs : IsTable(fds[p])
  /\ logfd \in [Procs -> Fds \cup {NoFd}]
  /\ sock \in Seq(SockType)
  /\ m_ListenSocketList \in Seq(Fds)
  /\ sockfd \in Fds \cup {NoFd} /\ nullfd \in Fds \cup {NoFd}
  /\ pid \in [Procs -> PidType]
  /\ exitcode \in [Procs -> {NoFd, 0, 1}]

\* Every socket of the list listens, and the process can use it under the number
\* the list has for it.
Usable(p) ==
  \A i \in DOMAIN m_ListenSocketList :
    /\ i \in DOMAIN sock /\ sock[i].state = "listening"
    /\ m_ListenSocketList[i] \in DOMAIN fds[p]
    /\ fds[p][m_ListenSocketList[i]] = Sock(i)

\* All or nothing: a process that goes on as master has every port that was
\* configured, and one at least, whatever descriptors it has opened, copied and
\* closed meanwhile; and the command reports success only if that is so.
StartedWhole ==
  \A p \in Procs :
    At(p, "cycle") \/ (At(p, "exited") /\ exitcode[p] = 0)
      => /\ Usable(p)
         /\ Len(m_ListenSocketList) = m_ListenPortCount
         /\ m_ListenSocketList # <<>>

\* What is logged goes to the log file or to stderr and nowhere else: the number
\* in ngx_log never leads to a socket, to /dev/null or to nothing, and stderr
\* stays what it was.
LogReachesLog ==
  \A p \in Procs : Started(p) =>
    /\ Stderr \in DOMAIN fds[p] /\ fds[p][Stderr] = Tty
    /\ LogIsOpen(p) => logfd[p] \in DOMAIN fds[p] /\ fds[p][logfd[p]] = Log

\* Nothing but the configuration file is left open on the way: a process that has
\* returned, or goes on as master, has no socket it does not know of, no log file
\* but that of ngx_log, and as master no third number for /dev/null.
NothingStray ==
  \A p \in Procs : At(p, "cycle") \/ At(p, "exited") =>
    \A n \in DOMAIN fds[p] :
      /\ fds[p][n] = Log => logfd[p] = n
      /\ fds[p][n] \in {Sock(i) : i \in DOMAIN sock}
           => n \in Range(m_ListenSocketList)
      /\ fds[p][n] = Null /\ At(p, "cycle") => n < Stderr

Ended(p) == pc[p] \in {"cycle", "exited", "terminated"}

\* The start comes to an end, in both processes, if the configuration can be read.
StartEnds ==
  conf.file # "unreadable" =>
    /\ <>Ended("main")
    /\ Started("daemon") ~> Ended("daemon")
=============================================================================
