----------------------------- MODULE StartupProofs -----------------------------
(***************************************************************************)
(* Proofs about Startup, for every set of configurations and every limit   *)
(* on descriptors.                                                         *)
(***************************************************************************)
EXTENDS Startup, TLAPS

\* The three standard descriptors are open, and stderr is untouched.
StdOK(t) ==
  /\ 0 \in DOMAIN t /\ t[0] \in {Tty, Null}
  /\ 1 \in DOMAIN t /\ t[1] \in {Tty, Null}
  /\ 2 \in DOMAIN t /\ t[2] = Tty

LogOK(t, l) == l \notin {NoFd, Stderr} => l \in DOMAIN t /\ t[l] = Log

ListOK(t) ==
  \A k \in DOMAIN m_ListenSocketList :
    /\ m_ListenSocketList[k] \in DOMAIN t
    /\ t[m_ListenSocketList[k]] = Sock(k)

\* What is true of the table t of a process whose ngx_log.fd is l.
Good(t, l) == IsTable(t) /\ StdOK(t) /\ LogOK(t, l) /\ ListOK(t)

GoodTables == \A p \in Procs : Started(p) => Good(fds[p], logfd[p])

Listening ==
  \A k \in DOMAIN m_ListenSocketList :
    k \in DOMAIN sock /\ sock[k].state = "listening"

\* Where main is, and what it has done so far.
Early == {"load", "log", "signals", "readconf"}
Preparing == {"options", "bind", "listen"}
Complete == {"daemonize", "parent", "cycle"}

CountIsInt == m_ListenPortCount \in Int

Whole == Len(m_ListenSocketList) = m_ListenPortCount /\ m_ListenSocketList # <<>>

MainInv ==
  /\ pc["main"] \in Early => sock = <<>> /\ m_ListenSocketList = <<>>
  /\ pc["main"] \in {"socket"} \cup Preparing => CountIsInt
  /\ pc["main"] = "socket" =>
       /\ Len(sock) = Len(m_ListenSocketList)
       /\ m_ListenSocketList = <<>> \/ Len(m_ListenSocketList) <= m_ListenPortCount
  /\ pc["main"] \in Preparing =>
       /\ Len(sock) = Len(m_ListenSocketList) + 1
       /\ Len(m_ListenSocketList) < m_ListenPortCount
       /\ sockfd \in DOMAIN fds["main"]
       /\ fds["main"][sockfd] = Sock(Len(sock))
  /\ pc["main"] \in Complete => Whole
  /\ pc["main"] \notin DaemonLabels
  /\ exitcode["main"] = 0 => pc["main"] = "exited" /\ Whole

DaemonInv ==
  /\ Started("daemon") => pc["main"] \in {"parent", "exited"} /\ Whole
  /\ pc["daemon"] \in DaemonLabels \cup {"cycle", "exited"}
  /\ exitcode["daemon"] # 0
  /\ pc["daemon"] \in {"dup0", "dup1", "close"} =>
       nullfd \in DOMAIN fds["daemon"] /\ fds["daemon"][nullfd] = Null

IInv == TypeOK /\ GoodTables /\ Listening /\ MainInv /\ DaemonInv

-----------------------------------------------------------------------------
(* Tables *)

\* Different things have different names.
LEMMA ObjectFacts ==
  /\ Tty \in Objects /\ Conf \in Objects /\ Log \in Objects /\ Null \in Objects
  /\ \A k \in Nat : Sock(k) \in Objects
  /\ Tty # Log /\ Tty # Null /\ Log # Null
  /\ \A k : Sock(k) # Tty /\ Sock(k) # Log /\ Sock(k) # Null
  /\ \A k, m : Sock(k) = Sock(m) => k = m
  BY DEF Tty, Conf, Log, Null, Sock, Objects

\* A fresh number keeps a table good; if it is the log's, it may become ngx_log.fd.
LEMMA InstallGood ==
  ASSUME NEW t, NEW l, Good(t, l), NEW n \in Fds, n \notin DOMAIN t,
         NEW obj \in Objects
  PROVE  /\ Good(Install(t, n, obj), l)
         /\ obj = Log => Good(Install(t, n, obj), n)
<1> DEFINE u == Install(t, n, obj)
<1>1. /\ DOMAIN u = DOMAIN t \cup {n} /\ u[n] = obj
      /\ \A m \in DOMAIN t : m # n => u[m] = t[m]
  BY DEF Install
<1>2. \A m \in DOMAIN t : u[m] = t[m]
  BY <1>1
<1> HIDE DEF u
<1>3. IsTable(u)
  BY <1>1, <1>2 DEF Good, IsTable
<1>4. StdOK(u)
  BY <1>1, <1>2 DEF Good, StdOK
<1>5. ListOK(u)
  BY <1>1, <1>2 DEF Good, ListOK
<1>6. LogOK(u, l)
  BY <1>1, <1>2 DEF Good, LogOK
<1>7. obj = Log => LogOK(u, n)
  BY <1>1 DEF LogOK
<1> QED
  BY <1>3, <1>4, <1>5, <1>6, <1>7 DEF Good, u

\* Closing what is neither the log, nor a socket of the list, nor a standard
\* descriptor keeps a table good.
LEMMA CloseGood ==
  ASSUME NEW t, NEW l, Good(t, l), NEW n, n \in DOMAIN t, n \notin 0..2,
         t[n] # Log, \A k \in DOMAIN m_ListenSocketList : t[n] # Sock(k)
  PROVE  Good(Close(t, n), l)
<1> DEFINE u == Close(t, n)
<1>1. DOMAIN u = DOMAIN t \ {n} /\ \A m \in DOMAIN t : m # n => u[m] = t[m]
  BY DEF Close, Restrict
<1> HIDE DEF u
<1>2. IsTable(u)
  BY <1>1 DEF Good, IsTable
<1>3. StdOK(u)
  BY <1>1 DEF Good, StdOK
<1>4. ListOK(u)
  BY <1>1 DEF Good, ListOK
<1>5. LogOK(u, l)
  BY <1>1 DEF Good, LogOK
<1> QED
  BY <1>2, <1>3, <1>4, <1>5 DEF Good, u

\* dup2 onto a standard descriptor other than stderr keeps a table good.
LEMMA DupGood ==
  ASSUME NEW t, NEW l, Good(t, l), NEW n \in {0, 1}
  PROVE  Good(Install(t, n, Null), l)
<1> DEFINE u == Install(t, n, Null)
<1>1. /\ DOMAIN u = DOMAIN t \cup {n} /\ u[n] = Null
      /\ \A m \in DOMAIN t : m # n => u[m] = t[m]
  BY DEF Install
<1>2. n \in DOMAIN t /\ t[n] \in {Tty, Null}
  BY DEF Good, StdOK
<1> HIDE DEF u
<1>3. IsTable(u)
  BY <1>1, <1>2, ObjectFacts DEF Good, IsTable
<1>4. StdOK(u)
  BY <1>1, <1>2 DEF Good, StdOK
<1>5. ListOK(u)
  BY <1>1, <1>2, ObjectFacts DEF Good, ListOK
<1>6. LogOK(u, l)
  BY <1>1, <1>2, ObjectFacts DEF Good, LogOK
<1> QED
  BY <1>3, <1>4, <1>5, <1>6 DEF Good, u

\* freeresource closes the log and nothing else.
LEMMA FreeGood ==
  ASSUME NEW t, NEW l, Good(t, l)
  PROVE  /\ l \notin {NoFd, Stderr} => Good(Close(t, l), NoFd)
         /\ l \in {NoFd, Stderr} => Good(t, l)
<1> SUFFICES ASSUME l \notin {NoFd, Stderr} PROVE Good(Close(t, l), NoFd)
  OBVIOUS
<1> DEFINE u == Close(t, l)
<1>1. DOMAIN u = DOMAIN t \ {l} /\ \A m \in DOMAIN t : m # l => u[m] = t[m]
  BY DEF Close, Restrict
<1>2. l \in DOMAIN t /\ t[l] = Log
  BY DEF Good, LogOK
<1> HIDE DEF u
<1>3. IsTable(u)
  BY <1>1 DEF Good, IsTable
<1>4. StdOK(u)
  BY <1>1, <1>2, ObjectFacts DEF Good, StdOK
<1>5. ListOK(u)
  BY <1>1, <1>2, ObjectFacts DEF Good, ListOK
<1>6. LogOK(u, NoFd)
  BY DEF LogOK
<1> QED
  BY <1>3, <1>4, <1>5, <1>6 DEF Good, u

-----------------------------------------------------------------------------
(* Steps *)

\* Process p has the table t now, and nothing else has changed in the tables.
TableBecomes(p, t) ==
  /\ DOMAIN fds' = Procs
  /\ fds'[p] = t /\ \A q \in Procs \ {p} : fds'[q] = fds[q]

LEMMA SetTableFacts ==
  ASSUME IInv, NEW p \in Procs, NEW t, SetTable(p, t)
  PROVE  TableBecomes(p, t)
  BY DEF IInv, TypeOK, SetTable, TableBecomes

\* A process replaces its table and its log by good ones; the list stays.
LEMMA TablesStep ==
  ASSUME IInv, NEW p \in Procs, Started(p), NEW t, NEW l \in Fds \cup {NoFd},
         NEW next, Good(t, l), Goto(p, next),
         TableBecomes(p, t), logfd' = [logfd EXCEPT ![p] = l],
         UNCHANGED m_ListenSocketList
  PROVE  /\ GoodTables'
         /\ \A q \in Procs : IsTable(fds'[q])
         /\ DOMAIN fds' = Procs
         /\ logfd' \in [Procs -> Fds \cup {NoFd}]
<1>1. /\ DOMAIN fds = Procs /\ DOMAIN pc = Procs
      /\ logfd \in [Procs -> Fds \cup {NoFd}]
      /\ \A q \in Procs : IsTable(fds[q])
  BY DEF IInv, TypeOK
<1>2. /\ fds'[p] = t /\ logfd'[p] = l
      /\ \A q \in Procs \ {p} :
           fds'[q] = fds[q] /\ logfd'[q] = logfd[q] /\ pc'[q] = pc[q]
  BY <1>1 DEF TableBecomes, Goto
<1>4. GoodTables'
  <2> SUFFICES ASSUME NEW q \in Procs, Started(q)'
               PROVE  Good(fds'[q], logfd'[q])
    BY DEF GoodTables, Good, IsTable, StdOK, LogOK, ListOK
  <2>1. CASE q = p
    BY <2>1, <1>2
  <2>2. CASE q # p
    BY <2>2, <1>2 DEF IInv, GoodTables, Started
  <2> QED
    BY <2>1, <2>2
<1>5. \A q \in Procs : IsTable(fds'[q])
  BY <1>1, <1>2 DEF Good
<1> QED
  BY <1>1, <1>4, <1>5 DEF TableBecomes

\* A step that only moves a process on, or gives it its numbers.
LEMMA QuietStep ==
  ASSUME IInv, NEW p \in Procs, Started(p), NEW next \in Labels, next # "none",
         Goto(p, next), pid' \in [Procs -> PidType],
         UNCHANGED <<conf, fds, logfd, sockVars, nullfd, exitcode>>
  PROVE  TypeOK' /\ GoodTables' /\ Listening'
<1>1. TypeOK'
  BY DEF IInv, TypeOK, Goto, sockVars
<1>2. \A q \in Procs : Started(q)' <=> Started(q)
  BY DEF IInv, TypeOK, Goto, Started
<1>3. GoodTables'
  BY <1>2 DEF IInv, GoodTables, Good, IsTable, StdOK, LogOK, ListOK, sockVars
<1>4. Listening'
  BY DEF IInv, Listening, sockVars
<1> QED
  BY <1>1, <1>3, <1>4

\* The end of main, from a good table.
LEMMA ReturnStep ==
  ASSUME IInv, NEW p \in Procs, Started(p), NEW c \in {0, 1}, NEW t,
         Return(p, c, t), Good(t, logfd[p]), UNCHANGED <<sockVars, nullfd>>,
         pid' \in [Procs -> PidType], c = 0 => p = "main" /\ Whole
  PROVE  IInv'
<1> DEFINE open == logfd[p] \notin {NoFd, Stderr}
           u == IF open THEN Close(t, logfd[p]) ELSE t
           k == IF open THEN NoFd ELSE logfd[p]
<1>1. Good(u, k)
  BY FreeGood
<1>2. /\ SetTable(p, u) /\ logfd' = [logfd EXCEPT ![p] = k]
      /\ Goto(p, "exited") /\ exitcode' = [exitcode EXCEPT ![p] = c]
      /\ conf' = conf /\ sock' = sock /\ sockfd' = sockfd /\ nullfd' = nullfd
      /\ m_ListenSocketList' = m_ListenSocketList
  BY DEF Return, freeresource, LogIsOpen, sockVars
<1>3. TypeOK
  BY DEF IInv
<1>4. k \in Fds \cup {NoFd}
  BY <1>3 DEF TypeOK
<1> HIDE DEF u, k
<1>5. /\ GoodTables' /\ \A q \in Procs : IsTable(fds'[q])
      /\ DOMAIN fds' = Procs /\ logfd' \in [Procs -> Fds \cup {NoFd}]
  BY <1>1, <1>2, <1>4, SetTableFacts, TablesStep
<1>6. TypeOK'
  <2>1. "exited" \in Labels
    BY DEF Labels
  <2>2. pc' \in [Procs -> Labels] /\ exitcode' \in [Procs -> {NoFd, 0, 1}]
    BY <1>2, <1>3, <2>1 DEF TypeOK, Goto
  <2> QED
    BY <1>2, <1>3, <1>5, <2>2 DEF TypeOK, IsTable
<1>7. Listening'
  BY <1>2 DEF IInv, Listening
<1>8. Whole' <=> Whole
  BY <1>2 DEF Whole, m_ListenPortCount
<1>9. DOMAIN pc = Procs /\ DOMAIN fds = Procs /\ DOMAIN exitcode = Procs
  BY <1>3 DEF TypeOK
<1>10. /\ pc'[p] = "exited" /\ exitcode'[p] = c
       /\ \A q \in Procs \ {p} :
            pc'[q] = pc[q] /\ fds'[q] = fds[q] /\ exitcode'[q] = exitcode[q]
  BY <1>2, <1>9 DEF Goto, SetTable
<1>11. CASE p = "main"
  <2>1. MainInv'
    BY <1>2, <1>8, <1>10, <1>11
    DEF MainInv, Early, Preparing, Complete, DaemonLabels, CountIsInt,
        m_ListenPortCount
  <2>2. DaemonInv'
    BY <1>2, <1>8, <1>10, <1>11 DEF IInv, DaemonInv, Started, Procs
  <2> QED
    BY <1>5, <1>6, <1>7, <2>1, <2>2 DEF IInv
<1>12. CASE p = "daemon"
  <2>1. MainInv'
    BY <1>2, <1>8, <1>10, <1>12
    DEF IInv, MainInv, CountIsInt, m_ListenPortCount, Procs
  <2>2. DaemonInv'
    BY <1>2, <1>8, <1>10, <1>12 DEF IInv, DaemonInv, Started, Procs
  <2> QED
    BY <1>5, <1>6, <1>7, <2>1, <2>2 DEF IInv
<1> QED
  BY <1>11, <1>12 DEF Procs

LEMMA FailStep ==
  ASSUME IInv, NEW p \in Procs, Started(p), Fail(p)
  PROVE  IInv'
<1>1. Good(fds[p], logfd[p])
  BY DEF IInv, GoodTables
<1>2. pid' \in [Procs -> PidType]
  BY DEF Fail, IInv, TypeOK
<1>3. Return(p, 1, fds[p]) /\ UNCHANGED <<sockVars, nullfd>>
  BY DEF Fail
<1> QED
  BY <1>1, <1>2, <1>3, ReturnStep

\* The socket that is being prepared is not in the list yet.
LEMMA CloseAndFailStep ==
  ASSUME IInv, pc["main"] \in Preparing, CloseAndFail
  PROVE  IInv'
<1> DEFINE t == fds["main"]
<1>1. Started("main") /\ "main" \in Procs
  BY DEF Preparing, Started, Procs
<1>2. Good(t, logfd["main"])
  BY <1>1 DEF IInv, GoodTables
<1>3. sockfd \in DOMAIN t /\ t[sockfd] = Sock(Len(sock))
  BY DEF IInv, MainInv
<1>4. sockfd \notin 0..2
  BY <1>2, <1>3, ObjectFacts DEF Good, StdOK
<1>5. \A k \in DOMAIN m_ListenSocketList : k # Len(sock)
  <2>1. Len(sock) = Len(m_ListenSocketList) + 1
    BY DEF IInv, MainInv
  <2>2. m_ListenSocketList \in Seq(Fds)
    BY DEF IInv, TypeOK
  <2> QED
    BY <2>1, <2>2
<1>6. Good(Close(t, sockfd), logfd["main"])
  BY <1>2, <1>3, <1>4, <1>5, ObjectFacts, CloseGood
<1>7. pid' \in [Procs -> PidType]
  BY DEF CloseAndFail, IInv, TypeOK
<1>8. Return("main", 1, Close(t, sockfd)) /\ UNCHANGED <<sockVars, nullfd>>
  BY DEF CloseAndFail
<1> QED
  BY <1>1, <1>6, <1>7, <1>8, ReturnStep

\* main goes on to next, where nothing more is asked of it than before.
LEMMA MainGoes ==
  ASSUME IInv, ~Started("daemon"), Started("main"), NEW next \in Labels,
         next \notin DaemonLabels, Goto("main", next),
         UNCHANGED <<conf, fds, logfd, sockVars, nullfd, pid, exitcode>>,
         pc["main"] # "exited",
         next \in Early => pc["main"] \in Early,
         next = "socket" => CountIsInt /\ pc["main"] \in Early,
         next \in Preparing => pc["main"] \in Preparing,
         next \in Complete => Whole
  PROVE  IInv'
<1>1. TypeOK
  BY DEF IInv
<1>2. next # "none" /\ "main" \in Procs
  BY DEF DaemonLabels, Procs
<1>3. TypeOK' /\ GoodTables' /\ Listening'
  BY <1>1, <1>2, QuietStep DEF TypeOK
<1>4. DOMAIN pc = Procs
  BY <1>1 DEF TypeOK
<1>5. pc'["main"] = next /\ pc'["daemon"] = pc["daemon"]
  BY <1>4 DEF Goto, Procs
<1>6. Whole' <=> Whole
  BY DEF Whole, m_ListenPortCount, sockVars
<1>7. CountIsInt' <=> CountIsInt
  BY DEF CountIsInt, m_ListenPortCount
<1>8. m_ListenPortCount' = m_ListenPortCount
  BY DEF m_ListenPortCount
<1>9. /\ sock' = sock /\ m_ListenSocketList' = m_ListenSocketList
      /\ sockfd' = sockfd /\ fds' = fds /\ exitcode' = exitcode
  BY DEF sockVars
<1>10. MainInv
  BY DEF IInv
<1>11. MainInv'
  BY <1>5, <1>6, <1>7, <1>8, <1>9, <1>10 DEF MainInv, Early, Preparing
<1>12. DaemonInv'
  BY <1>5, <1>6, <1>9 DEF IInv, DaemonInv, Started
<1> QED
  BY <1>3, <1>11, <1>12 DEF IInv

\* While main has not forked, it is alone.
LEMMA Alone ==
  ASSUME IInv, NEW here, pc["main"] = here, here \notin {"parent", "exited"}
  PROVE  ~Started("daemon")
  BY DEF IInv, DaemonInv

LEMMA TerminateStep ==
  ASSUME IInv, ~Started("daemon"), Started("main"), pc["main"] # "exited",
         Terminate("main")
  PROVE  IInv'
<1>1. "terminated" \in Labels \ DaemonLabels
  BY DEF Labels, DaemonLabels
<1>2. "terminated" \notin Early \cup Preparing \cup Complete
  BY DEF Early, Preparing, Complete
<1> QED
  BY <1>1, <1>2, MainGoes DEF Terminate

-----------------------------------------------------------------------------
(* The steps before the sockets *)

\* Before there are sockets, main goes on with a new table and a new log.
LEMMA EarlyGoes ==
  ASSUME IInv, pc["main"] \in Early, NEW next \in Early \cup {"reading"},
         Goto("main", next), NEW l \in Fds \cup {NoFd}, NEW t, Good(t, l),
         TableBecomes("main", t), logfd' = [logfd EXCEPT !["main"] = l],
         UNCHANGED <<conf, sockVars, nullfd, pid, exitcode>>
  PROVE  IInv'
<1>1. ~Started("daemon") /\ Started("main")
  BY Alone DEF Early, Started
<1>2. /\ conf' = conf /\ sock' = sock /\ sockfd' = sockfd
      /\ m_ListenSocketList' = m_ListenSocketList
      /\ nullfd' = nullfd /\ pid' = pid /\ exitcode' = exitcode
  BY DEF sockVars
<1>3. /\ GoodTables' /\ \A q \in Procs : IsTable(fds'[q])
      /\ DOMAIN fds' = Procs /\ logfd' \in [Procs -> Fds \cup {NoFd}]
  BY <1>1, <1>2, TablesStep DEF Procs
<1>4. TypeOK
  BY DEF IInv
<1>5. pc' = [pc EXCEPT !["main"] = next] /\ DOMAIN pc = Procs
  BY <1>4 DEF Goto, TypeOK
<1>6. pc'["main"] = next /\ pc'["daemon"] = pc["daemon"]
  BY <1>5 DEF Procs
<1>7. TypeOK'
  <2>1. next \in Labels
    BY DEF Labels, MainLabels, Early
  <2>2. pc' \in [Procs -> Labels]
    BY <1>4, <1>5, <2>1 DEF TypeOK
  <2> QED
    BY <1>2, <1>3, <1>4, <2>2 DEF TypeOK, IsTable
<1>8. Listening'
  BY <1>2 DEF IInv, Listening
<1>9. MainInv'
  BY <1>2, <1>6 DEF IInv, MainInv, Early, Preparing, Complete, DaemonLabels
<1>10. DaemonInv'
  BY <1>1, <1>2, <1>6 DEF IInv, DaemonInv, Started
<1> QED
  BY <1>3, <1>7, <1>8, <1>9, <1>10 DEF IInv

LEMMA LoadConfStep == IInv /\ LoadConf => IInv'
<1> SUFFICES ASSUME IInv, LoadConf PROVE IInv'
  OBVIOUS
<1>1. pc["main"] = "load" /\ ~Started("daemon") /\ Started("main")
  BY Alone DEF LoadConf, At, Started
<1>2. CASE Terminate("main")
  BY <1>1, <1>2, TerminateStep
<1>3. CASE ~Terminate("main")
  <2>1. PICK n \in Fds : IsNewFd(fds["main"], n)
                         /\ SetTable("main", Install(fds["main"], n, Conf))
    BY <1>3 DEF LoadConf
  <2>2. PICK next \in {"log", "reading"} : Goto("main", next)
    BY <1>3 DEF LoadConf
  <2>3. Good(fds["main"], logfd["main"])
    BY <1>1 DEF IInv, GoodTables, Procs
  <2> DEFINE t == Install(fds["main"], n, Conf)
  <2>4. Good(t, logfd["main"])
    BY <2>1, <2>3, InstallGood, ObjectFacts DEF IsNewFd
  <2>5. TableBecomes("main", t)
    BY <2>1, SetTableFacts DEF Procs
  <2>6. /\ logfd' = [logfd EXCEPT !["main"] = logfd["main"]]
        /\ logfd["main"] \in Fds \cup {NoFd}
    BY <1>3 DEF LoadConf, IInv, TypeOK, Procs
  <2>7. UNCHANGED <<conf, sockVars, nullfd, pid, exitcode>>
    BY <1>3 DEF LoadConf
  <2>8. pc["main"] \in Early /\ next \in Early \cup {"reading"}
    BY <1>1 DEF Early
  <2> HIDE DEF t
  <2> QED
    BY <2>2, <2>4, <2>5, <2>6, <2>7, <2>8, EarlyGoes
<1> QED
  BY <1>2, <1>3

LEMMA BadLogConfStep == IInv /\ BadLogConf => IInv'
  BY Alone, TerminateStep DEF BadLogConf, At, Started

LEMMA OpenLogStep == IInv /\ OpenLog => IInv'
<1> SUFFICES ASSUME IInv, OpenLog PROVE IInv'
  OBVIOUS
<1>1. pc["main"] = "log" /\ ~Started("daemon") /\ Started("main")
  BY Alone DEF OpenLog, At, Started
<1>2. Good(fds["main"], logfd["main"])
  BY <1>1 DEF IInv, GoodTables, Procs
<1>3. \E l \in Fds \cup {NoFd} : \E t :
        TableBecomes("main", t) /\ logfd' = [logfd EXCEPT !["main"] = l] /\ Good(t, l)
  <2>1. CASE \E n \in Fds :
               /\ IsNewFd(fds["main"], n)
               /\ SetTable("main", Install(fds["main"], n, Log))
               /\ logfd' = [logfd EXCEPT !["main"] = n]
    <3>1. PICK n \in Fds :
               /\ IsNewFd(fds["main"], n)
               /\ SetTable("main", Install(fds["main"], n, Log))
               /\ logfd' = [logfd EXCEPT !["main"] = n]
      BY <2>1
    <3>2. Good(Install(fds["main"], n, Log), n)
      BY <1>2, <3>1, InstallGood, ObjectFacts DEF IsNewFd
    <3>3. TableBecomes("main", Install(fds["main"], n, Log))
      BY <3>1, SetTableFacts DEF Procs
    <3> QED
      BY <3>1, <3>2, <3>3
  <2>2. CASE logfd' = [logfd EXCEPT !["main"] = Stderr] /\ UNCHANGED fds
    <3>1. TableBecomes("main", fds["main"])
      BY <2>2 DEF TableBecomes, IInv, TypeOK
    <3>2. Good(fds["main"], Stderr)
      BY <1>2 DEF Good, LogOK
    <3>3. Stderr \in Fds
      BY StartupAssumption DEF Stderr, Fds
    <3> QED
      BY <2>2, <3>1, <3>2, <3>3
  <2> QED
    BY <2>1, <2>2 DEF OpenLog
<1>4. Goto("main", "signals") /\ UNCHANGED <<conf, sockVars, nullfd, pid, exitcode>>
  BY DEF OpenLog
<1>5. pc["main"] \in Early /\ "signals" \in Early
  BY <1>1 DEF Early
<1> QED
  BY <1>3, <1>4, <1>5, EarlyGoes

LEMMA InitSignalsStep == IInv /\ InitSignals => IInv'
<1> SUFFICES ASSUME IInv, InitSignals PROVE IInv'
  OBVIOUS
<1>1. pc["main"] = "signals" /\ ~Started("daemon") /\ Started("main")
  BY Alone DEF InitSignals, At, Started
<1>2. CASE Fail("main")
  BY <1>1, <1>2, FailStep DEF Procs
<1>3. CASE ~Fail("main")
  <2>1. "readconf" \in Labels \ DaemonLabels /\ "readconf" \in Early
    BY DEF Labels, MainLabels, DaemonLabels, Early
  <2>2. "readconf" \notin Preparing \cup Complete /\ "signals" \in Early
    BY DEF Preparing, Complete, Early
  <2> QED
    BY <1>1, <1>3, <2>1, <2>2, MainGoes DEF InitSignals
<1> QED
  BY <1>2, <1>3

LEMMA ReadConfStep == IInv /\ ReadConf => IInv'
<1> SUFFICES ASSUME IInv, ReadConf PROVE IInv'
  OBVIOUS
<1>1. pc["main"] = "readconf" /\ ~Started("daemon") /\ Started("main")
  BY Alone DEF ReadConf, At, Started
<1>2. CASE Terminate("main")
  BY <1>1, <1>2, TerminateStep
<1>3. CASE ~Terminate("main")
  <2>1. "socket" \in Labels \ DaemonLabels /\ "readconf" \in Early
    BY DEF Labels, MainLabels, DaemonLabels, Early
  <2>2. "socket" \notin Early \cup Preparing \cup Complete
    BY DEF Preparing, Complete, Early
  <2>3. CountIsInt
    <3>1. conf.ListenPortCount # Garbage
      BY <1>3 DEF ReadConf
    <3>2. conf.ListenPortCount \in ItemValues
      BY StartupAssumption DEF IInv, TypeOK, ConfType
    <3> QED
      BY <3>1, <3>2 DEF CountIsInt, m_ListenPortCount, IntDefault, ItemValues
  <2> QED
    BY <1>1, <1>3, <2>1, <2>2, <2>3, MainGoes DEF ReadConf
<1> QED
  BY <1>2, <1>3

-----------------------------------------------------------------------------
(* The steps that open the sockets *)

\* An element of a sequence, and what replacing it does.
LEMMA ElementFacts ==
  ASSUME NEW S, NEW s \in Seq(S), NEW k \in 1..Len(s)
  PROVE  /\ s[k] \in S
         /\ \A e \in S :
              /\ [s EXCEPT ![k] = e] \in Seq(S)
              /\ Len([s EXCEPT ![k] = e]) = Len(s)
              /\ DOMAIN [s EXCEPT ![k] = e] = DOMAIN s
              /\ [s EXCEPT ![k] = e][k] = e
              /\ \A m \in DOMAIN s : m # k => [s EXCEPT ![k] = e][m] = s[m]
  OBVIOUS

\* A socket with another state is a socket.
LEMMA StateFacts ==
  ASSUME NEW r \in SockType, NEW e \in {"new", "bound", "listening"}
  PROVE  /\ [r EXCEPT !.state = e] \in SockType
         /\ [r EXCEPT !.state = e].state = e
  BY DEF SockType

\* What is known while main opens sockets.
LEMMA SocketFacts ==
  ASSUME IInv
  PROVE  /\ sock \in Seq(SockType) /\ m_ListenSocketList \in Seq(Fds)
         /\ Len(sock) \in Nat /\ Len(m_ListenSocketList) \in Nat
         /\ DOMAIN sock = 1..Len(sock)
         /\ DOMAIN m_ListenSocketList = 1..Len(m_ListenSocketList)
<1>1. sock \in Seq(SockType) /\ m_ListenSocketList \in Seq(Fds)
  BY DEF IInv, TypeOK
<1> QED
  BY <1>1

LEMMA OpenSocketStep == IInv /\ OpenSocket => IInv'
<1> SUFFICES ASSUME IInv, OpenSocket PROVE IInv'
  OBVIOUS
<1>1. pc["main"] = "socket" /\ ~Started("daemon") /\ Started("main")
  BY Alone DEF OpenSocket, At, Started
<1>2. CASE Fail("main")
  BY <1>1, <1>2, FailStep DEF Procs
<1>3. CASE ~Fail("main")
  <2> DEFINE item == [port |-> 0, state |-> "new"]
  <2>1. PICK n \in Fds :
          /\ IsNewFd(fds["main"], n)
          /\ SetTable("main", Install(fds["main"], n, Sock(Len(sock) + 1)))
          /\ sock' = Append(sock, item)
          /\ sockfd' = n
          /\ Goto("main", "options")
          /\ UNCHANGED <<conf, logfd, m_ListenSocketList, nullfd, pid, exitcode>>
    BY <1>3 DEF OpenSocket, Last
  <2> DEFINE t == Install(fds["main"], n, Sock(Len(sock) + 1))
  <2>2. TypeOK /\ Good(fds["main"], logfd["main"])
    BY <1>1 DEF IInv, GoodTables, Procs
  <2>3. logfd' = [logfd EXCEPT !["main"] = logfd["main"]]
        /\ logfd["main"] \in Fds \cup {NoFd}
    BY <2>1, <2>2 DEF TypeOK, Procs
  <2>4. Sock(Len(sock) + 1) \in Objects
    BY SocketFacts, ObjectFacts
  <2>5. Good(t, logfd["main"]) /\ n \in DOMAIN t /\ t[n] = Sock(Len(sock) + 1)
    <3>1. n \in DOMAIN t /\ t[n] = Sock(Len(sock) + 1)
      BY DEF Install
    <3> QED
      BY <2>1, <2>2, <2>4, <3>1, InstallGood DEF IsNewFd
  <2>6. TableBecomes("main", t)
    BY <2>1, SetTableFacts DEF Procs
  <2> HIDE DEF t
  <2>7. /\ GoodTables' /\ \A q \in Procs : IsTable(fds'[q])
        /\ DOMAIN fds' = Procs /\ logfd' \in [Procs -> Fds \cup {NoFd}]
    BY <1>1, <2>1, <2>3, <2>5, <2>6, TablesStep DEF Procs
  <2>8. pc' = [pc EXCEPT !["main"] = "options"] /\ DOMAIN pc = Procs
    BY <2>1, <2>2 DEF Goto, TypeOK
  <2>9. pc'["main"] = "options" /\ pc'["daemon"] = pc["daemon"]
    BY <2>8 DEF Procs
  <2>10. sock' \in Seq(SockType) /\ Len(sock') = Len(sock) + 1
         /\ \A k \in DOMAIN sock : k \in DOMAIN sock' /\ sock'[k] = sock[k]
    <3>1. item \in SockType
      BY DEF SockType, PortNumbers
    <3> QED
      BY <2>1, <3>1, SocketFacts
  <2>11. TypeOK'
    <3>1. "options" \in Labels
      BY DEF Labels, MainLabels
    <3>2. pc' \in [Procs -> Labels]
      BY <2>2, <2>8, <3>1 DEF TypeOK
    <3> QED
      BY <2>1, <2>2, <2>7, <2>10, <3>2 DEF TypeOK
  <2>12. Listening'
    BY <2>1, <2>10 DEF IInv, Listening
  <2>13. MainInv'
    <3>1. /\ Len(m_ListenSocketList) < m_ListenPortCount /\ CountIsInt
          /\ Len(sock) = Len(m_ListenSocketList)
          /\ exitcode["main"] # 0
      BY <1>1 DEF IInv, MainInv, OpenSocket, MorePorts
    <3>2. fds'["main"] = t
      BY <2>6 DEF TableBecomes
    <3> QED
      BY <2>1, <2>5, <2>9, <2>10, <3>1, <3>2
      DEF MainInv, Early, Preparing, Complete, DaemonLabels, CountIsInt,
          m_ListenPortCount
  <2>14. DaemonInv'
    BY <1>1, <2>1, <2>9 DEF IInv, DaemonInv, Started
  <2> QED
    BY <2>7, <2>11, <2>12, <2>13, <2>14 DEF IInv
<1> QED
  BY <1>2, <1>3

LEMMA SetOptionsStep == IInv /\ SetOptions => IInv'
<1> SUFFICES ASSUME IInv, SetOptions PROVE IInv'
  OBVIOUS
<1>1. pc["main"] = "options" /\ ~Started("daemon") /\ Started("main")
  BY Alone DEF SetOptions, At, Started
<1>2. CASE CloseAndFail
  BY <1>1, <1>2, CloseAndFailStep DEF Preparing
<1>3. CASE ~CloseAndFail
  <2>1. "bind" \in Labels \ DaemonLabels
    BY DEF Labels, MainLabels, DaemonLabels
  <2>2. "bind" \notin Early \cup Complete /\ "options" \in Preparing
    BY DEF Preparing, Complete, Early
  <2> QED
    BY <1>1, <1>3, <2>1, <2>2, MainGoes DEF SetOptions
<1> QED
  BY <1>2, <1>3

LEMMA BadPortStep == IInv /\ BadPort => IInv'
  BY Alone, TerminateStep DEF BadPort, At, Started

LEMMA SocketsDoneStep == IInv /\ SocketsDone => IInv'
<1> SUFFICES ASSUME IInv, SocketsDone PROVE IInv'
  OBVIOUS
<1>1. pc["main"] = "socket" /\ ~Started("daemon") /\ Started("main")
  BY Alone DEF SocketsDone, At, Started
<1>2. CASE Fail("main")
  BY <1>1, <1>2, FailStep DEF Procs
<1>3. CASE ~Fail("main")
  <2>1. "daemonize" \in Labels \ DaemonLabels
    BY DEF Labels, MainLabels, DaemonLabels
  <2>2. "daemonize" \notin Early \cup Preparing
    BY DEF Preparing, Early
  <2>3. Whole
    BY <1>1, <1>3, SocketFacts
    DEF IInv, MainInv, SocketsDone, MorePorts, Whole, CountIsInt
  <2> QED
    BY <1>1, <1>3, <2>1, <2>2, <2>3, MainGoes DEF SocketsDone
<1> QED
  BY <1>2, <1>3

\* The port of a socket is a number of 16 bits.
LEMMA PortType == IInv /\ PortItem # Garbage => Port \in PortNumbers
<1> SUFFICES ASSUME IInv, PortItem # Garbage PROVE Port \in PortNumbers
  OBVIOUS
<1>1. conf.port \in Seq(ItemValues)
  BY StartupAssumption DEF IInv, TypeOK, ConfType
<1>2. PortItem \in ItemValues
  <2>1. CASE Len(sock) \in DOMAIN conf.port
    <3>1. Len(sock) \in 1..Len(conf.port)
      BY <1>1, <2>1
    <3>2. conf.port[Len(sock)] \in ItemValues
      BY <1>1, <3>1, ElementFacts
    <3> QED
      BY <2>1, <3>2 DEF PortItem
  <2>2. CASE Len(sock) \notin DOMAIN conf.port
    BY <2>2 DEF PortItem, ItemValues
  <2> QED
    BY <2>1, <2>2
<1> DEFINE number == IntDefault(PortItem, 10000)
<1>3. number \in Int
  BY <1>2 DEF IntDefault, ItemValues
<1> HIDE DEF number
<1>4. number % 65536 \in PortNumbers
  BY <1>3 DEF PortNumbers
<1> QED
  BY <1>4 DEF Port, number

LEMMA BindStep == IInv /\ Bind => IInv'
<1> SUFFICES ASSUME IInv, Bind PROVE IInv'
  OBVIOUS
<1>1. pc["main"] = "bind" /\ ~Started("daemon") /\ Started("main")
  BY Alone DEF Bind, At, Started
<1>2. CASE CloseAndFail
  BY <1>1, <1>2, CloseAndFailStep DEF Preparing
<1>3. CASE ~CloseAndFail
  <2> DEFINE item == [port |-> Port, state |-> "bound"]
  <2>1. /\ sock' = [sock EXCEPT ![Len(sock)] = item]
        /\ Goto("main", "listen")
        /\ UNCHANGED <<conf, fds, logfd, m_ListenSocketList, sockfd, nullfd, pid,
                       exitcode>>
    BY <1>3 DEF Bind, Last
  <2>2. TypeOK
    BY DEF IInv
  <2>3. pc' = [pc EXCEPT !["main"] = "listen"] /\ DOMAIN pc = Procs
    BY <2>1, <2>2 DEF Goto, TypeOK
  <2>4. pc'["main"] = "listen" /\ pc'["daemon"] = pc["daemon"]
    BY <2>3 DEF Procs
  <2>5. /\ Len(sock) = Len(m_ListenSocketList) + 1 /\ CountIsInt
        /\ Len(m_ListenSocketList) < m_ListenPortCount
        /\ sockfd \in DOMAIN fds["main"]
        /\ fds["main"][sockfd] = Sock(Len(sock)) /\ exitcode["main"] # 0
    BY <1>1 DEF IInv, MainInv, Preparing
  <2>6. Port \in PortNumbers
    BY PortType DEF Bind
  <2>7. item \in SockType
    BY <2>6 DEF SockType
  <2> HIDE DEF item
  <2>8. Len(sock) \in 1..Len(sock)
    BY <2>5, SocketFacts
  <2>9. /\ sock' \in Seq(SockType) /\ Len(sock') = Len(sock)
        /\ DOMAIN sock' = DOMAIN sock
        /\ \A k \in DOMAIN sock : k # Len(sock) => sock'[k] = sock[k]
    BY <2>1, <2>7, <2>8, SocketFacts, ElementFacts
  <2>10. TypeOK'
    <3>1. "listen" \in Labels
      BY DEF Labels, MainLabels
    <3>2. pc' \in [Procs -> Labels]
      BY <2>2, <2>3, <3>1 DEF TypeOK
    <3> QED
      BY <2>1, <2>2, <2>9, <3>2 DEF TypeOK, IsTable
  <2>11. Listening'
    BY <2>1, <2>5, <2>9, SocketFacts DEF IInv, Listening
  <2>12. GoodTables'
    <3>1. \A q \in Procs : Started(q)' <=> Started(q)
      BY <1>1, <2>3, <2>4 DEF Started, Procs
    <3> QED
      BY <2>1, <3>1 DEF IInv, GoodTables, Good, IsTable, StdOK, LogOK, ListOK
  <2>13. MainInv'
    BY <2>1, <2>4, <2>5, <2>9
    DEF MainInv, Early, Preparing, Complete, DaemonLabels, CountIsInt,
        m_ListenPortCount
  <2>14. DaemonInv'
    BY <1>1, <2>1, <2>4 DEF IInv, DaemonInv, Started
  <2> QED
    BY <2>10, <2>11, <2>12, <2>13, <2>14 DEF IInv
<1> QED
  BY <1>2, <1>3

LEMMA ListenStep == IInv /\ Listen => IInv'
<1> SUFFICES ASSUME IInv, Listen PROVE IInv'
  OBVIOUS
<1>1. pc["main"] = "listen" /\ ~Started("daemon") /\ Started("main")
  BY Alone DEF Listen, At, Started
<1>2. CASE CloseAndFail
  BY <1>1, <1>2, CloseAndFailStep DEF Preparing
<1>3. CASE ~CloseAndFail
  <2>1. /\ sock' = [sock EXCEPT ![Len(sock)].state = "listening"]
        /\ m_ListenSocketList' = Append(m_ListenSocketList, sockfd)
        /\ Goto("main", "socket")
        /\ UNCHANGED <<conf, fds, logfd, sockfd, nullfd, pid, exitcode>>
    BY <1>3 DEF Listen, Last
  <2>2. TypeOK
    BY DEF IInv
  <2>3. pc' = [pc EXCEPT !["main"] = "socket"] /\ DOMAIN pc = Procs
    BY <2>1, <2>2 DEF Goto, TypeOK
  <2>4. pc'["main"] = "socket" /\ pc'["daemon"] = pc["daemon"]
    BY <2>3 DEF Procs
  <2>5. /\ Len(sock) = Len(m_ListenSocketList) + 1 /\ CountIsInt
        /\ Len(m_ListenSocketList) < m_ListenPortCount
        /\ sockfd \in DOMAIN fds["main"]
        /\ fds["main"][sockfd] = Sock(Len(sock)) /\ exitcode["main"] # 0
    BY <1>1 DEF IInv, MainInv, Preparing
  <2>6. Good(fds["main"], logfd["main"])
    BY <1>1 DEF IInv, GoodTables, Procs
  <2>7. sockfd \in Fds
    BY <2>5, <2>6 DEF Good, IsTable
  <2> DEFINE item == [sock[Len(sock)] EXCEPT !.state = "listening"]
  <2>8. /\ Len(sock) \in 1..Len(sock) /\ item \in SockType
        /\ item.state = "listening"
    <3>1. Len(sock) \in 1..Len(sock)
      BY <2>5, SocketFacts
    <3>2. sock[Len(sock)] \in SockType
      BY <3>1, SocketFacts, ElementFacts
    <3> QED
      BY <3>1, <3>2, StateFacts
  <2>9. /\ sock' \in Seq(SockType) /\ Len(sock') = Len(sock)
        /\ DOMAIN sock' = DOMAIN sock /\ sock'[Len(sock)].state = "listening"
        /\ \A k \in DOMAIN sock : k # Len(sock) => sock'[k] = sock[k]
    <3>1. sock' = [sock EXCEPT ![Len(sock)] = item]
      BY <2>1
    <3> HIDE DEF item
    <3> QED
      BY <2>8, <3>1, SocketFacts, ElementFacts
  <2>10. /\ m_ListenSocketList' \in Seq(Fds)
         /\ Len(m_ListenSocketList') = Len(sock)
         /\ DOMAIN m_ListenSocketList' = 1..Len(sock)
         /\ m_ListenSocketList'[Len(sock)] = sockfd
         /\ \A k \in DOMAIN m_ListenSocketList :
              m_ListenSocketList'[k] = m_ListenSocketList[k]
         /\ \A k \in 1..Len(sock) :
              k \in DOMAIN m_ListenSocketList \/ k = Len(sock)
    BY <2>1, <2>5, <2>7, SocketFacts
  <2>11. TypeOK'
    <3>1. "socket" \in Labels
      BY DEF Labels, MainLabels
    <3>2. pc' \in [Procs -> Labels]
      BY <2>2, <2>3, <3>1 DEF TypeOK
    <3> QED
      BY <2>1, <2>2, <2>9, <2>10, <3>2 DEF TypeOK, IsTable
  <2>12. Listening'
    BY <2>5, <2>9, <2>10, SocketFacts DEF IInv, Listening
  <2>13. GoodTables'
    <3>1. \A q \in Procs : Started(q)' => q = "main"
      BY <1>1, <2>4 DEF Started, Procs
    <3>2. ListOK(fds["main"])'
      BY <2>1, <2>5, <2>6, <2>10 DEF Good, ListOK
    <3>3. Good(fds["main"], logfd["main"])'
      BY <2>1, <2>6, <3>2 DEF Good, IsTable, StdOK, LogOK
    <3> QED
      BY <3>1, <3>3 DEF GoodTables
  <2>14. MainInv'
    <3>1. m_ListenPortCount' = m_ListenPortCount
      BY <2>1 DEF m_ListenPortCount
    <3>2. Len(m_ListenSocketList') <= m_ListenPortCount
      BY <2>5, <2>10, SocketFacts DEF CountIsInt
    <3> QED
      BY <2>1, <2>4, <2>5, <2>9, <2>10, <3>1, <3>2
      DEF MainInv, Early, Preparing, Complete, DaemonLabels, CountIsInt
  <2>15. DaemonInv'
    BY <1>1, <2>1, <2>4 DEF IInv, DaemonInv, Started
  <2> QED
    BY <2>11, <2>12, <2>13, <2>14, <2>15 DEF IInv
<1> QED
  BY <1>2, <1>3

-----------------------------------------------------------------------------
(* The steps of the fork *)

LEMMA StayInForegroundStep == IInv /\ StayInForeground => IInv'
<1> SUFFICES ASSUME IInv, StayInForeground PROVE IInv'
  OBVIOUS
<1>1. pc["main"] = "daemonize" /\ ~Started("daemon") /\ Started("main")
  BY Alone DEF StayInForeground, At, Started
<1>2. CASE Terminate("main")
  BY <1>1, <1>2, TerminateStep
<1>3. CASE ~Terminate("main")
  <2>1. "cycle" \in Labels \ DaemonLabels
    BY DEF Labels, DaemonLabels
  <2>2. "cycle" \notin Early \cup Preparing
    BY DEF Preparing, Early
  <2>3. Whole
    BY <1>1 DEF IInv, MainInv, Complete
  <2> QED
    BY <1>1, <1>3, <2>1, <2>2, <2>3, MainGoes DEF StayInForeground
<1> QED
  BY <1>2, <1>3

LEMMA ForkDaemonStep == IInv /\ ForkDaemon => IInv'
<1> SUFFICES ASSUME IInv, ForkDaemon PROVE IInv'
  OBVIOUS
<1>1. pc["main"] = "daemonize" /\ ~Started("daemon") /\ Started("main")
  BY Alone DEF ForkDaemon, At, Started
<1>2. CASE Fail("main")
  BY <1>1, <1>2, FailStep DEF Procs
<1>3. CASE ~Fail("main")
  <2>1. /\ pc' = [pc EXCEPT !["main"] = "parent", !["daemon"] = "setsid"]
        /\ fds' = [fds EXCEPT !["daemon"] = fds["main"]]
        /\ logfd' = [logfd EXCEPT !["daemon"] = logfd["main"]]
        /\ pid' = [pid EXCEPT !["daemon"] = pid["main"]]
        /\ conf' = conf /\ sock' = sock /\ sockfd' = sockfd /\ nullfd' = nullfd
        /\ m_ListenSocketList' = m_ListenSocketList /\ exitcode' = exitcode
    BY <1>3 DEF ForkDaemon, sockVars
  <2>2. TypeOK /\ Whole /\ Good(fds["main"], logfd["main"])
    BY <1>1 DEF IInv, MainInv, Complete, GoodTables, Procs
  <2>3. /\ DOMAIN pc = Procs /\ DOMAIN fds = Procs /\ DOMAIN logfd = Procs
        /\ \A q \in Procs : IsTable(fds[q]) /\ logfd[q] \in Fds \cup {NoFd}
    BY <2>2 DEF TypeOK
  <2>4. /\ pc'["main"] = "parent" /\ pc'["daemon"] = "setsid"
        /\ \A q \in Procs : fds'[q] = fds["main"] /\ logfd'[q] = logfd["main"]
        /\ DOMAIN fds' = Procs
    BY <2>1, <2>3 DEF Procs
  <2>5. TypeOK'
    <3>1. "parent" \in Labels /\ "setsid" \in Labels
      BY DEF Labels, MainLabels, DaemonLabels
    <3>2. pc' \in [Procs -> Labels]
      BY <2>1, <2>2, <3>1 DEF TypeOK
    <3>3. logfd' \in [Procs -> Fds \cup {NoFd}] /\ pid' \in [Procs -> PidType]
      BY <2>1, <2>2 DEF TypeOK, Procs
    <3>4. \A q \in Procs : IsTable(fds'[q])
      BY <2>3, <2>4 DEF Procs
    <3> QED
      BY <2>1, <2>2, <2>4, <3>2, <3>3, <3>4 DEF TypeOK, IsTable
  <2>6. GoodTables'
    BY <2>1, <2>2, <2>4 DEF GoodTables, Good, IsTable, StdOK, LogOK, ListOK
  <2>7. Listening'
    BY <2>1 DEF IInv, Listening
  <2>8. Whole'
    BY <2>1, <2>2 DEF Whole, m_ListenPortCount
  <2>9. MainInv'
    BY <1>1, <2>1, <2>4, <2>8
    DEF IInv, MainInv, Early, Preparing, Complete, DaemonLabels
  <2>10. DaemonInv'
    BY <1>1, <2>1, <2>4, <2>8 DEF IInv, DaemonInv, DaemonLabels
  <2> QED
    BY <2>5, <2>6, <2>7, <2>9, <2>10 DEF IInv
<1> QED
  BY <1>2, <1>3

LEMMA ParentReturnsStep == IInv /\ ParentReturns => IInv'
<1> SUFFICES ASSUME IInv, ParentReturns PROVE IInv'
  OBVIOUS
<1>1. pc["main"] = "parent" /\ Started("main") /\ "main" \in Procs
  BY DEF ParentReturns, At, Started, Procs
<1>2. Whole /\ Good(fds["main"], logfd["main"])
  BY <1>1 DEF IInv, MainInv, Complete, GoodTables
<1>3. pid' \in [Procs -> PidType]
  BY DEF ParentReturns, IInv, TypeOK
<1>4. Return("main", 0, fds["main"]) /\ UNCHANGED <<sockVars, nullfd>>
  BY DEF ParentReturns
<1> QED
  BY <1>1, <1>2, <1>3, <1>4, ReturnStep

-----------------------------------------------------------------------------
(* The steps of the daemon *)

\* The daemon goes on to next, with a good table; where it needs it, nullfd is
\* open on /dev/null.
LEMMA DaemonGoes ==
  ASSUME IInv, Started("daemon"), NEW next \in (DaemonLabels \cup {"cycle"}) \ {"none"},
         Goto("daemon", next), NEW t, TableBecomes("daemon", t),
         Good(t, logfd["daemon"]), pid' \in [Procs -> PidType],
         nullfd' \in Fds \cup {NoFd},
         UNCHANGED <<conf, logfd, sockVars, exitcode>>,
         next \in {"dup0", "dup1", "close"} =>
           nullfd' \in DOMAIN t /\ t[nullfd'] = Null
  PROVE  IInv'
<1>1. TypeOK
  BY DEF IInv
<1>2. logfd["daemon"] \in Fds \cup {NoFd}
      /\ logfd' = [logfd EXCEPT !["daemon"] = logfd["daemon"]]
  BY <1>1 DEF TypeOK, Procs
<1>3. /\ sock' = sock /\ m_ListenSocketList' = m_ListenSocketList
      /\ sockfd' = sockfd
  BY DEF sockVars
<1>4. /\ GoodTables' /\ \A q \in Procs : IsTable(fds'[q])
      /\ DOMAIN fds' = Procs /\ logfd' \in [Procs -> Fds \cup {NoFd}]
  BY <1>2, <1>3, TablesStep DEF Procs
<1>5. pc' = [pc EXCEPT !["daemon"] = next] /\ DOMAIN pc = Procs
  BY <1>1 DEF Goto, TypeOK
<1>6. pc'["daemon"] = next /\ pc'["main"] = pc["main"]
  BY <1>5 DEF Procs
<1>7. TypeOK'
  <2>1. next \in Labels
    BY DEF Labels
  <2>2. pc' \in [Procs -> Labels]
    BY <1>1, <1>5, <2>1 DEF TypeOK
  <2> QED
    BY <1>1, <1>3, <1>4, <2>2 DEF TypeOK, IsTable
<1>8. Listening'
  BY <1>3 DEF IInv, Listening
<1>9. fds'["daemon"] = t /\ fds'["main"] = fds["main"]
  BY DEF TableBecomes, Procs
<1>10. (Whole' <=> Whole) /\ (CountIsInt' <=> CountIsInt)
       /\ m_ListenPortCount' = m_ListenPortCount
  BY <1>3 DEF Whole, CountIsInt, m_ListenPortCount
<1>11. MainInv'
  <2>1. MainInv
    BY DEF IInv
  <2> QED
    BY <1>3, <1>6, <1>9, <1>10, <2>1 DEF MainInv
<1>12. DaemonInv'
  BY <1>6, <1>9, <1>10 DEF IInv, DaemonInv, Started
<1> QED
  BY <1>4, <1>7, <1>8, <1>11, <1>12 DEF IInv

\* What is known of the daemon.
LEMMA DaemonFacts ==
  ASSUME IInv, NEW here, pc["daemon"] = here, here # "none"
  PROVE  /\ Started("daemon") /\ "daemon" \in Procs
         /\ Good(fds["daemon"], logfd["daemon"])
         /\ pid \in [Procs -> PidType] /\ nullfd \in Fds \cup {NoFd}
<1>1. Started("daemon") /\ "daemon" \in Procs
  BY DEF Started, Procs
<1> QED
  BY <1>1 DEF IInv, GoodTables, TypeOK

LEMMA SetSidStep == IInv /\ SetSid => IInv'
<1> SUFFICES ASSUME IInv, SetSid PROVE IInv'
  OBVIOUS
<1>1. pc["daemon"] = "setsid"
  BY DEF SetSid, At
<1>2. /\ Started("daemon") /\ "daemon" \in Procs
      /\ Good(fds["daemon"], logfd["daemon"])
      /\ pid \in [Procs -> PidType] /\ nullfd \in Fds \cup {NoFd}
  BY <1>1, DaemonFacts
<1>3. pid' \in [Procs -> PidType]
  <2>1. [own |-> "daemon", parent |-> pid["daemon"].own] \in PidType
    BY <1>2 DEF PidType, Procs
  <2> QED
    BY <1>2, <2>1 DEF SetSid
<1>4. CASE Return("daemon", 1, fds["daemon"]) /\ UNCHANGED <<sockVars, nullfd>>
  BY <1>2, <1>3, <1>4, ReturnStep
<1>5. CASE Goto("daemon", "null")
           /\ UNCHANGED <<conf, fds, logfd, sockVars, nullfd, exitcode>>
  <2>1. TableBecomes("daemon", fds["daemon"])
    BY <1>5 DEF IInv, TypeOK, TableBecomes
  <2>2. "null" \in DaemonLabels \ {"none", "dup0", "dup1", "close"}
    BY DEF DaemonLabels
  <2> QED
    BY <1>2, <1>3, <1>5, <2>1, <2>2, DaemonGoes
<1> QED
  BY <1>4, <1>5 DEF SetSid

LEMMA OpenNullStep == IInv /\ OpenNull => IInv'
<1> SUFFICES ASSUME IInv, OpenNull PROVE IInv'
  OBVIOUS
<1>1. pc["daemon"] = "null"
  BY DEF OpenNull, At
<1>2. /\ Started("daemon") /\ "daemon" \in Procs
      /\ Good(fds["daemon"], logfd["daemon"])
      /\ pid \in [Procs -> PidType]
  BY <1>1, DaemonFacts
<1>3. CASE Fail("daemon")
  BY <1>2, <1>3, FailStep
<1>4. CASE ~Fail("daemon")
  <2>1. PICK n \in Fds :
          /\ IsNewFd(fds["daemon"], n)
          /\ SetTable("daemon", Install(fds["daemon"], n, Null))
          /\ nullfd' = n
          /\ Goto("daemon", "dup0")
          /\ UNCHANGED <<conf, logfd, sockVars, pid, exitcode>>
    BY <1>4 DEF OpenNull
  <2> DEFINE t == Install(fds["daemon"], n, Null)
  <2>2. n \in DOMAIN t /\ t[n] = Null
    BY DEF Install
  <2>3. Good(t, logfd["daemon"])
    BY <1>2, <2>1, InstallGood, ObjectFacts DEF IsNewFd
  <2>4. TableBecomes("daemon", t)
    BY <1>2, <2>1, SetTableFacts
  <2>5. "dup0" \in (DaemonLabels \cup {"cycle"}) \ {"none"}
    BY DEF DaemonLabels
  <2> HIDE DEF t
  <2> QED
    BY <1>2, <2>1, <2>2, <2>3, <2>4, <2>5, DaemonGoes
<1> QED
  BY <1>3, <1>4

LEMMA Dup2Step ==
  ASSUME IInv, NEW here \in {"dup0", "dup1"}, NEW n \in {0, 1},
         NEW next \in {"dup1", "close"}, Dup2(here, n, next)
  PROVE  IInv'
<1>1. pc["daemon"] = here /\ here # "none"
  BY DEF Dup2, At
<1>2. /\ Started("daemon") /\ "daemon" \in Procs
      /\ Good(fds["daemon"], logfd["daemon"])
      /\ pid \in [Procs -> PidType] /\ nullfd \in Fds \cup {NoFd}
  BY <1>1, DaemonFacts
<1>3. nullfd \in DOMAIN fds["daemon"] /\ fds["daemon"][nullfd] = Null
  BY <1>1 DEF IInv, DaemonInv
<1>4. CASE Fail("daemon")
  BY <1>2, <1>4, FailStep
<1>5. CASE ~Fail("daemon")
  <2> DEFINE t == Install(fds["daemon"], n, Null)
  <2>1. /\ SetTable("daemon", t) /\ Goto("daemon", next)
        /\ UNCHANGED <<conf, logfd, sockVars, nullfd, pid, exitcode>>
    BY <1>3, <1>5 DEF Dup2
  <2>2. nullfd \in DOMAIN t /\ t[nullfd] = Null
    BY <1>3 DEF Install
  <2>3. Good(t, logfd["daemon"])
    BY <1>2, DupGood
  <2> HIDE DEF t
  <2>4. TableBecomes("daemon", t)
    BY <1>2, <2>1, SetTableFacts
  <2>5. next \in (DaemonLabels \cup {"cycle"}) \ {"none"}
    BY DEF DaemonLabels
  <2>6. pid' \in [Procs -> PidType] /\ nullfd' = nullfd
    BY <1>2, <2>1
  <2> QED
    BY <1>2, <2>1, <2>2, <2>3, <2>4, <2>5, <2>6, DaemonGoes
<1> QED
  BY <1>4, <1>5

LEMMA CloseNullStep == IInv /\ CloseNull => IInv'
<1> SUFFICES ASSUME IInv, CloseNull PROVE IInv'
  OBVIOUS
<1>1. pc["daemon"] = "close"
  BY DEF CloseNull, At
<1>2. /\ Started("daemon") /\ "daemon" \in Procs
      /\ Good(fds["daemon"], logfd["daemon"])
      /\ pid \in [Procs -> PidType] /\ nullfd \in Fds \cup {NoFd}
  BY <1>1, DaemonFacts
<1>3. nullfd \in DOMAIN fds["daemon"] /\ fds["daemon"][nullfd] = Null
  BY <1>1 DEF IInv, DaemonInv
<1> DEFINE t == WithoutNull(fds["daemon"])
<1>4. Good(t, logfd["daemon"])
  <2>1. nullfd > Stderr => nullfd \notin 0..2
    BY DEF Stderr
  <2> QED
    BY <1>2, <1>3, <2>1, CloseGood, ObjectFacts DEF WithoutNull
<1> HIDE DEF t
<1>5. pid' \in [Procs -> PidType] /\ nullfd' = nullfd
  BY <1>2 DEF CloseNull
<1>6. CASE Return("daemon", 1, t) /\ UNCHANGED sockVars
  BY <1>2, <1>4, <1>5, <1>6, ReturnStep
<1>7. CASE /\ SetTable("daemon", t) /\ Goto("daemon", "cycle")
           /\ UNCHANGED <<conf, logfd, sockVars, exitcode>>
  <2>1. TableBecomes("daemon", t)
    BY <1>2, <1>7, SetTableFacts
  <2>2. "cycle" \notin DaemonLabels
    BY DEF DaemonLabels
  <2> QED
    BY <1>2, <1>4, <1>5, <1>7, <2>1, <2>2, DaemonGoes
<1> QED
  BY <1>6, <1>7 DEF CloseNull, t

-----------------------------------------------------------------------------
(* The theorems *)

LEMMA InitIInv == Init => IInv
<1> SUFFICES ASSUME Init PROVE IInv
  OBVIOUS
<1>1. /\ pc["main"] = "load" /\ pc["daemon"] = "none"
      /\ fds["main"] = StdTable /\ fds["daemon"] = NoTable
      /\ exitcode["main"] = NoFd /\ exitcode["daemon"] = NoFd
      /\ logfd["main"] = NoFd
  BY DEF Init, Procs
<1>2. sock = <<>> /\ m_ListenSocketList = <<>>
  BY DEF Init
<1>3. /\ DOMAIN StdTable = 0..2 /\ \A n \in 0..2 : StdTable[n] = Tty
      /\ DOMAIN NoTable = {}
  BY DEF StdTable, NoTable, Stderr
<1>4. 0..2 \subseteq Fds
  BY StartupAssumption DEF Fds
<1>5. IsTable(StdTable) /\ IsTable(NoTable)
  BY <1>3, <1>4, ObjectFacts DEF IsTable
<1>6. TypeOK
  <2>1. pc \in [Procs -> Labels]
    BY DEF Init, Labels, MainLabels, DaemonLabels
  <2>2. DOMAIN fds = Procs /\ \A p \in Procs : IsTable(fds[p])
    BY <1>1, <1>5 DEF Init, Procs
  <2>3. pid \in [Procs -> PidType]
    BY DEF Init, PidType, Procs
  <2>4. sock \in Seq(SockType) /\ m_ListenSocketList \in Seq(Fds)
    BY <1>2
  <2> QED
    BY <2>1, <2>2, <2>3, <2>4 DEF Init, TypeOK
<1>7. GoodTables
  <2>1. StdOK(StdTable)
    BY <1>3 DEF StdOK
  <2>2. ListOK(StdTable)
    BY <1>2 DEF ListOK
  <2>3. LogOK(StdTable, NoFd)
    BY DEF LogOK
  <2> QED
    BY <1>1, <1>5, <2>1, <2>2, <2>3 DEF GoodTables, Good, Started, Procs
<1>8. Listening
  BY <1>2 DEF Listening
<1>9. MainInv
  BY <1>1, <1>2
  DEF MainInv, Early, Preparing, Complete, DaemonLabels, NoFd
<1>10. DaemonInv
  BY <1>1 DEF DaemonInv, Started, DaemonLabels, NoFd
<1> QED
  BY <1>6, <1>7, <1>8, <1>9, <1>10 DEF IInv

LEMMA NextIInv == IInv /\ [Next]_vars => IInv'
<1> SUFFICES ASSUME IInv, [Next]_vars PROVE IInv'
  OBVIOUS
<1>1. CASE Main
  BY <1>1, LoadConfStep, BadLogConfStep, OpenLogStep, InitSignalsStep,
     ReadConfStep, OpenSocketStep, SetOptionsStep, BindStep, BadPortStep,
     ListenStep, SocketsDoneStep, StayInForegroundStep, ForkDaemonStep,
     ParentReturnsStep
  DEF Main
<1>2. CASE Daemon
  <2>1. CASE Dup2("dup0", 0, "dup1")
    BY <2>1, Dup2Step
  <2>2. CASE Dup2("dup1", 1, "close")
    BY <2>2, Dup2Step
  <2> QED
    BY <1>2, <2>1, <2>2, SetSidStep, OpenNullStep, CloseNullStep DEF Daemon
<1>3. CASE UNCHANGED vars
  <2>1. /\ conf' = conf /\ pc' = pc /\ fds' = fds /\ logfd' = logfd /\ sock' = sock
        /\ m_ListenSocketList' = m_ListenSocketList /\ sockfd' = sockfd
        /\ nullfd' = nullfd /\ pid' = pid /\ exitcode' = exitcode
    BY <1>3 DEF vars, sockVars
  <2>2. TypeOK'
    BY <2>1 DEF IInv, TypeOK
  <2>3. GoodTables' /\ Listening'
    BY <2>1 DEF IInv, GoodTables, Good, IsTable, StdOK, LogOK, ListOK, Started,
                Listening
  <2>4. MainInv' /\ DaemonInv'
    BY <2>1 DEF IInv, MainInv, DaemonInv, Started, Whole, CountIsInt,
                m_ListenPortCount
  <2> QED
    BY <2>2, <2>3, <2>4 DEF IInv
<1> QED
  BY <1>1, <1>2, <1>3 DEF Next

\* The inductive invariant holds always.
THEOREM Invariance == Spec => []IInv
<1> QED
  BY InitIInv, NextIInv, PTL DEF Spec

\* The type invariant of main, the opening of the ports and ngx_daemon.
THEOREM TypeCorrect == Spec => []TypeOK
<1>1. IInv => TypeOK
  BY DEF IInv
<1> QED
  BY <1>1, Invariance, PTL

\* A process that goes on as master, or a command that reports success, has every
\* configured port listening, and one at least, whatever fails on the way and
\* whichever descriptors ngx_daemon has opened, copied and closed.
THEOREM StartsWhole == Spec => []StartedWhole
<1>1. IInv => StartedWhole
  <2> SUFFICES ASSUME IInv, NEW p \in Procs,
                      At(p, "cycle") \/ (At(p, "exited") /\ exitcode[p] = 0)
               PROVE  /\ Usable(p)
                      /\ Len(m_ListenSocketList) = m_ListenPortCount
                      /\ m_ListenSocketList # <<>>
    BY DEF StartedWhole
  <2>1. Started(p)
    BY DEF At, Started
  <2>2. Usable(p)
    BY <2>1 DEF IInv, GoodTables, Good, ListOK, Listening, Usable
  <2>3. Whole
    BY <2>1 DEF IInv, MainInv, DaemonInv, Complete, At, Procs
  <2> QED
    BY <2>2, <2>3 DEF Whole
<1> QED
  BY <1>1, Invariance, PTL

\* What is logged never reaches a socket, /dev/null or a closed descriptor: no
\* close or dup2 of the start hits the log or stderr, in either process.
THEOREM LogAlwaysReachesLog == Spec => []LogReachesLog
<1>1. IInv => LogReachesLog
  <2> SUFFICES ASSUME IInv, NEW p \in Procs, Started(p)
               PROVE  /\ Stderr \in DOMAIN fds[p] /\ fds[p][Stderr] = Tty
                      /\ LogIsOpen(p) =>
                           logfd[p] \in DOMAIN fds[p] /\ fds[p][logfd[p]] = Log
    BY DEF LogReachesLog
  <2>1. StdOK(fds[p]) /\ LogOK(fds[p], logfd[p])
    BY DEF IInv, GoodTables, Good
  <2> QED
    BY <2>1 DEF StdOK, LogOK, LogIsOpen, Stderr
<1> QED
  BY <1>1, Invariance, PTL

-----------------------------------------------------------------------------
(* NothingStray *)

\* What else the table t of a process holds, when its ngx_log.fd is l: the log there and
\* nowhere else, sockets only at the numbers in S, and /dev/null only at those in N.
Clean(t, l, S, N) ==
  \A n \in DOMAIN t :
    /\ t[n] = Log => n = l
    /\ \A k \in Nat : t[n] = Sock(k) => n \in S
    /\ t[n] = Null => n \in N

\* A process has the sockets of the list, and main the one that it prepares.
MaySock(p) ==
  Range(m_ListenSocketList) \cup
    IF p = "main" /\ pc["main"] \in Preparing THEN {sockfd} ELSE {}

\* Until it returns, it has /dev/null for stdin and stdout only, but for the number that
\* ngx_daemon copies and closes.
MayNull(p) ==
  IF pc[p] = "exited" THEN Fds
  ELSE {0, 1} \cup
         IF p = "daemon" /\ pc["daemon"] \in {"dup0", "dup1", "close"} THEN {nullfd} ELSE {}

Tidy ==
  /\ \A p \in Procs :
       Started(p) /\ pc[p] # "terminated"
         => Clean(fds[p], logfd[p], MaySock(p), MayNull(p))
  /\ pc["main"] \in {"load", "log"} => logfd["main"] = NoFd

\* More numbers may be allowed.
LEMMA CleanMore ==
  ASSUME NEW t, NEW l, NEW S, NEW N, Clean(t, l, S, N),
         NEW S2, NEW N2, S \subseteq S2, N \subseteq N2
  PROVE  Clean(t, l, S2, N2)
  BY DEF Clean

\* A new number, or dup2, where it is allowed.
LEMMA CleanInstall ==
  ASSUME NEW t, NEW l, NEW S, NEW N, Clean(t, l, S, N), NEW n, NEW obj, obj # Log,
         (\E k \in Nat : obj = Sock(k)) => n \in S, obj = Null => n \in N
  PROVE  Clean(Install(t, n, obj), l, S, N)
<1> DEFINE u == Install(t, n, obj)
<1>1. /\ DOMAIN u = DOMAIN t \cup {n} /\ u[n] = obj
      /\ \A m \in DOMAIN t : m # n => u[m] = t[m]
  BY DEF Install
<1> HIDE DEF u
<1>2. Clean(u, l, S, N)
  BY <1>1 DEF Clean
<1> QED
  BY <1>2 DEF u

\* The log is opened once, in a table without one.
LEMMA CleanLog ==
  ASSUME NEW t, NEW S, NEW N, IsTable(t), Clean(t, NoFd, S, N), NEW n
  PROVE  Clean(Install(t, n, Log), n, S, N)
<1> DEFINE u == Install(t, n, Log)
<1>1. /\ DOMAIN u = DOMAIN t \cup {n} /\ u[n] = Log
      /\ \A m \in DOMAIN t : m # n => u[m] = t[m]
  BY DEF Install
<1>2. NoFd \notin DOMAIN t
  BY DEF IsTable, NoFd, Fds
<1>3. \A m \in DOMAIN t : t[m] # Log
  BY <1>2 DEF Clean
<1> HIDE DEF u
<1>4. Clean(u, n, S, N)
  BY <1>1, <1>3, ObjectFacts DEF Clean
<1> QED
  BY <1>4 DEF u

\* What is closed is not left anywhere.
LEMMA CleanClose ==
  ASSUME NEW t, NEW l, NEW S, NEW N, Clean(t, l, S, N), NEW n
  PROVE  /\ Clean(Close(t, n), l, S \ {n}, N \ {n})
         /\ n = l => Clean(Close(t, n), NoFd, S, N)
<1> DEFINE u == Close(t, n)
<1>1. DOMAIN u = DOMAIN t \ {n} /\ \A m \in DOMAIN t : m # n => u[m] = t[m]
  BY DEF Close, Restrict
<1> HIDE DEF u
<1>2. Clean(u, l, S \ {n}, N \ {n}) /\ (n = l => Clean(u, NoFd, S, N))
  BY <1>1 DEF Clean
<1> QED
  BY <1>2 DEF u

\* While the daemon has not been forked, or nothing changes for it, only main matters.
LEMMA MainTidy ==
  ASSUME IInv, Tidy, NEW t, NEW l, NEW next, Goto("main", next), TableBecomes("main", t),
         logfd' = [logfd EXCEPT !["main"] = l],
         next # "terminated" => Clean(t, l, MaySock("main")', MayNull("main")'),
         next \in {"load", "log"} => l = NoFd,
         ~Started("daemon") \/ UNCHANGED <<m_ListenSocketList, nullfd>>
  PROVE  Tidy'
<1>1. /\ pc'["main"] = next /\ pc'["daemon"] = pc["daemon"]
      /\ fds'["main"] = t /\ fds'["daemon"] = fds["daemon"]
      /\ logfd'["main"] = l /\ logfd'["daemon"] = logfd["daemon"]
  BY DEF IInv, TypeOK, Goto, TableBecomes, Procs
<1>2. ASSUME Started("daemon"), pc["daemon"] # "terminated"
      PROVE  Clean(fds["daemon"], logfd["daemon"], MaySock("daemon")', MayNull("daemon")')
  <2>1. Clean(fds["daemon"], logfd["daemon"], MaySock("daemon"), MayNull("daemon"))
    BY <1>2 DEF Tidy, Procs
  <2>2. MaySock("daemon")' = MaySock("daemon") /\ MayNull("daemon")' = MayNull("daemon")
    BY <1>1, <1>2 DEF MaySock, MayNull
  <2> QED
    BY <2>1, <2>2
<1>3. \A p \in Procs : Started(p)' /\ pc'[p] # "terminated"
        => Clean(fds'[p], logfd'[p], MaySock(p)', MayNull(p)')
  <2> SUFFICES ASSUME NEW p \in Procs, Started(p)', pc'[p] # "terminated"
               PROVE  Clean(fds'[p], logfd'[p], MaySock(p)', MayNull(p)')
    OBVIOUS
  <2>1. CASE p = "main"
    BY <1>1, <2>1
  <2>2. CASE p = "daemon"
    BY <1>1, <1>2, <2>2 DEF Started
  <2> QED
    BY <2>1, <2>2 DEF Procs
<1>4. pc'["main"] \in {"load", "log"} => logfd'["main"] = NoFd
  BY <1>1
<1> QED
  BY <1>3, <1>4 DEF Tidy, Clean

\* A step of the daemon changes nothing for main.
LEMMA DaemonTidy ==
  ASSUME IInv, Tidy, NEW t, NEW l, NEW next, Goto("daemon", next),
         TableBecomes("daemon", t), logfd' = [logfd EXCEPT !["daemon"] = l],
         Clean(t, l, MaySock("daemon")', MayNull("daemon")'), UNCHANGED sockVars
  PROVE  Tidy'
<1>1. /\ pc'["daemon"] = next /\ pc'["main"] = pc["main"]
      /\ fds'["daemon"] = t /\ fds'["main"] = fds["main"]
      /\ logfd'["daemon"] = l /\ logfd'["main"] = logfd["main"]
  BY DEF IInv, TypeOK, Goto, TableBecomes, Procs
<1>2. MaySock("main")' = MaySock("main") /\ MayNull("main")' = MayNull("main")
  BY <1>1 DEF MaySock, MayNull, sockVars
<1>3. \A p \in Procs : Started(p)' /\ pc'[p] # "terminated"
        => Clean(fds'[p], logfd'[p], MaySock(p)', MayNull(p)')
  <2> SUFFICES ASSUME NEW p \in Procs, Started(p)', pc'[p] # "terminated"
               PROVE  Clean(fds'[p], logfd'[p], MaySock(p)', MayNull(p)')
    OBVIOUS
  <2>1. CASE p = "main"
    <3>1. Clean(fds["main"], logfd["main"], MaySock("main"), MayNull("main"))
      BY <1>1, <2>1 DEF Tidy, Started
    <3> QED
      BY <1>1, <1>2, <2>1, <3>1
  <2>2. CASE p = "daemon"
    BY <1>1, <2>2
  <2> QED
    BY <2>1, <2>2 DEF Procs
<1>4. pc'["main"] \in {"load", "log"} => logfd'["main"] = NoFd
  BY <1>1 DEF Tidy
<1> QED
  BY <1>3, <1>4 DEF Tidy, Clean

\* The end of main leaves the sockets of the list, and no log.
LEMMA ReturnTidy ==
  ASSUME IInv, Tidy, NEW p \in Procs, NEW c, NEW t, NEW N, Return(p, c, t), IsTable(t),
         Clean(t, logfd[p], Range(m_ListenSocketList), N), UNCHANGED <<sockVars, nullfd>>
  PROVE  Tidy'
<1> DEFINE u == IF LogIsOpen(p) THEN Close(t, logfd[p]) ELSE t
           l == IF LogIsOpen(p) THEN NoFd ELSE logfd[p]
<1>1. Clean(t, logfd[p], Range(m_ListenSocketList), Fds)
  BY DEF Clean, IsTable
<1>2. Clean(u, l, Range(m_ListenSocketList), Fds)
  BY <1>1, CleanClose
<1>3. /\ SetTable(p, u) /\ logfd' = [logfd EXCEPT ![p] = l] /\ Goto(p, "exited")
      /\ UNCHANGED <<sockVars, nullfd, m_ListenSocketList>>
  BY DEF Return, freeresource, sockVars
<1> HIDE DEF u, l
<1>4. TableBecomes(p, u)
  BY <1>3, SetTableFacts
<1>5. pc'[p] = "exited" /\ m_ListenSocketList' = m_ListenSocketList
  BY <1>3 DEF IInv, TypeOK, Goto
<1>6. Range(m_ListenSocketList) \subseteq MaySock(p)' /\ MayNull(p)' = Fds
  BY <1>5 DEF MaySock, MayNull, Fds
<1>7. Clean(u, l, MaySock(p)', MayNull(p)')
  BY <1>2, <1>6, CleanMore
<1>8. CASE p = "main"
  BY <1>3, <1>4, <1>7, <1>8, MainTidy
<1>9. CASE p = "daemon"
  BY <1>3, <1>4, <1>7, <1>9, DaemonTidy
<1> QED
  BY <1>8, <1>9 DEF Procs

\* Not while a socket is being prepared.
LEMMA FailTidy ==
  ASSUME IInv, Tidy, NEW p \in Procs, Started(p), pc[p] \notin Preparing,
         pc[p] # "terminated", Fail(p)
  PROVE  Tidy'
<1>1. Clean(fds[p], logfd[p], MaySock(p), MayNull(p)) /\ IsTable(fds[p])
  BY DEF Tidy, IInv, TypeOK
<1>2. MaySock(p) = Range(m_ListenSocketList)
  BY DEF MaySock
<1>3. Return(p, 1, fds[p]) /\ UNCHANGED <<sockVars, nullfd>>
  BY DEF Fail
<1> QED
  BY <1>1, <1>2, <1>3, ReturnTidy

\* The socket that is being prepared is closed.
LEMMA CloseAndFailTidy ==
  ASSUME IInv, Tidy, pc["main"] \in Preparing, CloseAndFail
  PROVE  Tidy'
<1> DEFINE t == Close(fds["main"], sockfd)
<1>1. "main" \in Procs /\ Started("main") /\ pc["main"] # "terminated"
  BY DEF Procs, Started, Preparing
<1>2. Clean(fds["main"], logfd["main"], MaySock("main"), MayNull("main"))
  BY <1>1 DEF Tidy
<1>3. Clean(t, logfd["main"], MaySock("main") \ {sockfd}, MayNull("main") \ {sockfd})
  BY <1>2, CleanClose
<1>4. MaySock("main") \ {sockfd} \subseteq Range(m_ListenSocketList)
  BY DEF MaySock
<1>5. IsTable(t)
  <2>1. IsTable(fds["main"])
    BY <1>1 DEF IInv, TypeOK
  <2>2. /\ DOMAIN t = DOMAIN fds["main"] \ {sockfd}
        /\ \A n \in DOMAIN t : t[n] = fds["main"][n]
    BY DEF Close, Restrict
  <2> QED
    BY <2>1, <2>2 DEF IsTable
<1> HIDE DEF t
<1>6. Clean(t, logfd["main"], Range(m_ListenSocketList), MayNull("main"))
  BY <1>3, <1>4, CleanMore
<1>7. Return("main", 1, t) /\ UNCHANGED <<sockVars, nullfd>>
  BY DEF CloseAndFail, t
<1> QED
  BY <1>1, <1>5, <1>6, <1>7, ReturnTidy

\* main goes on, or ends in an exception, with the descriptors it has.
LEMMA GoTidy ==
  ASSUME IInv, Tidy, NEW here, pc["main"] = here, here \notin {"none", "terminated"},
         NEW next, Goto("main", next), next \notin {"load", "log"},
         here \in Preparing => next \in Preparing \cup {"terminated"}, here # "exited",
         UNCHANGED <<fds, logfd, m_ListenSocketList, sockfd, nullfd>>
  PROVE  Tidy'
<1>1. Clean(fds["main"], logfd["main"], MaySock("main"), MayNull("main"))
  BY DEF Tidy, Procs, Started
<1>2. pc'["main"] = next
  BY DEF IInv, TypeOK, Goto, Procs
<1>3. ASSUME next # "terminated"
      PROVE  Clean(fds["main"], logfd["main"], MaySock("main")', MayNull("main")')
  <2>1. MaySock("main") \subseteq MaySock("main")'
    BY <1>2, <1>3 DEF MaySock
  <2>2. MayNull("main") \subseteq MayNull("main")'
    BY <1>2, StartupAssumption DEF MayNull, Fds
  <2> QED
    BY <1>1, <2>1, <2>2, CleanMore
<1>4. TableBecomes("main", fds["main"]) /\ logfd' = [logfd EXCEPT !["main"] = logfd["main"]]
  BY DEF IInv, TypeOK, TableBecomes, Procs
<1> QED
  BY <1>3, <1>4, MainTidy

\* main and its table, where it has not returned.
LEMMA MainFacts ==
  ASSUME IInv, Tidy, NEW here, pc["main"] = here, here \notin {"none", "terminated"}
  PROVE  /\ Started("main") /\ "main" \in Procs /\ IsTable(fds["main"])
         /\ logfd' = logfd => logfd' = [logfd EXCEPT !["main"] = logfd["main"]]
         /\ Clean(fds["main"], logfd["main"], MaySock("main"), MayNull("main"))
  BY DEF IInv, TypeOK, Tidy, Started, Procs

\* The configuration file is neither a log nor a socket.
LEMMA LoadConfTidy == IInv /\ Tidy /\ LoadConf => Tidy'
<1> SUFFICES ASSUME IInv, Tidy, LoadConf PROVE Tidy'
  OBVIOUS
<1>1. pc["main"] = "load"
  BY DEF LoadConf, At
<1>2. CASE Terminate("main")
  BY <1>1, <1>2, GoTidy DEF Terminate, Preparing, sockVars
<1>3. CASE ~Terminate("main")
  <2>1. PICK n \in Fds : SetTable("main", Install(fds["main"], n, Conf))
    BY <1>3 DEF LoadConf
  <2>2. PICK next \in {"log", "reading"} : Goto("main", next)
    BY <1>3 DEF LoadConf
  <2>3. /\ logfd' = [logfd EXCEPT !["main"] = logfd["main"]] /\ logfd["main"] = NoFd
        /\ UNCHANGED <<m_ListenSocketList, sockfd, nullfd>>
    BY <1>1, <1>3, MainFacts DEF LoadConf, Tidy, sockVars
  <2> DEFINE t == Install(fds["main"], n, Conf)
  <2>4. Clean(t, logfd["main"], MaySock("main"), MayNull("main"))
    <3>1. Conf # Log /\ Conf # Null /\ \A k \in Nat : Conf # Sock(k)
      BY DEF Conf, Log, Null, Sock
    <3> QED
      BY <1>1, <3>1, MainFacts, CleanInstall
  <2>5. MaySock("main")' = MaySock("main") /\ MayNull("main")' = MayNull("main")
    <3>1. pc'["main"] = next
      BY <2>2 DEF IInv, TypeOK, Goto, Procs
    <3> QED
      BY <1>1, <2>3, <3>1 DEF MaySock, MayNull, Preparing
  <2> HIDE DEF t
  <2>6. TableBecomes("main", t)
    BY <2>1, SetTableFacts DEF Procs, t
  <2> QED
    BY <2>2, <2>3, <2>4, <2>5, <2>6, MainTidy
<1> QED
  BY <1>2, <1>3

\* The log file is opened once, or not at all.
LEMMA OpenLogTidy == IInv /\ Tidy /\ OpenLog => Tidy'
<1> SUFFICES ASSUME IInv, Tidy, OpenLog PROVE Tidy'
  OBVIOUS
<1>1. pc["main"] = "log" /\ logfd["main"] = NoFd
  BY DEF OpenLog, At, Tidy
<1>2. /\ Goto("main", "signals") /\ UNCHANGED <<m_ListenSocketList, sockfd, nullfd>>
  BY DEF OpenLog, sockVars
<1>3. MaySock("main")' = MaySock("main") /\ MayNull("main")' = MayNull("main")
  <2>1. pc'["main"] = "signals"
    BY <1>2 DEF IInv, TypeOK, Goto, Procs
  <2> QED
    BY <1>1, <1>2, <2>1 DEF MaySock, MayNull, Preparing
<1>4. Clean(fds["main"], NoFd, MaySock("main"), MayNull("main")) /\ IsTable(fds["main"])
  BY <1>1, MainFacts
<1>5. CASE \E n \in Fds : /\ SetTable("main", Install(fds["main"], n, Log))
                          /\ logfd' = [logfd EXCEPT !["main"] = n]
  <2>1. PICK n \in Fds : /\ SetTable("main", Install(fds["main"], n, Log))
                         /\ logfd' = [logfd EXCEPT !["main"] = n]
    BY <1>5
  <2> DEFINE t == Install(fds["main"], n, Log)
  <2>2. Clean(t, n, MaySock("main"), MayNull("main"))
    BY <1>4, CleanLog
  <2> HIDE DEF t
  <2>3. TableBecomes("main", t)
    BY <2>1, SetTableFacts DEF Procs, t
  <2> QED
    BY <1>2, <1>3, <2>1, <2>2, <2>3, MainTidy
<1>6. CASE logfd' = [logfd EXCEPT !["main"] = Stderr] /\ UNCHANGED fds
  <2>1. Clean(fds["main"], Stderr, MaySock("main"), MayNull("main"))
    BY <1>4 DEF Clean, IsTable, NoFd, Fds
  <2>2. TableBecomes("main", fds["main"])
    BY <1>6 DEF TableBecomes, IInv, TypeOK
  <2> QED
    BY <1>2, <1>3, <1>6, <2>1, <2>2, MainTidy
<1> QED
  BY <1>5, <1>6 DEF OpenLog

\* A new socket is the one that is being prepared.
LEMMA OpenSocketTidy == IInv /\ Tidy /\ OpenSocket => Tidy'
<1> SUFFICES ASSUME IInv, Tidy, OpenSocket PROVE Tidy'
  OBVIOUS
<1>1. pc["main"] = "socket"
  BY DEF OpenSocket, At
<1>2. CASE Fail("main")
  BY <1>1, <1>2, MainFacts, FailTidy DEF Preparing
<1>3. CASE ~Fail("main")
  <2>1. PICK n \in Fds :
          /\ SetTable("main", Install(fds["main"], n, Sock(Len(sock) + 1)))
          /\ sockfd' = n /\ Goto("main", "options")
          /\ UNCHANGED <<logfd, m_ListenSocketList, nullfd>>
    BY <1>3 DEF OpenSocket, Last
  <2> DEFINE t == Install(fds["main"], n, Sock(Len(sock) + 1))
  <2>2. pc'["main"] = "options"
    BY <2>1 DEF IInv, TypeOK, Goto, Procs
  <2>3. /\ MaySock("main") \subseteq MaySock("main")'
        /\ MayNull("main") \subseteq MayNull("main")'
        /\ n \in MaySock("main")'
    BY <1>1, <2>1, <2>2 DEF MaySock, MayNull, Preparing
  <2>4. Clean(fds["main"], logfd["main"], MaySock("main")', MayNull("main")')
    BY <1>1, <2>3, MainFacts, CleanMore
  <2>5. Clean(t, logfd["main"], MaySock("main")', MayNull("main")')
    BY <2>3, <2>4, CleanInstall, ObjectFacts
  <2> HIDE DEF t
  <2>6. TableBecomes("main", t)
    BY <2>1, SetTableFacts DEF Procs, t
  <2>7. logfd' = [logfd EXCEPT !["main"] = logfd["main"]]
    BY <1>1, <2>1, MainFacts
  <2> QED
    BY <2>1, <2>5, <2>6, <2>7, MainTidy
<1> QED
  BY <1>2, <1>3

\* The socket that listens goes to the list.
LEMMA ListenTidy == IInv /\ Tidy /\ Listen => Tidy'
<1> SUFFICES ASSUME IInv, Tidy, Listen PROVE Tidy'
  OBVIOUS
<1>1. pc["main"] = "listen" /\ ~Started("daemon")
  BY Alone DEF Listen, At
<1>2. CASE CloseAndFail
  BY <1>1, <1>2, CloseAndFailTidy DEF Preparing
<1>3. CASE ~CloseAndFail
  <2>1. /\ m_ListenSocketList' = Append(m_ListenSocketList, sockfd)
        /\ Goto("main", "socket") /\ UNCHANGED <<fds, logfd, sockfd, nullfd>>
    BY <1>3 DEF Listen
  <2>2. pc'["main"] = "socket"
    BY <2>1 DEF IInv, TypeOK, Goto, Procs
  <2>3. Range(m_ListenSocketList) \cup {sockfd} \subseteq Range(m_ListenSocketList')
    <3>1. m_ListenSocketList \in Seq(Fds)
      BY DEF IInv, TypeOK
    <3>2. /\ DOMAIN m_ListenSocketList \subseteq DOMAIN m_ListenSocketList'
          /\ Len(m_ListenSocketList) + 1 \in DOMAIN m_ListenSocketList'
          /\ m_ListenSocketList'[Len(m_ListenSocketList) + 1] = sockfd
          /\ \A k \in DOMAIN m_ListenSocketList :
               m_ListenSocketList'[k] = m_ListenSocketList[k]
      BY <2>1, <3>1
    <3> QED
      BY <3>2 DEF Range
  <2>4. /\ MaySock("main") \subseteq MaySock("main")'
        /\ MayNull("main") \subseteq MayNull("main")'
    BY <1>1, <2>2, <2>3 DEF MaySock, MayNull
  <2>5. Clean(fds["main"], logfd["main"], MaySock("main")', MayNull("main")')
    BY <1>1, <2>4, MainFacts, CleanMore
  <2>6. TableBecomes("main", fds["main"]) /\ logfd' = [logfd EXCEPT !["main"] = logfd["main"]]
    BY <2>1 DEF IInv, TypeOK, TableBecomes, Procs
  <2> QED
    BY <1>1, <2>1, <2>5, <2>6, MainTidy
<1> QED
  BY <1>2, <1>3

\* The other steps of main open and close nothing, but at its end.
LEMMA OtherMainTidy ==
  ASSUME IInv, Tidy,
         BadLogConf \/ InitSignals \/ ReadConf \/ SetOptions \/ Bind \/ BadPort
           \/ SocketsDone \/ StayInForeground \/ ParentReturns
  PROVE  Tidy'
<1>1. CASE BadLogConf
  <2>1. pc["main"] = "log"
    BY <1>1 DEF BadLogConf, At
  <2> QED
    BY <1>1, <2>1, GoTidy DEF BadLogConf, Terminate, Preparing, sockVars
<1>2. CASE InitSignals
  <2>1. pc["main"] = "signals"
    BY <1>2 DEF InitSignals, At
  <2>2. CASE Fail("main")
    BY <2>1, <2>2, MainFacts, FailTidy DEF Preparing
  <2> QED
    BY <1>2, <2>1, <2>2, GoTidy DEF InitSignals, Preparing, sockVars
<1>3. CASE ReadConf
  <2>1. pc["main"] = "readconf"
    BY <1>3 DEF ReadConf, At
  <2> QED
    BY <1>3, <2>1, GoTidy DEF ReadConf, Terminate, Preparing, sockVars
<1>4. CASE SetOptions
  <2>1. pc["main"] = "options"
    BY <1>4 DEF SetOptions, At
  <2>2. CASE CloseAndFail
    BY <2>1, <2>2, CloseAndFailTidy DEF Preparing
  <2> QED
    BY <1>4, <2>1, <2>2, GoTidy DEF SetOptions, Preparing, sockVars
<1>5. CASE Bind
  <2>1. pc["main"] = "bind"
    BY <1>5 DEF Bind, At
  <2>2. CASE CloseAndFail
    BY <2>1, <2>2, CloseAndFailTidy DEF Preparing
  <2> QED
    BY <1>5, <2>1, <2>2, GoTidy DEF Bind, Preparing
<1>6. CASE BadPort
  <2>1. pc["main"] = "bind"
    BY <1>6 DEF BadPort, At
  <2> QED
    BY <1>6, <2>1, GoTidy DEF BadPort, Terminate, Preparing, sockVars
<1>7. CASE SocketsDone
  <2>1. pc["main"] = "socket"
    BY <1>7 DEF SocketsDone, At
  <2>2. CASE Fail("main")
    BY <2>1, <2>2, MainFacts, FailTidy DEF Preparing
  <2> QED
    BY <1>7, <2>1, <2>2, GoTidy DEF SocketsDone, Preparing, sockVars
<1>8. CASE StayInForeground
  <2>1. pc["main"] = "daemonize"
    BY <1>8 DEF StayInForeground, At
  <2> QED
    BY <1>8, <2>1, GoTidy DEF StayInForeground, Terminate, Preparing, sockVars
<1>9. CASE ParentReturns
  <2>1. pc["main"] = "parent"
    BY <1>9 DEF ParentReturns, At
  <2>2. Return("main", 0, fds["main"]) /\ UNCHANGED <<sockVars, nullfd>>
    BY <1>9 DEF ParentReturns
  <2>3. MaySock("main") = Range(m_ListenSocketList)
    BY <2>1 DEF MaySock, Preparing
  <2> QED
    BY <2>1, <2>2, <2>3, MainFacts, ReturnTidy
<1> QED
  BY <1>1, <1>2, <1>3, <1>4, <1>5, <1>6, <1>7, <1>8, <1>9

\* The daemon starts with a copy of a clean table.
LEMMA ForkDaemonTidy == IInv /\ Tidy /\ ForkDaemon => Tidy'
<1> SUFFICES ASSUME IInv, Tidy, ForkDaemon PROVE Tidy'
  OBVIOUS
<1>1. pc["main"] = "daemonize"
  BY DEF ForkDaemon, At
<1>2. CASE Fail("main")
  BY <1>1, <1>2, MainFacts, FailTidy DEF Preparing
<1>3. CASE ~Fail("main")
  <2>1. /\ pc' = [pc EXCEPT !["main"] = "parent", !["daemon"] = "setsid"]
        /\ fds' = [fds EXCEPT !["daemon"] = fds["main"]]
        /\ logfd' = [logfd EXCEPT !["daemon"] = logfd["main"]]
        /\ m_ListenSocketList' = m_ListenSocketList
    BY <1>3 DEF ForkDaemon, sockVars
  <2>2. /\ pc'["main"] = "parent" /\ pc'["daemon"] = "setsid"
        /\ \A q \in Procs : fds'[q] = fds["main"] /\ logfd'[q] = logfd["main"]
    BY <2>1 DEF IInv, TypeOK, Procs
  <2>3. \A q \in Procs : MaySock(q)' = MaySock("main") /\ MayNull(q)' = MayNull("main")
    BY <1>1, <2>1, <2>2 DEF MaySock, MayNull, Preparing, Procs
  <2>4. Clean(fds["main"], logfd["main"], MaySock("main"), MayNull("main"))
    BY <1>1, MainFacts
  <2>5. \A q \in Procs : Clean(fds'[q], logfd'[q], MaySock(q)', MayNull(q)')
    BY <2>2, <2>3, <2>4
  <2> QED
    BY <2>2, <2>5 DEF Tidy, Clean
<1> QED
  BY <1>2, <1>3

\* The daemon goes on with the table t.
LEMMA DaemonGoesTidy ==
  ASSUME IInv, Tidy, NEW next, Goto("daemon", next), NEW t, TableBecomes("daemon", t),
         Clean(t, logfd["daemon"], MaySock("daemon"), MayNull("daemon")'),
         UNCHANGED <<logfd, sockVars>>
  PROVE  Tidy'
<1>1. logfd' = [logfd EXCEPT !["daemon"] = logfd["daemon"]]
  BY DEF IInv, TypeOK, Procs
<1>2. MaySock("daemon")' = MaySock("daemon")
  BY DEF MaySock, sockVars
<1> QED
  BY <1>1, <1>2, DaemonTidy

\* The number ngx_daemon has opened on /dev/null is closed, or it is one of those for
\* stdin and stdout.
LEMMA DaemonStepTidy == IInv /\ Tidy /\ Daemon => Tidy'
<1> SUFFICES ASSUME IInv, Tidy, Daemon PROVE Tidy'
  OBVIOUS
<1> DEFINE t0 == fds["daemon"]
           l == logfd["daemon"]
<1>1. /\ "daemon" \in Procs /\ Started("daemon") /\ pc["daemon"] # "terminated"
      /\ pc["daemon"] \in DaemonLabels \ {"none"} /\ pc["daemon"] \notin Preparing
      /\ pc["daemon"] # "exited"
  BY DEF Daemon, SetSid, OpenNull, Dup2, CloseNull, At, Procs, Started, DaemonLabels,
         Preparing
<1>2. Clean(t0, l, MaySock("daemon"), MayNull("daemon")) /\ Good(t0, l)
  BY <1>1 DEF Tidy, IInv, GoodTables
<1>3. MaySock("daemon") = Range(m_ListenSocketList)
  BY DEF MaySock
<1>4. \A next : Goto("daemon", next) => pc'["daemon"] = next
  BY <1>1 DEF IInv, TypeOK, Goto
<1>5. ASSUME Fail("daemon") PROVE Tidy'
  BY <1>1, <1>5, FailTidy
<1>6. CASE SetSid
  <2>1. pc["daemon"] = "setsid"
    BY <1>6 DEF SetSid, At
  <2>2. CASE Return("daemon", 1, t0) /\ UNCHANGED <<sockVars, nullfd>>
    BY <1>1, <1>2, <1>3, <2>2, ReturnTidy DEF Good
  <2>3. CASE Goto("daemon", "null") /\ UNCHANGED <<fds, logfd, sockVars>>
    <3>1. MayNull("daemon")' = MayNull("daemon")
      BY <1>4, <2>1, <2>3 DEF MayNull
    <3>2. TableBecomes("daemon", t0)
      BY <2>3 DEF TableBecomes, IInv, TypeOK
    <3> QED
      BY <1>2, <2>3, <3>1, <3>2, DaemonGoesTidy
  <2> QED
    BY <1>6, <2>2, <2>3 DEF SetSid
<1>7. CASE OpenNull
  <2>1. pc["daemon"] = "null"
    BY <1>7 DEF OpenNull, At
  <2>2. CASE ~Fail("daemon")
    <3>1. PICK n \in Fds : /\ SetTable("daemon", Install(t0, n, Null)) /\ nullfd' = n
                           /\ Goto("daemon", "dup0") /\ UNCHANGED <<logfd, sockVars>>
      BY <1>7, <2>2 DEF OpenNull
    <3>2. n \in MayNull("daemon")' /\ MayNull("daemon") \subseteq MayNull("daemon")'
      BY <1>4, <2>1, <3>1 DEF MayNull
    <3> DEFINE t == Install(t0, n, Null)
    <3>3. Clean(t0, l, MaySock("daemon"), MayNull("daemon")')
      BY <1>2, <3>2, CleanMore
    <3>4. Clean(t, l, MaySock("daemon"), MayNull("daemon")')
      BY <3>2, <3>3, CleanInstall, ObjectFacts
    <3> HIDE DEF t
    <3>5. TableBecomes("daemon", t)
      BY <1>1, <3>1, SetTableFacts DEF t
    <3> QED
      BY <3>1, <3>4, <3>5, DaemonGoesTidy
  <2> QED
    BY <1>5, <2>2
<1>8. ASSUME NEW here \in {"dup0", "dup1"}, NEW n \in {0, 1}, NEW next \in {"dup1", "close"},
             Dup2(here, n, next)
      PROVE  Tidy'
  <2>1. pc["daemon"] = here
    BY <1>8 DEF Dup2, At
  <2>2. CASE ~Fail("daemon")
    <3> DEFINE t == Install(t0, n, Null)
    <3>1. t0[nullfd] = Null
      BY <2>1 DEF IInv, DaemonInv
    <3>2. /\ SetTable("daemon", t) /\ Goto("daemon", next)
          /\ UNCHANGED <<logfd, sockVars, nullfd>>
      BY <1>8, <2>2, <3>1 DEF Dup2
    <3>3. n \in MayNull("daemon") /\ MayNull("daemon")' = MayNull("daemon")
      BY <1>4, <2>1, <3>2 DEF MayNull
    <3>4. Clean(t, l, MaySock("daemon"), MayNull("daemon"))
      BY <1>2, <3>3, CleanInstall, ObjectFacts
    <3> HIDE DEF t
    <3>5. TableBecomes("daemon", t)
      BY <1>1, <3>2, SetTableFacts
    <3> QED
      BY <3>2, <3>3, <3>4, <3>5, DaemonGoesTidy
  <2> QED
    BY <1>5, <2>2
<1>9. CASE CloseNull
  <2> DEFINE t == WithoutNull(t0)
  <2>1. pc["daemon"] = "close"
    BY <1>9 DEF CloseNull, At
  <2>2. t0[nullfd] = Null /\ nullfd \in DOMAIN t0
    BY <2>1 DEF IInv, DaemonInv
  <2>3. Clean(t, l, MaySock("daemon"), {0, 1})
    <3>1. MayNull("daemon") = {0, 1, nullfd}
      BY <2>1 DEF MayNull
    <3>2. CASE nullfd > Stderr
      <4>1. Clean(t, l, MaySock("daemon") \ {nullfd}, MayNull("daemon") \ {nullfd})
        BY <1>2, <3>2, CleanClose DEF WithoutNull
      <4> QED
        BY <3>1, <4>1, CleanMore
    <3>3. CASE ~(nullfd > Stderr)
      <4>1. nullfd \in {0, 1}
        BY <1>2, <2>2, <3>3, ObjectFacts DEF Good, StdOK, IsTable, Fds, Stderr
      <4>2. MayNull("daemon") = {0, 1}
        BY <3>1, <4>1
      <4> QED
        BY <1>2, <3>3, <4>2 DEF WithoutNull
    <3> QED
      BY <3>2, <3>3
  <2>4. IsTable(t)
    <3>1. /\ DOMAIN t \subseteq DOMAIN t0
          /\ \A n \in DOMAIN t : t[n] = t0[n]
      BY DEF WithoutNull, Close, Restrict
    <3> QED
      BY <1>2, <3>1 DEF Good, IsTable
  <2> HIDE DEF t
  <2>5. CASE Return("daemon", 1, t) /\ UNCHANGED <<sockVars, nullfd>>
    BY <1>1, <1>3, <2>3, <2>4, <2>5, ReturnTidy
  <2>6. CASE SetTable("daemon", t) /\ Goto("daemon", "cycle") /\ UNCHANGED <<logfd, sockVars>>
    <3>1. MayNull("daemon")' = {0, 1}
      BY <1>4, <2>6 DEF MayNull
    <3>2. TableBecomes("daemon", t)
      BY <1>1, <2>6, SetTableFacts
    <3> QED
      BY <2>3, <2>6, <3>1, <3>2, DaemonGoesTidy
  <2> QED
    BY <1>9, <2>5, <2>6 DEF CloseNull, t
<1>10. CASE Dup2("dup0", 0, "dup1")
  BY <1>8, <1>10
<1>11. CASE Dup2("dup1", 1, "close")
  BY <1>8, <1>11
<1> QED
  BY <1>6, <1>7, <1>9, <1>10, <1>11 DEF Daemon

\* The shell leaves three terminals.
LEMMA InitTidy == Init => Tidy
<1> SUFFICES ASSUME Init PROVE Tidy
  OBVIOUS
<1>1. /\ pc["main"] = "load" /\ pc["daemon"] = "none" /\ logfd["main"] = NoFd
      /\ fds["main"] = StdTable
  BY DEF Init, Procs
<1>2. \A n \in DOMAIN StdTable : StdTable[n] = Tty
  BY DEF StdTable
<1> QED
  BY <1>1, <1>2, ObjectFacts DEF Tidy, Clean, Started, Procs

\* Every step keeps the tables clean.
LEMMA StepTidy == IInv /\ Tidy /\ [Next]_vars => Tidy'
<1> SUFFICES ASSUME IInv, Tidy, [Next]_vars PROVE Tidy'
  OBVIOUS
<1>1. CASE Main
  BY <1>1, LoadConfTidy, OpenLogTidy, OpenSocketTidy, ListenTidy, OtherMainTidy,
     ForkDaemonTidy
  DEF Main
<1>2. CASE Daemon
  BY <1>2, DaemonStepTidy
<1>3. CASE UNCHANGED vars
  BY <1>3 DEF vars, sockVars, Tidy, Clean, MaySock, MayNull, Started
<1> QED
  BY <1>1, <1>2, <1>3 DEF Next

\* Whatever fails, a process that has returned or goes on as master has no socket, log file
\* or number for /dev/null that nothing refers to any more.
THEOREM NeverStray == Spec => []NothingStray
<1>1. IInv /\ Tidy => NothingStray
  <2> SUFFICES ASSUME IInv, Tidy, NEW p \in Procs, At(p, "cycle") \/ At(p, "exited"),
                      NEW n \in DOMAIN fds[p]
               PROVE  /\ fds[p][n] = Log => logfd[p] = n
                      /\ fds[p][n] \in {Sock(i) : i \in DOMAIN sock}
                           => n \in Range(m_ListenSocketList)
                      /\ fds[p][n] = Null /\ At(p, "cycle") => n < Stderr
    BY DEF NothingStray
  <2>1. Clean(fds[p], logfd[p], MaySock(p), MayNull(p))
    BY DEF Tidy, Started, At
  <2>2. MaySock(p) = Range(m_ListenSocketList)
    BY DEF MaySock, Preparing, At
  <2>3. At(p, "cycle") => MayNull(p) = {0, 1}
    BY DEF MayNull, At
  <2>4. DOMAIN sock \subseteq Nat
    BY SocketFacts
  <2> QED
    BY <2>1, <2>2, <2>3, <2>4 DEF Clean, Stderr
<1> QED
  BY <1>1, Invariance, InitTidy, StepTidy, PTL DEF Spec
=============================================================================
