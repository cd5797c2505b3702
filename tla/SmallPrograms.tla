---------------------------- MODULE SmallPrograms ----------------------------
(***************************************************************************)
(* The small programs of the repository, one at a time: the first state      *)
(* chooses which of them runs, and the others stay as they were at the start. *)
(***************************************************************************)
EXTENDS ProducerConsumer

CONSTANTS
    Users, MaxProcs, MaxOpen, NoSock,   \* of TcpServers
    Starts, Removals,                   \* of Semaphore
    Pages, Root, MaxCount,              \* of Crawler
    MaxServers,                         \* of HttpCtl
    MaxQuery                            \* of SqlCgi

ASSUME ProgramsAssumption ==
    /\ Root \in Pages
    /\ MaxProcs \in Nat \ {0}
    /\ {MaxOpen, Removals, MaxCount, MaxServers} \subseteq Nat
    /\ NoSock \notin Users

VARIABLES
    prog,   \* the program that runs
    design, listening, at, parent, ret, open, queue, user, unread,
    set, sets, value, ready, undo, step, semid,
    next, blocked, handler, alarm, pending,
    links, fate, new_url, old_url, count, datas, phase, file,
    daemonized, ctl, restarting, pidfile, pid, running, dying, held, born, late, cut,
    talk, ends, bytes, lost, heard,
    program, method, query, i, inside, str, line, rows

Tcp == INSTANCE TcpServers
Sem == INSTANCE Semaphore
Sleep == INSTANCE MySleep
Craw == INSTANCE Crawler
Ctl == INSTANCE HttpCtl
Pair == INSTANCE SockPair
Sql == INSTANCE SqlCgi

tcpVars == <<design, listening, at, parent, ret, open, queue, user, unread>>
semVars == <<set, sets, value, ready, undo, step, semid>>
sleepVars == <<next, blocked, handler, alarm, pending>>
crawlVars == <<links, fate, new_url, old_url, count, datas, phase, file>>
ctlVars ==
    <<daemonized, ctl, restarting, pidfile, pid, running, dying, held, born, late, cut>>
pairVars == <<talk, ends, bytes, lost, heard>>
sqlVars == <<program, method, query, i, inside, str, line, rows>>
allVars == <<prog, vars, tcpVars, semVars, sleepVars, crawlVars, ctlVars, pairVars, sqlVars>>

ProgramsInit ==
    /\ prog \in {"list", "tcp", "sem", "sleep", "crawler", "ctl", "pair", "sql"}
    /\ prog # "tcp" => design = "turn"
    /\ prog # "crawler" => /\ links = [p \in Pages |-> {}]
                           /\ fate = [p \in Pages |-> "good"]
    /\ prog # "ctl" => daemonized = TRUE
    /\ prog # "sql" => program = "select"
    /\ Init /\ Tcp!TcpInit /\ Sem!SemInit /\ Sleep!SleepInit /\ Craw!CrawlInit
    /\ Ctl!CtlInit /\ Pair!PairInit /\ Sql!SqlInit

\* Only the variables of the program that runs change
ListRuns ==
    /\ prog = "list"
    /\ UNCHANGED <<prog, tcpVars, semVars, sleepVars, crawlVars, ctlVars, pairVars, sqlVars>>
TcpRuns ==
    /\ prog = "tcp"
    /\ UNCHANGED <<prog, vars, semVars, sleepVars, crawlVars, ctlVars, pairVars, sqlVars>>
SemRuns ==
    /\ prog = "sem"
    /\ UNCHANGED <<prog, vars, tcpVars, sleepVars, crawlVars, ctlVars, pairVars, sqlVars>>
SleepRuns ==
    /\ prog = "sleep"
    /\ UNCHANGED <<prog, vars, tcpVars, semVars, crawlVars, ctlVars, pairVars, sqlVars>>
CrawlerRuns ==
    /\ prog = "crawler"
    /\ UNCHANGED <<prog, vars, tcpVars, semVars, sleepVars, ctlVars, pairVars, sqlVars>>
CtlRuns ==
    /\ prog = "ctl"
    /\ UNCHANGED <<prog, vars, tcpVars, semVars, sleepVars, crawlVars, pairVars, sqlVars>>
PairRuns ==
    /\ prog = "pair"
    /\ UNCHANGED <<prog, vars, tcpVars, semVars, sleepVars, crawlVars, ctlVars, sqlVars>>
SqlRuns ==
    /\ prog = "sql"
    /\ UNCHANGED <<prog, vars, tcpVars, semVars, sleepVars, crawlVars, ctlVars, pairVars>>

ProgramsNext ==
    \/ ListRuns /\ Next
    \/ TcpRuns /\ Tcp!TcpNext
    \/ SemRuns /\ Sem!SemNext
    \/ SleepRuns /\ Sleep!SleepNext
    \/ CrawlerRuns /\ Craw!CrawlNext
    \/ CtlRuns /\ Ctl!CtlNext
    \/ PairRuns /\ Pair!PairNext
    \/ SqlRuns /\ Sql!SqlNext

\* The fairness of ProducerConsumer and of MySleep; thread_tcp and each process of
\* the pair go on
ProgramsFairness ==
    /\ WF_allVars(ListRuns /\ Producer) /\ WF_allVars(ListRuns /\ Consumer)
    /\ WF_allVars(SleepRuns /\ Sleep!Sleeper) /\ WF_allVars(SleepRuns /\ Sleep!GoesOff)
    /\ WF_tcpVars(TcpRuns /\ design = "thread" /\ Tcp!Serves)
    /\ \A p \in Pair!Both : WF_allVars(PairRuns /\ Pair!Talks(p))

ProgramsSpec == ProgramsInit /\ [][ProgramsNext]_allVars /\ ProgramsFairness

-----------------------------------------------------------------------------
(* The properties of the programs, by name *)

\* Types.
Types ==
    /\ TypeOK /\ Tcp!TcpTypeOK /\ Sem!SemTypeOK /\ Sleep!SleepTypeOK /\ Craw!CrawlTypeOK
    /\ Ctl!CtlTypeOK /\ Pair!PairTypeOK /\ Sql!SqlTypeOK

\* proc_socket: a client has one reader, however many processes accept.
OneReaderEach == Tcp!OneReaderEach

\* proc_socket: no process that is over stays unwaited for.
ChildrenAreAwaited == Tcp!ChildrenAreAwaited

\* thread_tcp: a client behind others is read once these have quit.
WaitersAreRead == Tcp!WaitersAreRead

\* sem: value and processes inside add up to 1.
Exclusive == Sem!Exclusive

\* mysleep: the alarm is neither missed nor deadly.
SleepEnds == Sleep!SleepEnds

\* crawler: each page is fetched and printed once.
EachPageOnce == Craw!EachPageOnce

\* http_ctl.sh: a server that runs is in http.pid, unless its start was interrupted.
RunningIsKnown == Ctl!RunningIsKnown

\* http_ctl.sh: without http.pid no server runs, as line 29 says.
AbsentMeansStopped == Ctl!AbsentMeansStopped

\* sockpair: one process does not wait for ever for the other.
PartnerEnds == Pair!PartnerEnds

\* sql_cgi: the values of the query, each once.
EachPartOnce == Sql!EachPartOnce
=============================================================================
