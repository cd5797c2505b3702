-------------------------------- MODULE HttpCtl --------------------------------
(***************************************************************************)
(* myhttp/http/http_ctl.sh, the same file in http4.0: start, stop and        *)
(* restart of the server by way of http.pid.  http starts its server in the  *)
(* foreground (main.c has daemon() commented out), http4.0 as a daemon.  One  *)
(* operator gives one command after the other.                               *)
(***************************************************************************)
EXTENDS Integers, FiniteSets

CONSTANT MaxServers     \* bound: servers that come up

VARIABLES
    daemonized,  \* main calls daemon(1,0)
    ctl,         \* the next line of the script; "prompt" without a script
    restarting,  \* the command is restart, and http_start is still to come
    pidfile,     \* http.pid: {} without a file, {S} with the numbers S in it
    pid,         \* the script's $pid
    running,     \* servers that listen
    dying,       \* killed servers whose socket is still open
    held,        \* a CGI program that outlived its server holds the listening socket
    born,        \* servers that came up so far, or may still do
    late,        \* servers that are still to come up, their script killed
    cut          \* history: servers whose start command did not get to its end

ctlVars ==
    <<daemonized, ctl, restarting, pidfile, pid, running, dying, held, born, late, cut>>

Servers == 1..MaxServers
Exists == pidfile # {}
Listed == UNION pidfile     \* $(cat $PID)

CtlInit ==
    /\ daemonized \in BOOLEAN
    /\ ctl = "prompt" /\ restarting = FALSE
    /\ pidfile = {} /\ pid = {}
    /\ running = {} /\ dying = {} /\ held = FALSE /\ born = 0
    /\ late = {} /\ cut = {}

-----------------------------------------------------------------------------
(* The script *)

Command ==
    /\ ctl = "prompt"
    /\ \/ ctl' = "start" /\ restarting' = FALSE
       \/ ctl' = "stop" /\ restarting' \in BOOLEAN
    /\ UNCHANGED <<daemonized, pidfile, pid, running, dying, held, born, late, cut>>

\* [[ -f $PID ]]: a file, of a server that is alive or not, refuses the start
Start ==
    /\ ctl = "start"
    /\ ctl' = IF Exists THEN "prompt" ELSE "bin"
    /\ UNCHANGED <<daemonized, restarting, pidfile, pid, running, dying, held, born,
                   late, cut>>

\* $BIN $ip $port returns when startup() has failed, which it does at least when
\* another process listens, or when daemon() has taken the server to the background
Bin ==
    /\ ctl = "bin"
    /\ \/ ctl' = "pidof" /\ UNCHANGED <<running, born>>
       \/ /\ running = {} /\ dying = {} /\ ~held /\ born < MaxServers
          /\ running' = {born + 1} /\ born' = born + 1
          /\ ctl' = IF daemonized THEN "pidof" ELSE "wait"
    /\ UNCHANGED <<daemonized, restarting, pidfile, pid, dying, held, late, cut>>

\* A server in the foreground: the script waits for its end
Wait ==
    /\ ctl = "wait" /\ born \notin running
    /\ ctl' = "pidof"
    /\ UNCHANGED <<daemonized, restarting, pidfile, pid, running, dying, held, born,
                   late, cut>>

\* ^C, at any line, ends the script and with it a server in the foreground; a kill
\* of the script leaves the server, even one that is only coming up.  If this was
\* before the end of http_start, http.pid does not have its number.
Interrupt ==
    /\ ctl # "prompt" /\ ctl' = "prompt"
    /\ \/ UNCHANGED <<running, dying, born, late>>
       \/ /\ ctl = "wait" /\ running' = running \ {born}
          /\ dying' = dying \union (running \intersect {born})
          /\ UNCHANGED <<born, late>>
       \/ /\ ctl = "bin" /\ born < MaxServers
          /\ late' = late \union {born + 1} /\ born' = born + 1
          /\ UNCHANGED <<running, dying>>
    /\ cut' = IF ctl \in {"bin", "wait", "pidof", "write"}
                THEN cut \union running' \union late' ELSE cut
    /\ UNCHANGED <<daemonized, restarting, pidfile, pid, held>>

\* pidof $(basename $BIN) > $PID: the shell makes the file, pidof fills it
Pidof ==
    /\ \/ ctl = "pidof" /\ ctl' = "write" /\ pidfile' = {{}}
       \/ ctl = "write" /\ ctl' = "prompt" /\ pidfile' = {running \union dying \union late}
    /\ UNCHANGED <<daemonized, restarting, pid, running, dying, held, born, late, cut>>

\* What follows http_stop in the command
AfterStop == IF restarting THEN "start" ELSE "prompt"

\* fault variant: the file is removed before it is read
Stop_Removes ==
    /\ ctl = "stop"
    /\ ctl' = IF Exists THEN "kill" ELSE AfterStop
    /\ pidfile' = {}
    /\ pid' = {}
    /\ UNCHANGED <<daemonized, restarting, running, dying, held, born, late, cut>>

\* [[ ! -f $PID ]] and pid=$(cat $PID)
Stop ==
    /\ ctl = "stop"
    /\ ctl' = IF Exists THEN "kill" ELSE AfterStop
    /\ pid' = IF Exists THEN Listed ELSE pid
    /\ UNCHANGED <<daemonized, restarting, pidfile, running, dying, held, born,
                   late, cut>>

\* kill -9 $pid does not wait for the end of the server
Kill ==
    /\ ctl = "kill"
    /\ running' = running \ pid
    /\ dying' = dying \union (running \intersect pid)
    /\ late' = late \ pid
    /\ ctl' = "remove"
    /\ UNCHANGED <<daemonized, restarting, pidfile, pid, held, born, cut>>

Remove ==
    /\ ctl = "remove"
    /\ pidfile' = {}
    /\ ctl' = AfterStop
    /\ UNCHANGED <<daemonized, restarting, pid, running, dying, held, born, late, cut>>

-----------------------------------------------------------------------------
(* The servers *)

\* A server ends by itself, by one of the exits of httpd.c or by SIGPIPE, at any
\* moment, or by the kill; a CGI program of it may stay, with its copy of the
\* listening socket
ServerEnds ==
    /\ \/ running # {} /\ running' = {} /\ UNCHANGED dying
       \/ dying # {} /\ dying' = {} /\ UNCHANGED running
    /\ held' \in BOOLEAN
    /\ held => held'
    /\ UNCHANGED <<daemonized, ctl, restarting, pidfile, pid, born, late, cut>>

\* A server whose script is gone comes up, or does not
ComesUp ==
    /\ \E s \in late :
          /\ late' = late \ {s}
          /\ \/ UNCHANGED running
             \/ running = {} /\ dying = {} /\ ~held /\ running' = {s}
    /\ UNCHANGED <<daemonized, ctl, restarting, pidfile, pid, dying, held, born, cut>>

ProgramEnds ==
    /\ held /\ held' = FALSE
    /\ UNCHANGED <<daemonized, ctl, restarting, pidfile, pid, running, dying, born,
                   late, cut>>

CtlNext ==
    \/ Command \/ Start \/ Bin \/ Wait \/ Interrupt \/ Pidof
    \/ Stop \/ Kill \/ Remove
    \/ ServerEnds \/ ComesUp \/ ProgramEnds

-----------------------------------------------------------------------------
(* Properties *)

\* Types.
CtlTypeOK ==
    /\ {daemonized, restarting, held} \subseteq BOOLEAN
    /\ ctl \in {"prompt", "start", "bin", "wait", "pidof", "write", "stop", "kill", "remove"}
    /\ pidfile \in {{}} \union {{S} : S \in SUBSET Servers}
    /\ {pid, running, dying, late, cut} \subseteq SUBSET Servers
    /\ born \in 0..MaxServers

\* Between two commands a server that runs is one whose number http.pid has, so
\* that a stop ends it, unless the very command that started it was interrupted; and
\* there is at most one, whatever crashed or was interrupted in between, however
\* long a killed server takes to end and whatever still holds its port.
RunningIsKnown ==
    /\ ctl = "prompt" => running \subseteq Listed \union cut
    /\ Cardinality(running) <= 1

\* http_ctl.sh:29 says "httpd is not exist!!" when there is no http.pid.
AbsentMeansStopped == ctl = "stop" /\ ~Exists => running = {}
=============================================================================
