----------------------------- MODULE HttpService -----------------------------
(***************************************************************************)
(* What the HTTP server of myhttp/http promises its clients, without its    *)
(* descriptors, threads, pipes and processes.  Connections are taken in the *)
(* order they came.  One that is taken is closed only when its client has   *)
(* the whole answer -- a file, or every byte its program wrote -- or is     *)
(* gone.  One that is refused, or whose file cannot be sent, ends the       *)
(* server, and nothing else does but a client that hung up or a program     *)
(* that left its input unread.                                              *)
(***************************************************************************)
EXTENDS Integers, Sequences

CONSTANTS
    Conns,     \* the connections
    Backlog,   \* connections that can wait to be taken
    Late       \* bound: bytes a program may write at the moment it ends

VARIABLES
    up,        \* is the server running?
    queue,     \* connections waiting to be taken, oldest first
    stage,     \* how far the server is with each connection
    gone,      \* the clients that hung up
    reply,     \* status lines and pages each client got, in order
    program,   \* the program run for a connection: "none", "runs" or "over"
    made,      \* the bytes it has written
    fwd        \* those that were sent on to the client

serviceVars == <<up, queue, stage, gone, reply, program, made, fwd>>

ServiceInit ==
    /\ up = TRUE
    /\ queue = <<>>
    /\ stage = [w \in Conns |-> "away"]
    /\ gone = {}
    /\ reply = [w \in Conns |-> <<>>]
    /\ program = [w \in Conns |-> "none"]
    /\ made = [w \in Conns |-> 0]
    /\ fwd = [w \in Conns |-> 0]

Become(w, s) == stage' = [stage EXCEPT ![w] = s]

\* A client that is gone gets nothing any more
Say(w, items) ==
    reply' = IF w \in gone THEN reply ELSE [reply EXCEPT ![w] = @ \o items]
HasGot(w, items) == w \in gone \/ reply[w] = items

Arrive(w) ==
    /\ up /\ stage[w] = "away"
    /\ Len(queue) < Backlog
    /\ queue' = Append(queue, w)
    /\ Become(w, "queued")
    /\ UNCHANGED <<up, gone, reply, program, made, fwd>>

HangUp(w) ==
    /\ stage[w] # "away"
    /\ gone' = gone \union {w}
    /\ UNCHANGED <<up, queue, stage, reply, program, made, fwd>>

\* The oldest connection is served, or forgotten when no thread can be had
Take ==
    /\ up /\ queue # <<>>
    /\ queue' = Tail(queue)
    /\ Become(Head(queue), "open") \/ Become(Head(queue), "forgotten")
    /\ UNCHANGED <<up, gone, reply, program, made, fwd>>

\* A file is answered by its status line, then itself
SendPart(w) ==
    /\ up /\ stage[w] = "open" /\ program[w] = "none"
    /\ \/ HasGot(w, <<>>) /\ Say(w, <<"200">>)
       \/ HasGot(w, <<"200">>) /\ Say(w, <<"file">>)
    /\ UNCHANGED <<up, queue, stage, gone, program, made, fwd>>

\* A program begins, after its status line; it may outlive the server
Start(w) ==
    /\ stage[w] = "open" /\ program[w] = "none"
    /\ HasGot(w, <<>>)
    /\ Say(w, <<"200">>)
    /\ program' = [program EXCEPT ![w] = "runs"]
    /\ UNCHANGED <<up, queue, stage, gone, made, fwd>>

Produce(w) ==
    /\ program[w] = "runs"
    /\ made' = [made EXCEPT ![w] = @ + 1]
    /\ UNCHANGED <<up, queue, stage, gone, reply, program, fwd>>

\* A client that hangs up in time can keep its program from beginning
End(w) ==
    /\ program[w] = "runs" \/ (program[w] = "none" /\ w \in gone /\ stage[w] = "open")
    /\ program' = [program EXCEPT ![w] = "over"]
    /\ \E n \in 0..Late : made' = [made EXCEPT ![w] = @ + n]
    /\ UNCHANGED <<up, queue, stage, gone, reply, fwd>>

Forward(w) ==
    /\ up /\ stage[w] = "open"
    /\ fwd[w] < made[w]
    /\ HasGot(w, <<"200">>)
    /\ fwd' = [fwd EXCEPT ![w] = @ + 1]
    /\ UNCHANGED <<up, queue, stage, gone, reply, program, made>>

\* The connection is closed once the answer is complete
Finish(w) ==
    /\ up /\ stage[w] = "open"
    /\ \/ program[w] = "none" /\ HasGot(w, <<"200", "file">>)
       \/ program[w] = "over" /\ HasGot(w, <<"200">>) /\ fwd[w] = made[w]
    /\ Become(w, "closed")
    /\ UNCHANGED <<up, queue, gone, reply, program, made, fwd>>

\* An error status, with its page or without; an unreadable file has neither
Refuse(w) ==
    /\ up /\ stage[w] = "open" /\ program[w] = "none"
    /\ HasGot(w, <<>>)
    /\ \E code \in {"400", "404", "500"} :
          Say(w, <<>>) \/ Say(w, <<code>>) \/ Say(w, <<code, "page">>)
    /\ Become(w, "refused")
    /\ UNCHANGED <<up, queue, gone, program, made, fwd>>

\* A file that cannot be sent: its status line is followed by another
Spoil(w) ==
    /\ up /\ stage[w] = "open" /\ program[w] = "none"
    /\ HasGot(w, <<"200">>)
    /\ Say(w, <<"500">>) \/ Say(w, <<"500", "page">>)
    /\ Become(w, "refused")
    /\ UNCHANGED <<up, queue, gone, program, made, fwd>>

Stop ==
    /\ up
    /\ \E w \in Conns : \/ stage[w] = "refused"
                        \/ stage[w] = "open" /\ (w \in gone \/ program[w] = "over")
    /\ up' = FALSE
    /\ UNCHANGED <<queue, stage, gone, reply, program, made, fwd>>

ServiceNext ==
    \/ Take \/ Stop
    \/ \E w \in Conns :
          \/ Arrive(w) \/ HangUp(w) \/ SendPart(w) \/ Start(w) \/ Produce(w)
          \/ End(w) \/ Forward(w) \/ Finish(w) \/ Refuse(w) \/ Spoil(w)

ServiceSpec == ServiceInit /\ [][ServiceNext]_serviceVars
=============================================================================
