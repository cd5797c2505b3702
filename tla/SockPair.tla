------------------------------- MODULE SockPair -------------------------------
(***************************************************************************)
(* socket_pair/sockpair.c: a process and its child talk over socketpair().   *)
(* The child says hello and reads the echo, the father reads and sends back   *)
(* what it read, and both go on for ever; somebody may kill either of them.   *)
(* The calls socketpair() and fork() succeed.                                *)
(***************************************************************************)

VARIABLES
    talk,    \* what each process does next: "close" (the other's end), "write",
             \* "read", "over"
    ends,    \* the ends of the pair each process has open
    bytes,   \* whether bytes wait at each end
    lost,    \* ends whose peer was closed with bytes unread: ECONNRESET there
    heard   \* whether the father's last read returned bytes

pairVars == <<talk, ends, bytes, lost, heard>>

Both == {"child", "father"}     \* the processes, and sv[1] and sv[0]
Other(p) == IF p = "child" THEN "father" ELSE "child"

PairInit ==
    /\ talk = [p \in Both |-> "close"]
    /\ ends = [p \in Both |-> Both]
    /\ bytes = [p \in Both |-> FALSE]
    /\ lost = {}
    /\ heard = FALSE

-----------------------------------------------------------------------------

\* An end is open as long as one process has it
IsOpen(e, held) == \E p \in Both : e \in held[p]

\* The kernel, when the ends in held stay: an end that closes with bytes unread
\* leaves an error at its peer
Keep(held) ==
    /\ ends' = held
    /\ lost' = lost \union {e \in Both : ~IsOpen(Other(e), held) /\ IsOpen(Other(e), ends)
                                          /\ bytes[Other(e)]}

\* The end of p, by a signal or out of main
Ends(p) ==
    /\ talk' = [talk EXCEPT ![p] = "over"]
    /\ Keep([ends EXCEPT ![p] = {}])

\* fault variant: the other's end stays open
CloseOther_Not(p) ==
    /\ talk[p] = "close"
    /\ talk' = [talk EXCEPT ![p] = IF p = "child" THEN "write" ELSE "read"]
    /\ UNCHANGED <<ends, bytes, lost, heard>>

CloseOther(p) ==
    /\ talk[p] = "close"
    /\ talk' = [talk EXCEPT ![p] = IF p = "child" THEN "write" ELSE "read"]
    /\ Keep([ends EXCEPT ![p] = {p}])
    /\ UNCHANGED <<bytes, heard>>

\* write(): SIGPIPE without a peer, even for the nothing the father sends after a
\* read of nothing
Write(p) ==
    /\ talk[p] = "write"
    /\ IF IsOpen(Other(p), ends)
       THEN /\ talk' = [talk EXCEPT ![p] = "read"]
            /\ bytes' = [bytes EXCEPT ![Other(p)] = @ \/ p = "child" \/ heard]
            /\ UNCHANGED <<ends, lost>>
       ELSE Ends(p) /\ UNCHANGED bytes
    /\ UNCHANGED heard

\* read() waits for bytes or for the end of the peer
Read(p) ==
    /\ talk[p] = "read"
    /\ bytes[p] \/ ~IsOpen(Other(p), ends)
    /\ heard' = IF p = "father" THEN bytes[p] ELSE heard
    /\ bytes' = [bytes EXCEPT ![p] = FALSE]
    /\ IF bytes[p] \/ p \notin lost
       THEN /\ talk' = [talk EXCEPT ![p] = "write"]
            /\ UNCHANGED <<ends, lost>>
       ELSE \* -1, ECONNRESET: buf[-1] = '\0' writes in front of buf, which kills or not
            \/ Ends(p)
            \/ /\ talk' = [talk EXCEPT ![p] = "write"]
               /\ lost' = lost \ {p}
               /\ UNCHANGED ends

Killed(p) ==
    /\ talk[p] # "over"
    /\ Ends(p)
    /\ UNCHANGED <<bytes, heard>>

Talks(p) == CloseOther(p) \/ Write(p) \/ Read(p)
PairNext == \E p \in Both : Talks(p) \/ Killed(p)

-----------------------------------------------------------------------------
(* Properties *)

\* Types.
PairTypeOK ==
    /\ talk \in [Both -> {"close", "write", "read", "over"}]
    /\ ends \in [Both -> SUBSET Both]
    /\ bytes \in [Both -> BOOLEAN]
    /\ lost \subseteq Both
    /\ heard \in BOOLEAN

\* The end of one process is the end of both, whichever call it finds the other in:
\* no process waits for ever for a partner that is gone.
PartnerEnds == (\E p \in Both : talk[p] = "over") ~> (\A p \in Both : talk[p] = "over")
=============================================================================
