# Linux_study: the models and what they show

The repository is a collection of C programs that explore Linux system
programming: several versions of an HTTP server, chat and echo servers built
on poll, select, epoll, threads and processes, a producer/consumer program, a
semaphore library, and some scripts.  Each program is small; what is hard in it
is how it shares things: descriptors between threads, pipes between processes,
buffers between clients, a list between two threads.  The modules here describe
the programs at that level.  TLC checks them on small instances, and TLAPS
proves the most important invariants for every value of the constants.

## 1. Inventory

### myhttp/http, the HTTP server

* **State.** One descriptor table for the whole process; per connection a
  detached thread with its local variables (`sock`, `input[]`, `output[]`,
  `outfd`, `len`, the loop counter `i`); per CGI request a forked process with a
  *copy* of the whole table, and two pipes.
* **Operations.** `main` accepts and starts `run_pthread`; `Dealwithsock` reads
  the request line and decides; `echo_www` answers from a file; `echo_cgi` makes
  the pipes, forks, hands over the body, relays the output and waits;
  `echo_error` / `send_error` answer a refusal; `clear_header` and `get_line`
  read the header.  Four of the error paths call `exit()`, which ends all threads.
* **Hard.** Descriptor numbers are reused at once by other threads; programs
  inherit the pipes and sockets of requests that have nothing to do with them;
  thread and program can block one another on full pipes; clients hang up at any
  moment; calls fail when the table is full.
* **Correct when** a number in a local variable always stands for the thread's
  own object; nothing is leaked; an answer ends when, and only when, its
  program's output has been forwarded completely; a client gets one status line;
  every connection comes to its end.  Where the code falls short of this (files of
  static answers, a file that cannot be sent), the properties name the exception.

http6.0 is a copy of this server, to the byte, and http4.0 differs in three
calls of httpd.c and in `daemon()`.  Of the earlier stages, http3.0 has a
`clear_header` and a `get_line` of its own, which are modelled; http1.0 and 2.0
are unfinished.

### http_ctl.sh, its control script

* **State.** `http.pid` and the process table: a server may be running, or
  killed and not over yet, or over with a CGI program that still has the
  listening socket.
* **Operations.** start, stop and restart; `$BIN`, which returns at once (the
  server failed, or is a daemon) or when the server is over; `pidof` into the
  file; `kill -9`.
* **Hard.** Servers end by themselves between any two lines; `kill` does not wait
  for the end; the script is interrupted or killed at any line, with the server it
  starts, or without it.
* **Correct when** between two commands every running server is in the file, so
  that `stop` reaches it, unless the command that started it was interrupted, and
  there is never a second one.

### CGI programs

* **State.** A position in the query, the text built so far, the database's
  answers.
* **Hard.** Queries with several `=` or `&` in a row, none, or one at the end;
  characters that mean something to the database.
* **Correct when** each part of the query becomes one quoted value, in order.

### poll_server, the chat server

* **State.** `pfd[]`, compacted when a client leaves; `user[]`, indexed by
  descriptor, with one buffer per record and a pointer `datatowrite` into the
  buffer of *another* record.
* **Operations.** One round per `poll`: accept or turn away, report an error,
  remove a client that hung up or quit, read a text and tell all others to write
  it, write and erase it.
* **Hard.** Entries move while the round runs; records outlive their client and
  are taken over by the next one with the same number; one buffer has several
  readers; a client that closes may reset the connection while the round runs.
* **Correct when** `pfd[]` is complete and free of duplicates, no entry is
  passed over, what is said is read and reaches the others and only them.

### select_server

* **State.** `gfds[]`, `max_fd`, the set `rfds` of the last `select`.
* **Operations.** One round per `select` over all slots: accept into a free slot,
  read, close.
* **Hard.** `rfds` is older than the descriptors the round has opened since, and
  the sockets block: a read of one without data stops the server.  A reset is an
  error that the round prints and passes over.
* **Correct when** it never blocks outside `select` and hears everyone who has a
  slot.

### epoll

* **State.** The kernel's ready list; what each descriptor is registered for; the
  events of the current round.
* **Operations.** One accept per event of the listener, one read per event of a
  client, then a switch to EPOLLOUT that is never undone; a write per event from
  then on.
* **Hard.** An edge is reported once, whatever is left to do; the switch makes
  quits and resets arrive as EPOLLOUT; events of a round point to records that
  another event may have freed.
* **Correct when** it blocks nowhere but in `epoll_wait`, uses no freed record,
  and answers whom it has accepted.

### Cond, the producer/consumer list

* **State.** A linked list, a mutex, a condition variable.
* **Hard.** The signal is sent *after* the unlock; wakeups may be spurious.
* **Correct when** nothing is popped from an empty list, no wakeup is lost, and
  every value is consumed at most once.

### easy_socket, thread_tcp, proc_socket: one client at a time per process

* **State.** Per process the descriptor table and `ret`, the socket it serves;
  between processes who waits for whom.
* **Operations.** `accept`; then reading in the loop (easy_socket), in a thread
  that is joined at once (thread_tcp), or in the grandchild of two forks.
* **Hard.** proc_socket does not look at what `accept` and the second `fork`
  return, its forefathers never close a client's socket, and a grandchild whose
  client quits goes back to `accept` as one more server.
* **Correct when** a client has one reader, and no child that is over stays
  unwaited for.

### sem

* **State.** A System V set of one semaphore, with its undo values.
* **Hard.** `test_sem` exits before V; holders are killed; the set outlives all.
* **Correct when** one process at most is inside, and a dead one gives back what
  it took.

### mysleep

* **State.** Signal mask, handler, alarm.
* **Hard.** The alarm may go off before `sigsuspend`.
* **Correct when** every call returns.

### socket_pair

* **State.** Who has which end open, what waits at each end, and whether a reset
  is to be reported there.
* **Hard.** Either process may be killed between any two calls of the other.
* **Correct when** neither waits for ever for a partner that is gone.

### crawler (baike_crawler2.0)

* **State.** The sets `new_url` and `old_url`, the collected rows, a counter.
* **Hard.** Links in circles; pages that are missing or lack a summary raise
  exceptions in the middle.
* **Correct when** no page is fetched twice, and a finished file has a row for
  each page.

### Left out

The vendored MySQL headers, which are most of the repository's lines, and
Tinyhttp (third-party, kept for reading); terminal clients; the UDP, child and
daemon examples (no state beyond one message); the shell exercises; chat_system,
an unfinished ring buffer that does not compile and that nothing uses.  Section 5
says what is left out of the programs that are modelled.

## 2. The modules

| module | code | state and actions |
|---|---|---|
| `FdTable` | the descriptor table | lowest free number, `Open`, `Close`, as `accept`, `open`, `pipe` and `close` use them |
| `Httpd` | `myhttp/http/main.c`, `httpd.c` | `pc[w]` is the place of the thread of connection `w`, `loc[w]` its local variables, `held[w]` what its program has open; one action per system call that matters |
| `MCHttpd` | | the requests the clients of each run may make |
| `FdTableProofs` | | the lowest free number is free; sets of numbers have a least and a greatest element |
| `HttpdProofs` | | theorems about `Httpd` |
| `HttpService` | what `Httpd` promises its clients | no descriptors, threads, pipes or processes: a connection is taken, answered, closed |
| `HttpServiceProofs` | | `Httpd` implements `HttpService`; what a client is sent |
| `GetLine`, `MCGetLine` | `get_line`, `clear_header`, the header loop of `echo_cgi`; `clear_header` of http3.0 | one action per `recv`; `buf` is the line being read, `got` what was returned, cut into pieces at `ends` |
| `GetLineProofs` | | theorems about `GetLine` |
| `PollServer` | `poll_server/server.c` | `pfd`, `user`, and `j`, the loop variable of the round; one action per branch |
| `PollServerProofs` | | theorems about `PollServer` |
| `SelectServer` | `select_server/select.c` | `gfds`, `max_fd`, `rfds`, and `k`, the loop variable of the round |
| `SelectServerProofs` | | theorems about `SelectServer` |
| `EpollServer` | `epoll/server.c` | `ready` is the kernel's ready list, `evs` the events still to be handled; `EdgeAt` says what is an edge for which registration |
| `EpollServerProofs` | | theorems about `EpollServer` |
| `ProducerConsumer` | `Cond/producer_consumer.c` | one action per call on the mutex, the condition and the list |
| `TcpServers` | `easy_socket/server.c`, `thread_tcp/server.c`, `proc_socket/server.c` | `at[p]` is the place of process `p`, `parent[p]` who waits for it, `open[p]` its table; `design` chooses the program |
| `Semaphore` | `sem/comm.c`, `sem/test_sem.c` | `step[p]` is the place of start `p`; the kernel's set, value and undo |
| `MySleep` | `mysleep/mysleep.c` | one action per call; `GoesOff` is the alarm |
| `Crawler` | `crawler/baike_crawler2.0` | one action per turn of each loop |
| `HttpCtl` | `myhttp/http/http_ctl.sh` | `ctl` is the line the script is at; one action per line that matters, and the servers' ends |
| `SockPair` | `socket_pair/sockpair.c` | `talk[p]` is the next call of a process; `Keep` is what the kernel does when an end closes |
| `SqlCgi` | `myhttp/http/sql_cgi`, `wwwroot/cgi/cgifun.cpp` | one action per turn of `get_data`'s two loops; the database may refuse any call |
| `SmallPrograms` | | the eight small programs above in one specification, one program per behaviour |
| `SmallProgramsProofs` | | theorems about `ProducerConsumer`, `TcpServers`, `Semaphore`, `Crawler`, `HttpCtl` and `SqlCgi` in it, and the types of all |

**How the modules fit together.**  `Httpd`, `PollServer`, `SelectServer` and
`EpollServer` extend `FdTable`: in all of them the question is whose socket a
number stands for. `Httpd` takes "the header has arrived" as one condition;
`GetLine` is what this rests on: the header loops end at the first empty line,
leave the body in the socket, and end when the client does.  `Httpd` instantiates
`HttpService` with a refinement mapping (`Stages`, `Programs`, `Gone`).  `HttpCtl`
sees the server from outside: it comes up, may keep its script waiting, and ends at
any moment. `SmallPrograms` extends `ProducerConsumer` and instantiates the seven
other small programs: its first state chooses one, and the variables of the others
never change, so that each is checked exactly as it would be alone.

**What the models abstract.**  A request is what the code tells apart in it:
its method (with `get` for any other spelling of GET), whether the URL has a
question mark, what `stat` and `open` say of the path, the Content-Length, and
whether the program reads its input and how much it prints.  Bodies and program
outputs are counted, not compared.  A line is made of three bytes: CR, LF and any
other.  In `PollServer` a text is the sequence of messages one `read` finds, and
the empty text is the erased buffer.  In `SelectServer` messages are counted.

**Details that are easy to miss and are in the models.**

* `Accept` in `Httpd`: `pthread_create` reports failure by a positive number,
  the test is `< 0`, and the socket of such a connection stays open, unserved.
* `GetRequest`: the search for `?` runs past the end of the URL, into what the
  stack held before.  A new thread gets a new stack, or that of a thread that is
  over (`TakeStack`); `stale` says whose stack has a `?` from an earlier request,
  `KeepUrl` what a request leaves, and only with such a stack has `CgiChoices` a
  choice: the new URL is long enough to cover the old `?`, or not.
* `SendFile`: `sendfile` fails for a client that is gone, and also for one that is
  there (`"sendfile"` in `SystemFaults`): `st_size` goes through an `int` and is
  negative for files of 2 to 4 GiB, and a disk may fail.  `echo_error` then sends a
  500 behind the 200, and `exit(5)` follows.  `exit(5)` follows a failed `open` as
  well, where the client is sent nothing.
* `ChildExec`: `exit(0)` after a failed `execl` flushes the child's copy of the
  server's output buffer, by then into the pipe: `Buffered` bytes of log text.
* `Poll`: `events |= ~POLLIN` and `|= ~POLLOUT` clear no bit; input stays asked
  for, and so does output from the first text on.
* `Leave`: the record of the last entry is copied over the leaver's record,
  buffer included, although records are indexed by descriptor.  `Read` erases the
  buffer before it reads (`Erased`), also that of a client that quits, which shows
  when the leaver is the last entry.
* `RstBehind`, `Write` in `PollServer`: when a client has closed and a text is
  still on its way to it, a reset comes behind its FIN.  If that is after `poll`, the
  round does not know, and its write raises SIGPIPE, which ends the server; so does
  the write of `Accept` to a client it turns away.
* `Read` in `SelectServer`: a reset makes `read` fail once, which is printed; the
  slot is kept, and the read of the next round returns 0.
* `AcceptFor`, `SwitchToOut`: `epoll_ctl` puts a descriptor that is ready at
  that moment on the list at once; without that, a client that sent before it was
  accepted would never be heard.
* `Leave`, `Write` in `EpollServer`: a reset behind a FIN is reported as EPIPE,
  any other as ECONNRESET; a write that finds EPIPE raises SIGPIPE.
* `Recv`/`Peek`: a CR waits for the byte behind it with MSG_PEEK and takes that
  byte only when it is LF.  A line as long as the buffer has room comes out
  without its LF, which then looks like the empty line that ends the header
  (`AtBoundary`), and an empty line ended by a CR alone waits for one more byte.
* `First`: http3.0 does not initialise `c`; if its stack holds a LF, a call
  returns nothing.  `ends` has no entry for such a call, since a client that hangs
  up makes that loop return them without end.
* `ForkAgain`: `fork() > 0` is the test, so a child whose fork fails reads itself;
  its parent then waits for it and accepts nobody.
* `AcceptTurn`: the first `accept` reads a length nobody has set; if it is
  negative, the client is lost and the program ends.
* `ReadProcess`: only 0 ends the loop; after a failed `accept` it spins on
  `read(-1)`.  (Its `buf[size-1]` with a negative size writes in front of `buf`,
  which is taken to be harmless.)
* `P` in `Semaphore`: main does not look at the result, so a start whose set was
  removed in between goes on without one.  Nobody ever waits: only its maker has the
  number of a set.  `Set` takes back all undo values, as SETVAL does.
* `Bin`, `Wait` in `HttpCtl`: http runs its server in the foreground
  (`daemon(1,0)` is commented out), so start does not return while the server
  lives, and only then is `http.pid` written.  `Pidof` writes an empty file when
  the server could not start, and that file refuses the next start; it is two
  steps, since the shell empties the file before `pidof` fills it.  After `Kill`
  the old server may still have the port, so the start of a restart can fail.
* `Interrupt` ends the script at any line: with a server in the foreground (^C), or
  without it (a kill of the script).  A server that was only being started then
  comes up later or not at all (`late`, `ComesUp`).  `cut` remembers the servers
  whose start command did not get to its end: they are the ones `http.pid` may miss.
* `Write` in `SockPair`: the father writes even after a read of nothing, and is
  killed by SIGPIPE, which is how it ends.  `Read`: after a reset, `buf[-1]` is
  written to, which kills the process or not.
* `Insert` in `SqlCgi`: a query that ends in `&` can leave a comma at the end, and
  the database refuses such a list.  That holds only as long as every value stays
  within its quotes; values are pasted in as they came, so a quote or a backslash
  (a `mark`) can end a value early or late, and what the database makes of the
  statement, a comma at its end included, is open (`Marked`).
* `NoQuery`, `Select`: METHOD is GET and QUERY_STRING is not set, and `*query` is
  read through NULL; select goes on without a connection and reads through a NULL
  result.

## 3. The runs

| run | instance | shows |
|---|---|---|
| `small_programs` | list: 4 values; servers: 3 clients, 5 processes, tables for 2; 3 starts of `test_sem`, one `ipcrm`; 3 pages, 2 fetches; 3 servers under the script, interrupts at every line; queries of up to 5 characters | `PopFindsAValue`, `NoLostWakeup`, `EachValueOnce`, `SleeperIsWoken` (list); `OneReaderEach`, `ChildrenAreAwaited`, `WaitersAreRead` (servers); `Exclusive` (sem); `SleepEnds`; `EachPageOnce`; `RunningIsKnown` (script); `PartnerEnds` (pair); `EachPartOnce` (SQL); `Types` |
| `ctl_interrupted` | the same | *violated*: `AbsentMeansStopped` |
| `httpd_cgi` | a POST, whose program reads or not, beside a GET with a query or of a folder; a table with room | `EofMeansComplete`, `OnlyFullPipesHang` under all interleavings of two threads and two programs |
| `httpd_faults` | 2 connections, all requests, table of 6, hang-ups, failing `fork`, `pthread_create` and `sendfile` | `FdIntegrity`, `NoFdLeak`, `OneStatusLine`, `ExitAnswersOffender`; `RefinesService` |
| `httpd_lower` | lower-case `get` | *violated*: `LengthIsForPost` |
| `httpd_query` | GETs with and without a query, one thread after the other | *violated*: `QueryComesFromUrl` |
| `getline_header` | every stream of up to 6 bytes, buffer of 4, three loops | `NothingLost`, `PiecesFit`, `HeaderEndsAtEmptyLine`, `EndOfClientEndsLoop`, `EmptyLineIsEnough` |
| `poll_rounds` | 3 clients, room for 2, closes, resets, and resets behind a FIN | `EntriesAreClients`, `RoundIsComplete`, `EverySenderIsRead`, `LeaversAreClosed`; types |
| `poll_others` | 3 clients | *violated*: `OnlyToOthers` |
| `poll_told` | 3 clients that stay | *violated*: `OthersAreTold` |
| `select_rounds` | 3 clients, 2 slots, closes and resets | `SlotsAreClients`, `NeverBlocks`, `EverySenderIsRead`, `QuitsAreClosed` |
| `epoll_edges` | 3 clients, descriptors for 2 | `ItemsAreClients`, `NeverBlocks`, `SilentClientsAreHarmless`, `QuestionsAreAnswered`, `SilentQuitsAreClosed` |

**Why these bounds are enough.**

* Two connections are what `FdIntegrity` needs: a stale number of one thread is
  given to the other.  A table from 3 to 13 has room for both with all their
  descriptors; the one from 3 to 8 fits the listener and one CGI request, so that
  every call that needs a descriptor fails in some behaviour: the accept before
  the second connection, either pipe, the page of a refusal, the file.
* `PipeCap = 1` makes every pipe full after one byte; bodies and outputs of two
  bytes then block both ways.  `Buffered = 1` is one byte of log text.
* Six bytes over three kinds, with a buffer of four: a line longer than the
  buffer, one of just its length, CR LF cut between two arrivals, CR at the end
  of the buffer, and two lines with an empty one between.
* Three clients and room for two is the smallest chat server in which an entry
  moves (there is a last one that is not the leaver) and a client is turned away.
  Clients are numbered in the order in which they connect, which loses no
  behaviour: nothing but their number tells them apart.  The same three clients
  with descriptors for two let `accept` fail in the epoll server; one of them may
  shut down its sending half only.  In `poll_rounds` the first and the last client
  may send a reset behind their FIN (`Resetters`): one that is served and written to,
  and one that is turned away.
* Four values let the list hold two while the consumer has one in its hand.
* Five processes with tables for two clients (`MaxProcs`, `MaxOpen`): with three
  clients either fork fails, forefathers fill their tables with sockets they never
  close, and grandchildren accept beside the first process.
* Three starts and one removal (`Removals`): one whose set goes away under it, one
  that makes the next set and is inside, and one that finds it there.  Three pages
  with any links between them and `MaxCount = 2` instead of 5 end the loop both
  ways.
* Three servers under the script (`MaxServers`): one that is over, one that is
  killed and not over yet, and the one of the restart; or one of a script that was
  killed, one that failed to come up beside it, and the next.  Five characters
  (`MaxQuery`) hold two parts with a name, or three empty ones, a `=` inside a
  value, and a marked character in any of them.

**Where deadlock is not checked.**  All configurations set `CHECK_DEADLOCK
FALSE`: clients, messages and values are bounded, and when the last one is dealt
with the program waits for the next.  That it waits for nothing else is what the
liveness properties say.

**Fairness.**  `Httpd`: every thread, every program and `main` go on when they can
(the kernel schedules them), and a client that stays sends its whole request. A
client that sends nothing keeps its thread for ever: no read has a timeout.
`GetLine`, `PollServer`, `SelectServer`, `EpollServer`: the reader goes on when it
can; clients owe nothing.  `ProducerConsumer`: both threads go on when they can;
the mutex is not assumed fair.  `MySleep`: the process goes on, and an alarm that
is set goes off.  thread_tcp goes on when it can, and its clients owe nothing: a
client that waits is read only if those in front of it quit (`WaitersAreRead`).
Each process of the pair goes on when it can, separately: otherwise a father that
talks for ever would excuse a child that never runs.  The other small programs have
safety properties only, and `RefinesService` is about safety.

**What the violated properties show.**

* `LengthIsForPost`: `echo_cgi` compares the method with `strcmp`, its caller
  with `strcasecmp`.  A `get` takes the branch commented as POST, finds no
  Content-Length, and the server calls `exit(-1)`.
* `QueryComesFromUrl`: a GET with a query is served, and its thread ends; the
  thread of the next connection gets its stack, and the `?` that is left in `url[]`
  turns a GET for a plain file into a CGI request.
* `AbsentMeansStopped`: the script waits for its server in the foreground and is
  killed; `http.pid` was not written yet.  `stop` then prints that httpd does not
  exist, and leaves it running.
* `OthersAreTold`: the first listener that is written to erases the one buffer
  all of them point to.  The copy in poll_server2 lacks that `memset`.
* `OnlyToOthers`: when a client leaves, another client's record, with its
  buffer, replaces the one that listeners still point to; a client can receive
  what it said itself.

More observations, not stated as violated properties, since the repository
promises nothing else.  The chat server does not handle SIGPIPE, and a client that
closes while a text is on its way to it can end the server; `EverySenderIsRead` and
`LeaversAreClosed` hold until then (`status` in `PollServer`).  A client beyond
USER_SIZE is reported as not connected but its socket stays open, outside `pfd[]`
(`EntriesAreClients` says so explicitly).  `outfd` is never closed (`NoFdLeak`
names it as the only leak), so a server of static files runs out of descriptors.
In the epoll server, of two connections that arrive between two rounds one waits
until a third arrives, and a client that was answered and closes is written to
twice more, the second time with SIGPIPE, which ends the server
(`SilentClientsAreHarmless` says that only such clients can).  In proc_socket a
client never sees the end of its connection while the first process lives, and
after as many clients as fit the table the first process accepts no more: its
children spin.  After one run of `test_sem` all later ones fail in `creatSem`
until the set is removed by hand.

**What `RefinesService` says.**  `HttpService` takes connections in their order,
sends one status line and what belongs to it, runs a program for a connection
and forwards what it writes, closes a connection only when its answer is
complete, and stops only for a request it refused, a file it could not send
(`Spoil`, the one answer with two status lines), a client that hung up, or a
program that is over before it was sent its input.  That `Httpd` implements it
means that nothing a thread, a program, an inherited descriptor or a full table
does shows otherwise at any client.  The mapping hides the descriptors, the pipes
and the steps between: a file's status line and its contents are two steps, a
byte forwarded from a program is one.  `Late` is `Buffered`: the log text a
program's `exit(0)` flushes.

## 4. The proofs

`HttpdProofs` (constants as in `HttpdAssumption` and `FdAssumption`: any set of
connections, any requests, any table, pipes of any size, any of the faults):

* `TypeCorrect`: `Spec => []TypeOK`, one lemma per group of actions.
* `DescriptorsAreOwn` and `NoOtherLeak`: neither property is inductive alone.
  That a thread closes only its own number needs that no other thread has that
  number; that follows from both together: the table and the local variables say
  the same (`FdInv`).  `BacklogInv` is needed for `Accept`: the connection at
  the head of the queue has no thread yet, and is in the queue once.
* `EofIsComplete`: `EofInv` says that a living program holds the writing end of
  its own output pipe, and that forwarded bytes, bytes in the pipe and the byte
  in the thread's hand add up to what the program wrote.  So the end of the pipe
  is not seen before the program's end, and then nothing is left in it.  The
  proof does not mention the programs of other requests: they can delay the end
  of the pipe (liveness), never bring it forward.

`HttpServiceProofs` (the same constants):

* `OneStatusLineEach`: `ReplyInv` says what a client has been sent at every place
  of its thread; a second status line would have to come from a place at which
  the first is already there.  There is one such place, behind a `sendfile` that
  failed, and it leads to `exit(5)` only.
* `OffenderIsTold`: the thread whose `exit` ended the server stays at that place
  (`Stopped`), and `ReplyInv` says what its client has been sent there: a status
  line, two if `outfd` is set (the file could be opened and not sent), and nothing
  if the thread is at `exit(5)` without it.
* `ServerImplementsService`: the step simulation, from `TypeOK`, `FdInv`, `EofInv`
  and `ReplyInv`.  Most steps of `Httpd` stutter (`RefineSilent`); the 500 behind a
  200 is `Spoil`.  The steps that
  need an invariant are the last ones: that a connection closed after its
  program's output is one whose `fwd` equals `made` is `EofInv`.

`SmallProgramsProofs` (`ProgramsAssumption` and `MaxItemsAssumption`: any values,
clients, processes and table sizes, any starts and removals, any pages, any number
of servers; the bounds are natural numbers, and of the length of a query nothing is
assumed).  All theorems are about `ProgramsSpec`.  A step of one program leaves the
variables of the others alone (`EachStep`), so each theorem rests on an invariant
of its own program:

* `PopSafe` and `WakeupPending` from one inductive invariant, `ListInv`; `LockInv`
  relates the mutex to the places of the two threads.  The consumer can sleep
  beside a list that is not empty only between the push and the signal.
* `ValuesAreKept` follows each value on top of that: the sizes of the four places
  where a value can be add up (`Sizes`) because the places have nothing in common
  and the list has no double (`Apart`), and because the mutex keeps one value at
  most in somebody's hands.
* `SemaphoreExcludes`: a set has one maker, and the undo values say who is inside.
* `ServersAreKnown`: the place of the script says what is known of a server that
  runs: `http.pid` or `$pid` has its number, or the script is just starting it, or
  it is in `cut` (`CtlInv`).  That a second one never runs rests on the port: `Bin`
  and `ComesUp` need it free.
* `PagesOnce`: `new_url` and `old_url` have nothing in common (`CrawlOnce`), and
  every page that waits is linked from a row (`CrawlLinked`).
* `ReadersAreAlone` and `WaitedFor`: `TcpTree` says that a process that waits has
  one child, that only those have children, and that who is no process has
  nothing open; `TcpQueue`, that a client that waits is in no table; `TcpServed`,
  that no two processes serve the same client.  `Fork` is the step that
  needs all three: the child has a copy of everything and its parent stops
  serving at that moment.
* `EachPartWritten`: the property speaks of the end of the query, the invariant
  `SqlParse` of every place in it: `str` is what belongs to the places behind
  `query` (`Wrote`), and the inner loop runs exactly inside a value (`InValue`).
  `WritesOn` is the step from one place to the next.  That a comma ends `str` only
  if the query ends outside a value (`SqlParsed`) is what keeps such a query out
  of the table; this half is for queries without marked characters, as the property
  is.  `Wrote` says what stands where instead of building the result
  with a recursive function, so that no induction over the query is needed: the
  loop is the induction.
* `TypeCorrect`: with the types go the bounds that are not types.  That the
  semaphore stays binary is `SemInv`; that a table holds no more sockets than its
  limit needs that a process accepts only below it and that a child's copy is as
  large as its parent's table.

`GetLineProofs` (`GetLineAssumption`: any streams, any buffer of at least three
bytes):

* `TypeCorrect` and `PiecesAlwaysFit`: `BufInv` says that only the last byte of the
  buffer can be a line end and that the loop is over then; a CR is stored as LF only
  after the byte behind it was looked at, with room left for it.
* `BytesAreKept`: `Kept(n)` counts the bytes a stream should come out as, and
  `NothingLost` says that there are so many and that each is where that count puts
  it.  It is inductive with `CrInv`: while the byte behind a CR is looked at, the CR
  is the last one taken, and once the line goes on, what follows a CR is no LF.
  Without it the LF that `Take` drops, and the one `Recv` keeps, could not be told
  apart.  `KeptCounts` is the step from `n` to `n + 1`.
* `HeaderEnds`: `HeadInv` says where a call starts: behind a line end, or behind
  pieces of its line that filled the buffer (`Aligned`, with the number of pieces).
  So a call that returns LF alone has met an empty line, or a line that ends at the
  boundary of the buffer.  The other half is that no line before was empty.

`PollServerProofs` (`PollAssumption`, `FdAssumption`: any number of clients and
messages, any USER_SIZE, any table, any clients that reset behind their FIN):
`TypeCorrect`, `EntriesComplete` and `RoundComplete` from `IInv`.

* `TypeOK` is not inductive alone: that `accept` finds a client, and that only a
  client's entry is ever removed, rests on `RoundInv` (the listener reports
  input only, and only while somebody waits).
* `EntriesAreClients` needs `QueueInv`: the client at the head of the queue has no
  descriptor and was not turned away before, so the new entry has no double.
* `LeaveKeepsInv` is the heart: with entry `n` moved to place `j`, the entries are
  the old ones without the leaver's, still without a double, and nothing in front
  of `j` has changed.  That is why the round may go on at `j`, and why at its end
  no hang-up is left (`RoundComplete`).

`SelectServerProofs` (`SelectAssumption`, `FdAssumption`): `TypeCorrect`,
`SlotsAgree` and `ServerNeverBlocks`.  The argument for the last is `RoundInv`:
numbers are given out at slot 0 only, that is, before the round has closed any;
at that moment all numbers in `rfds` are open, so the new one is not among them,
and what `rfds` says of the slots still to be visited stays true.

`EpollServerProofs` (`EpollAssumption`, `FdAssumption`: any number of clients and
messages, any table, any set of clients that shut down one half): `TypeCorrect`,
`ItemsAgree`, `ServerNeverBlocks` and `SilentHarmless` from `Inv`.

* `NeverBlocks` is about the event at hand.  It is inductive only as a statement
  about every event of the round (`Events`): what an event told of is there until
  that event is handled.  A client can add to it but takes nothing back, and an
  event in front of it is for another descriptor, since no list names one twice
  (`Lists`), and for another client, since no client has two (`Items`).
* The listener's event stays true because it is the only event that takes from
  `backlog`, and it is handled once.
* `ItemsAgree` needs `Lists` for the same reason: with the event that closes a
  descriptor, every event of that descriptor is gone.  A closed number can be given
  out again in the same round; no event of its former owner is left then.
* `SilentHarmless` rests on `Asked`: a descriptor is registered for output only
  after its client was heard.

The proofs are the reason for two forms in the model: `Wait` picks the places of
the ready list whose descriptors still have something (`Live`), and `Without` leaves
out one place, where a filter over the list would be a recursive definition.

**Every invariant a passing run checks is also proved.**  What stays with TLC:

* All liveness properties (`SleeperIsWoken`, `WaitersAreRead`, `SleepEnds`,
  `PartnerEnds`, `OnlyFullPipesHang`, `EndOfClientEndsLoop`, `EmptyLineIsEnough`,
  `EverySenderIsRead`, `LeaversAreClosed`, `QuitsAreClosed`, `QuestionsAreAnswered`,
  `SilentQuitsAreClosed`): they rest on fairness and ENABLED, which the proof system
  does not treat.  `MySleep` and `SockPair` have no other properties but their types.
* The violated properties of section 3, which are statements about one behaviour.

## 5. Not modelled, and why

* `Httpd`: of what `url[]` may hold from before, only the `?` of an earlier request
  on the same stack (bytes of other functions' frames are not in the model); partial
  or blocking `send`s (a client that does not read keeps its
  thread, as one that does not send does); failures before the first `accept`;
  a failing `pthread_detach`; files that change between `stat` and `open`; what a
  request line cut off by `get_line` parses to; the value of the byte that is
  repeated when the client stops inside its body (the number of bytes is in the
  model).  `send_error` opens and closes its page in one action.
* `PollServer`: partial writes and full socket buffers.
* `SelectServer`: the text of messages, and with it the `buf[s] = '\0'` after a
  read that fills the buffer.
* `EpollServer`: failing `epoll_wait` and `epoll_ctl`; more than 32 events in one
  round; the array `evs` that is not freed after a timeout; the 10240 bytes of an
  answer, which fit the socket buffer and are written at once.
* `HttpCtl`: two operators at once, and a `pidof` that finds servers of another
  directory; a `restart` in which the killed server's number is given to another
  process; what `http.conf` holds.
* `SockPair`: failing `socketpair` and `fork`; `SqlCgi`: what the database makes of
  a statement whose values have quotes or backslashes (whether it takes it, how many
  rows come of it and what they hold: such an insertion is one row `unknown` here);
  the rows that select prints.
* `GetLine`: of http3.0 only `clear_header`; its header loop in `echo_cgi` can end
  early when `get_line` returns nothing.
* `TcpServers`: resets (`read` fails once and then returns 0); the texts;
  `pthread_create` failing, with one thread at a time.
* `Semaphore`: V, `gerSem` and `destorySem`, which nothing reaches; a `semop` that
  fails for want of memory (ENOMEM, ENOSPC for the undo), after which the process
  goes on without the semaphore, since the result is not looked at.
* `Crawler`: what a page says; baike_crawler1.0, which cannot run (undefined
  names), and scrapy_news1.0, which fills in a framework.
* poll_server2 without the erasing `memset`; http1.0 to http3.0 but for the loop
  above; chat_system; the UDP, child and daemon examples; shell exercises; clients.
* The vendored headers under `myhttp/*/include/mysql` hold most of the lines that
  count as implementation here; nothing in them is this repository's program.

## 6. Plan

Done: all modules of section 2, the refinement, and the proofs of section 4.
What could come next, in this order:

1. The chat server of poll_server2 beside the modelled one, on an instance with
   three served clients, to show that without the `memset` every listener is told.
2. http3.0 as a whole, as a variant of `Httpd` without error pages and with the
   loop of `GetLine` that never ends.
3. Action properties that follow from the invariants above, with their proofs: in
   `EpollServer`, that a record is freed only by the event of its own descriptor; in
   `SqlCgi`, that `str` only grows.
4. Safety halves of liveness properties, for example that a client which was heard
   and waits is registered for output (`QuestionsAreAnswered`), as invariants.
