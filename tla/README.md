# TLA+ models of the server programs in book_youshuang

The repository holds the programs of a book on Linux high-performance servers.
Most files are short demonstrations of one system call. A few are real
concurrent programs: a web server with a thread pool, a process pool, a chat
server on shared memory, a `poll` chat server, and timer containers. This
project models those programs, checks the models with TLC and proves what
matters most with TLAPS.

It covers the web server (`15_6.cpp`, `http_conn.cpp/.h`) with its thread
pool (`threadpool.h`, `locker.h`) and the program its parser was made from
(`8_3.cpp`), the idle-connection server (`11_3.cpp`) with
its sorted timer list (`11_2.cpp`), the process pool (`processpool.h`) with its
CGI server (`15_2.cpp`), the chat server on shared memory (`13_4.cpp`), the chat
server on `poll` (`9_7.cpp`) with its client (`9_6.cpp`), and the timer wheel
(`11_5.cpp`).

## Inventory

| Part | Files | State | Operations | Hard behaviour | What makes it correct |
|---|---|---|---|---|---|
| Worker pool | `threadpool.h`, `locker.h` | `m_workqueue`, mutex, semaphore, `m_stop`, the threads' positions | constructor, `append`, `run`, destructor | list and semaphore change in separate steps; `sem_wait` can be interrupted; threads outlive the pool | bounded queue, FIFO, each task to one worker, no task without a wake-up, every task served while the pool exists |
| Web server: reactor and connections | `15_6.cpp`, `http_conn.cpp` | epoll registrations, descriptor table, `users[]`, `m_user_count` | accept, `init`, `read`, `append`, `process`, `write`, `close_conn` | one-shot events handed between main and workers; objects and descriptors reused; a pool that refuses | one thread per object, no connection forgotten, the count of users, replies to their own client, every request answered |
| Web server: parser | `http_conn.cpp:91-261` | read buffer, three indices, check state | `read`, `parse_line`, `process_read` and its three states | requests cut anywhere; CR and LF in different reads; full buffer; keep-alive | the verdict does not depend on the cuts; the loop ends |
| HTTP line parser | `8_3.cpp` | buffer, two indices, check state | `recv`, `parse_line`, `parse_content` | requests cut anywhere; full buffer | the verdict of the server's parser on the same lines |
| Web server: reply | `http_conn.cpp:266-423` | write buffer, `m_iv`, mapping | `do_request`, `process_write`, `write`, `unmap` | partial writes, EAGAIN, state inherited by the next reply or connection | what is mapped is unmapped, once and in full, own file only, the loop ends, all of the reply is sent |
| Process pool | `processpool.h`, `15_2.cpp` | `m_sub_process`, pipes, signal pipe, `m_stop` | dispatch, accept in the child, SIGCHLD, SIGTERM | edge-triggered pipes, children that die at any time, signals in batches | announcements stand for connections, requests are handled, children are reaped, termination |
| Chat on shared memory | `13_4.cpp` | `users[]`, `sub_process[]`, segments | accept and fork, message relay, reaping, termination | compaction of `users[]` while children keep their index; signals before handlers are set | the tables agree, ended children are reaped, no child outlives the server, a message goes to the others |
| Chat on `poll` | `9_7.cpp` (client `9_6.cpp`) | `fds[]`, `users[]`, `write_buf` | accept, leave, receive, send; the client's two `splice`s | `fds[]` is compacted in the middle of a batch; `write_buf` points into another user's buffer; errors and ends in any order | places and descriptors agree, what is pending is what was said last, ends are noticed, what is pending is sent |
| Sorted timer list | `11_2.cpp`, `lst_timer.h` (a copy with typing errors) | doubly linked list | add, adjust, del, tick | relinking by cases | the list is the sorted sequence of its timers |
| Idle-connection server | `11_3.cpp` | `users[]`, timer list, alarm | accept, receive, tick, close | expiry against late data, reuse of descriptors | idle connections are closed, no timer is used after it is deleted |
| Timer wheel | `11_5.cpp` | slots, `cur_slot` | add, del, tick | slot and rotation arithmetic | each timer in its slot's list only; it fires after exactly its ticks |
| EPOLLONESHOT demo | `9_4_reset_EPOLLONESHOT.cpp` | epoll registrations, threads | hand-over, `reset_oneshot` | arguments on the stack of the event loop | each thread gets its own socket |
| fork/thread demos | `13_3`, `13_5`, `14_1`, `14_3`, `14_4`, `14_5` | a lock or two | fixed scenarios | deliberate deadlocks | - |
| I/O demos | `5_*`, `6_*`, `9_3`, `9_5`, `9_8`, `10_1`, `10_3`, `11_1`, `16_4` | kernel's only | straight-line calls | - | - |

How the parts of the web server interact: `main()` waits in `epoll_wait` and
calls methods of `users[fd]`: `init` on accept, `read` and then
`pool->append(users + fd)` on input, `write` on EPOLLOUT, `close_conn` on a
hang-up or an error. A worker takes the pointer off the list and calls
`process()`, which parses, fills the write buffer, and re-arms the descriptor
(`modfd`) or closes it. The only things that keep the two apart are
EPOLLONESHOT and the order of these calls. There is no lock on an object, and
none on `m_user_count`.

## Modules

| Module | Models | Notes |
|---|---|---|
| `RequestQueue` | what `threadpool<T>` promises | abstract: `Submit`, `Take`, `Finish`; one step each |
| `ThreadPool` | `threadpool.h`, `locker.h` | one step per statement that touches shared state; implements `RequestQueue` |
| `ThreadPool_proof` | - | theorems about `ThreadPool` |
| `WebServer` | `15_6.cpp`, the life cycle in `http_conn.cpp` | uses `RequestQueue` as its pool (`Pool == INSTANCE RequestQueue`) |
| `WebServer_proof` | - | theorems about `WebServer` |
| `HttpParser` | `http_conn.cpp:91-261` and `read` | one connection, requests one after the other |
| `LineParser` | `8_3.cpp` | one connection; a step for each `recv` and for each turn of `parse_content`'s loop |
| `TwoParsers` | - | `HttpParser` beside `LineParser` (`Demo == INSTANCE LineParser`), both sent the same pieces |
| `HttpReply` | `http_conn.cpp:266-423` | one object, replies and connections one after the other |
| `HttpConn_proof` | - | theorems about `HttpReply`; about `HttpParser`, the other half of the same object; and about `TwoParsers` |
| `SortedTimers` | what `sort_timer_lst` promises | abstract: a sequence in order of expiry |
| `TimerList` | `11_2.cpp` | one step per call, one action per case of relinking; implements `SortedTimers` |
| `IdleServer` | `11_3.cpp` | uses `SortedTimers` as its list (`List == INSTANCE SortedTimers`) |
| `IdleServer_proof` | - | theorems about `IdleServer`, with lemmas about the operations of `SortedTimers` |
| `ProcessPool` | `processpool.h` with `cgi_conn` of `15_2.cpp` | parent, children, CGI programs, clients and signals |
| `ProcessPool_proof` | - | theorems about `ProcessPool` |
| `ChatShm` | `13_4.cpp` | parent, one child per client, signals and shared memory |
| `ChatShm_proof` | - | theorems about `ChatShm` |
| `ChatPoll` | `9_7.cpp`, `9_6.cpp` | the server, its clients and their users; one step per place of a batch |
| `ChatPoll_proof` | - | theorems about `ChatPoll` |
| `TimerWheel` | `11_5.cpp` | `add_timer`, `del_timer` one step each, `tick` one step per timer |
| `Timers_proof` | - | theorems about the two containers of timers, `TimerList` and `TimerWheel` |
| `MCThreadPool`, `MCWebServer`, `MCIdleServer`, `MCProcessPool`, `MCChatShm`, `MCChatPoll` | - | model values for TLC |
| `MCHttpConn` | - | message sets and page lengths; `TwoParsers` and `HttpReply` in one instance, of which a behaviour uses one |
| `MCTimers` | - | `TimerList` and `TimerWheel` in one instance, of which a behaviour uses one |

A variable has the name of the C++ member it stands for (`m_workqueue`,
`m_checked_idx`, `m_iv`), `pc` is the statement a thread is at, and an action
is named for the statement or the branch. Definitions marked *Seeded fault*
are altered versions of the definition that follows them. No specification
uses them: they record, for each property, a plausible mistake that the
property catches, for example a `post` only when the list was empty
(`AppendPostIfFirst`) or a `modfd` that is missing (`ModInForgotten`).

### Correspondence and granularity

*ThreadPool.* `append` is `AppendCall, AppendLock, AppendCheck, AppendRefuse |
(AppendPush, AppendUnlock, AppendPost)`, `run` is `WorkerWhile, WorkerWait |
WorkerInterrupted, WorkerLock, WorkerEmpty, WorkerSkip | (WorkerFront,
WorkerPop, WorkerUnlock, WorkerProcess)`. `front()` on an empty list is
undefined, so `WorkerFront` then yields any task. The semaphore is a natural
number, the mutex its holder. `sem_post` and `pthread_mutex_lock` are taken to
succeed. `ConstructorThrows` may happen at any `pthread_create` or
`pthread_detach`. `Destroy` is the body of the destructor, once no producer is
inside `append`; after it the semaphore, the mutex and the list are destroyed and
the object is freed (`DestroyMembers`), and a constructor that throws destroys them
as well. Nobody waits for the workers, which are detached. A worker that then uses
any member, `m_stop` included, does what C++ does not define (`UndefinedUse`): the
model ends there for it, claims nothing of what follows, and keeps the variables as
they were last. A worker inside `process()` may return from it.

*WebServer.* Between two steps of a thread any other thread can run. The steps
follow what others can see: `close_conn` is five steps (test of `m_sockfd`,
`removefd`, `m_sockfd = -1`, load and store of `m_user_count`), `init(fd, addr)`
five as well, `m_user_count++` is a load and a store because the `int` is not
atomic. One step each, although the code has more statements: EPOLL_CTL_DEL
with `close` (nothing can use the descriptor in between), `modfd` with the
`init()` next to it in `write` (only main touches the object there), and
`process_read` and `process_write` one each: between them the worker has read the
request and has the answer in its hands (`ret`), so that the object can change
under it once `OneThreadPerObject` is broken. What two threads do to one object
within a step of each is not followed. `worker_closed` is a history variable:
the descriptors on which a worker has run `removefd`. epoll reports
everything that is ready in one batch; EPOLLONESHOT disarms what it reports;
the listening socket is edge-triggered and accepts once per event, as in the
code. A request travels in two segments so that a read can find half of it, and
what it asks for (`Kinds`) is chosen at the point where `stat()` finds out: a
file, an empty file, or an error page. `process_read` can return NO_REQUEST for a
whole request as well (`ParseIncomplete`): one whose body is cut, or that holds a
line `parse_line` finds bad; `HttpParser` shows when. `write()` can take a reply for
sent when half of its header is out (`Delivered`); `HttpReply` shows how. `unserved`
is a history variable, the clients to whom one or the other has happened. The memory of `users[]` is taken to be
zero before its first use (`new http_conn[MAX_FD]` with an empty constructor;
untouched pages of a fresh mapping are zero). The pool's capacity is
`m_max_requests + 1`, which `ThreadPool` shows to be the real bound.

*HttpParser.* The read buffer is a sequence of tokens. CR, LF and the letter
`r` (which the code compares with instead of CR, line 113) are bytes; any other
token is a run of bytes that `parse_line` skips, in the classes that the line
parsers tell apart. `m_checked_idx` and `m_start_line` are 0-based as in the
code. `parse_line` is one step per return; `process_read` one step per
evaluation of its loop condition and one per case of its switch. Clients wait
for the answer before they send the next request; a pipelined request would be
erased by `init()`. `Lengths` gives for each request what `atol` makes of its
Content-Length, any int. `parse_content` compares in ints (`Overflows`) and writes a
NUL behind the body (`ContentWhole`), which may be a byte that has been received; a
sum beyond `INT_MAX`, and a write before the buffer, are undefined
(`ContentUndefined`), and nothing is claimed of what follows. Members of the object in
front of the buffer are not modelled, so a write among them is taken for undefined,
too. `before` is a history variable, where the last read began. A
request that fills the buffer exactly is read: on Linux a `recv` of length 0
from an empty queue gives EAGAIN. It gives 0 when more has arrived (`ReadFull`).

*LineParser.* The program of `8_3.cpp` takes one connection and does nothing else.
A step is one `recv`, or one turn of the loop of `parse_content`: `parse_line`, and
what is done with the line it finds (`RequestLine`, `Header`), with its failure (`Bad`,
`RequestLineBad`) or with its wish for more (`Open`). The NULs written over the ends of
lines that are done with are left out, since nothing reads them afterwards, and so is
the end of the connection, after which it only closes. In `TwoParsers` every read of
the server on the first request is also a `recv` of the program (`Follow`), until the
program closes. In between the program goes on by itself while it is `Busy`, and the
server waits; the two share nothing but what they are sent, so the order of their
other steps makes no difference to either.

*HttpReply.* The write buffer and the wire hold tokens. Each file reply makes a
new mapping, so a token on the wire says which reply's file it belongs to. A file is
as many pages as it has tokens. `mapped` is the set of pages that exist, and `unmap`
passes `munmap` the size that the last `stat()` left in `m_file_stat`, which can be
that of another file: it then releases fewer pages, or others that happen to lie
behind the mapping (`Behind`). `extent` (what each mapping was made with) and
`abandoned` (the file replies that a hang-up cut off) are history variables.
`add_response`'s test is translated with its margin. A `writev` may take any
number of tokens from the start of `m_iv`, which the code never advances.
`do_request`'s `mmap` may give MAP_FAILED when `open` failed. `process_write`
ends without a return statement after an error page; the model lets the caller
see either value.

*SortedTimers* says what the list promises by relations: a timer is inserted
where all timers in front of it, and none behind it, expire no later (`Place`), a
tick cuts the sequence where all timers in front, and none behind, have expired
(`Due`). In a sequence that is not sorted there may be no such place and no step,
so the refinement also says that `TimerList` keeps its list in order, without
saying how the place is found.

*TimerList.* A call is one step, because one thread uses the list. `Place` is
the node at which the loop of the second `add_timer` stops, `LinkAfter` its
assignments. The members of a timer exist between `new` and `delete`: reading
those of a deleted timer is an error of the model, not a value. `adjust_timer`
is called with a later expiry only, as its comment asks (line 79).

*TimerWheel.* The list of a slot is a sequence, its head in front: relinking is
what `TimerList` is about, and `Unlinked` is what the branches for a head and for
another timer come to. `tick` is a step when it takes the head (`WheelTick`), one for
each timer it looks at (`TickPass`, `TickGoOff`) and one to turn (`TickTurn`). The wheel has
one user and the callback does not call it, so `add_timer` and `del_timer` run
outside `tick` (`tmp = 0`). A negative timeout or a NULL timer does nothing and
is left out. `left` is a history variable: it starts as the ticks the timer is
added for and falls with each turn of the wheel, independently of slot and
rotation. `tick` serves the current slot before it turns, so a timer for k
ticks goes off when the wheel has turned k times since, that is, within the
(k+1)-th call; `OnTime` states this reading of the comment on line 61.

*IdleServer.* A step is the handling of one event of a batch, or what `main`
does between two batches. Time counts in TIMESLOTs and is relative to now, so
that it need not be bounded: when a TIMESLOT is over every expiry is one
nearer, and an expired timer stays at 0. `silent` is not in the code: it
measures, independently of the timers, how long nothing was received. All
sockets are edge-triggered: an edge is reported once, and a `recv` takes part or
all of what has arrived. `cb_func` uses the global `epollfd`, which is 0 because
`main` declares its own; `close` removes the descriptor from epoll anyway.
Accept does not fail (`Connect` keeps the descriptors sufficient); the code
would index `users[-1]`.

*ProcessPool.* As in `IdleServer`, a step of a process is one event of its batch
or what it does between two batches; parent and children interleave. `child`
and `parent` are where a process is: before its handlers are installed
(`start`), waiting, in a batch, ended. SIGINT does what SIGTERM does and is left
out. Before `setup_sig_pipe` SIGCHLD is ignored and SIGTERM kills, after it
both go to the process's own signal pipe. `sig_pipefd` and the pipes to the
children hold what was sent and not yet read; for the signals a set is enough,
because handling a signal twice in one batch changes nothing. Children that have
ended are zombies until `waitpid` (`m_pid` is still a pid), and a connection can
be announced to them. The pipe to a child never reports an end of file: the
parent closes its side only after the child has ended. A request arrives in
segments; the last one holds the CR LF. A request that fills the buffer without
it, one for a program that does not exist and a failing `fork` end alike: the
connection is removed and no CGI program runs. The `do ... while` of line 369
lacks its semicolon and the members of `process` are private, so the file does
not compile as it stands; the model reads it as it is meant.

*ChatShm.* Steps as in `ProcessPool`, without a state between the end of a batch
and `epoll_wait` for the parent. `users` is the used part of `users[]`, and a
child is named by its client instead of its pid and its descriptors; pids are not
reused, since a client connects once. `waitpid` gives one child per step, so that
others can end meanwhile; the signals of one read are handled in any order. A
child is `born` until it has its own handler: SIGTERM then runs the parent's
handler on the parent's pipe, or is lost if that is closed already (`Kill`
chooses); one that has tested `stop_child` and is not in `epoll_wait` yet keeps
sleeping. `memset` and `recv` on a segment are one step, a `recv` takes all that
has arrived, and a segment holds the name of the client whose words it holds.
`accept` takes any of the waiting clients. `13_4.cpp` never opens `shmfd` (it is
0 at line 217); the model takes the mapping to succeed. A number announced by a
child is its `idx`, so the pipe to the parent is a count.

*ChatPoll.* A step of the server is `poll()` or the handling of one place; a
place for which nothing was reported is passed over in the step before, as the
loop does nothing there and reads nothing that others can change. `fds` holds the
used places without the listening socket (place 0), so its length is
`user_counter`. `users[]` comes from `new` without an initialiser; an allocation
of that size is fresh pages, so `write_buf` is NULL and a buffer blank before its
first use. `write_buf` is the descriptor whose buffer it points into, and sending
takes what that buffer holds at that moment. A buffer holds a sequence of texts:
`recv` takes one or more of those that have arrived, after the `memset` of line 144
(`Cleared`), which stays when `recv` then fails. Users type without end; only what is
unread is bounded. `Quit` closes a client's
socket; unread messages make that a reset (`gone = "rst"`), after which what had
arrived may or may not be there for `recv`, and the error is pending (`err`)
until `getsockopt`, `recv` or `send` takes it. A send to a client that has gone
is answered with a reset. `send` is never partial: a text is 63 bytes at most and
POLLOUT was reported. `accept` does not fail: clients that have left the backlog
are accepted and found to have gone. The client's two `splice`s are one step; at
the end of standard input (`TypeEnd`) the second blocks for ever on the pipe that
the process itself holds open. `from` and `words` are history variables: who said
what is pending for a client, and what was received last from a client.

## Runs

Runs that must pass:

| Run | Instance | Shows |
|---|---|---|
| `ThreadPool` | 2 producers, 2 workers, 1 task and NULL, `m_max_requests` 1, 4 appends, 1 interrupted wait; 222,661 states | `NoRequestStranded`; refinement of `RequestQueue`; `EveryTaskServed` under `FairSpec` |
| `WebServer_files` | 2 clients with 2 requests each, 2 workers, 2 descriptors, a queue of 1, requests for non-empty files, one EAGAIN; 633,295 states | `OneThreadPerObject`, `NoConnectionForgotten`, `UserCountExact`, `EveryRequestAnswered` under `FairSpec` |
| `WebServer_closing` | 3 clients, 1 worker, 2 descriptors, `MAX_FD` 2, pool of 1, files and error pages; 5,495,390 states up to symmetry | `OneThreadElsewhere`, `ReplyToItsClient` |
| `HttpConn` | parser: every request of `get` and up to 5 of {other, r, CR, LF}, of a header that announces a body and up to 4 of them, fourteen longer ones, among them a negative, a huge and a zero length, buffers of 12 and of 8 (`8_3.cpp`), 2 requests per connection; reply: 3 replies, files of 1 and 2 pages, 2 EAGAINs, an error page that fits and one that does not; 502,603 states | `TypeOK` (with the order of the indices), `VerdictIsReference`, `SameVerdict`, `ProcessReadReturns`; `MappingsAccountedFor`, `OwnFileOnly`, `WriteEnds`; the two liveness properties under the fairness of `TwoSpec` and `FairSpec` |
| `Timers` | list: 4 timers, 3 expiries; wheel: 3 timers, 3 slots, timeouts of less than a tick to 3 rotations; 5,598 states up to symmetry | `TypeOK`, `WellLinked`, refinement of `SortedTimers`; `WellFiled`, `OnTime` |
| `IdleServer` | 2 descriptors and 2 timers, both used again and again, up to 2 pieces of unread data; 261,149 states | `TypeOK`, `TimerOfConnection`, `EventsAreOpen`, `OnlyIdleClosed`; `GoneIsClosed` under `FairSpec` |
| `ProcessPool` | 2 children, 2 clients, requests in one and in two segments, children that die of themselves, both if need be; 356,653 states | `TypeOK`, `ParentOutlivesChildren`, `AnnouncementsAreTrue`; `TerminationCompletes`, `EveryRequestHandled` under `FairSpec` |
| `ChatShm` | 3 clients, `USER_LIMIT` 2, one client speaks once; 556,071 states | `TypeOK`, `TablesAgree`; `EndedAreReaped`, `ChildrenFollow` under `FairSpec` |
| `ChatPoll` | 3 clients, `USER_LIMIT` 2, two of them speak time and again, one unread text and one unread message fill a socket; 570,311 states | `PlacesAgree`, `LastWords`; `GoneIsClosed`, `Delivered` under `FairSpec` |

`TypeOK`, `Bounded` and `PopSafe` of `ThreadPool`, `WheelTypeOK` of `TimerWheel`,
`ReplyTypes` of `HttpReply`, `TypeOK` of `WebServer` and `TypeOK` of `ChatPoll` are in
no run: they are theorems (see Proofs), for every value of the constants.

`WebServer_files` says what the hand-over by EPOLLONESHOT achieves as long as
only main closes connections. A worker closes one when `process_write` returns
false (an empty file, or an error page that happens to yield false): the
`WebServer_one_thread` run shows that the guarantee is then lost.
`WebServer_closing` shows how far the damage goes: on a descriptor that no worker
has closed (`Intact`) an object is still in the hands of one thread
(`OneThreadElsewhere`) and a reply goes to the client that asked
(`ReplyToItsClient`). On one that a worker has closed neither holds: the worker
can find its object with a new connection, arm it for output, and have main
write to the new client what the worker has answered to another, so the two
properties could not be stated without `Intact`.

`EveryRequestAnswered`, `TerminationCompletes`, `VerdictIsReference`,
`MappingsAccountedFor` and `Delivered` have exceptions, each stated in the property
and for behaviour that the code shows. The list below says what happens in them.

The runs that refute a statement of the repository (quoted in `PROJECT.json`):

| Run | Statement | What the code does |
|---|---|---|
| `ThreadPool_limit` | `threadpool.h:21`, `33`: `m_max_requests` is the greatest number of requests in the queue (`WithinLimit`) | `append` tests with `>` (`threadpool.h:89`), so the queue holds one more |
| `WebServer_one_thread` | `http_conn.cpp:27`: two threads on one socket are prevented (`OneThreadPerObject`) | a worker in `close_conn` frees the descriptor before it is done with the object |
| `HttpParser_body` | `http_conn.cpp:172`, `206`: `m_content_length` bytes of body have to be read, and `parse_content` judges whether they are (`BodyInAnyCut`) | the end of a body that comes in two reads is missed (`http_conn.cpp:208`, `253`) |

What the models show besides:

* The destructor and a constructor that throws leave detached workers behind, which
  go on to use a mutex, a semaphore and a list that are destroyed, and `m_stop`, which
  is freed with the object (`threadpool.h:62`, `68`, `77-82`; `15_6.cpp:137`). The
  destructor wakes none of those that sleep on the semaphore, either.
* `main` ignores that `append` refused: the connection stays disarmed and open
  (`15_6.cpp:123`). `refused` is a history variable of `WebServer`, and
  `NoConnectionForgotten` and `EveryRequestAnswered` say that no other
  connection is lost by it.
* With workers that close connections `m_user_count` loses updates
  (`http_conn.cpp:54`); `UserCountExact` is about the time before a worker closes
  one.
* On a descriptor that a worker has closed, and accept has given away again, a
  client can be sent the answer to another client's request (`ReplyToItsClient`
  without `Intact` is violated on the instance of `WebServer_closing`).
* The listening sockets of `15_6.cpp` and `processpool.h` are edge-triggered and
  one connection is accepted for an event, so of two connections that come
  together one waits until a third comes.
* `bytes_to_send` starts as the length of the header alone and falls while
  `bytes_have_send` rises, so `write` takes a reply for complete when half the
  header is out, and `m_iv` never advances (`http_conn.cpp:321-322`). A client that
  gets a part of an answer and is not closed waits for the rest (`unserved`).
* `unmap()` passes `munmap` the size that the last `stat()` has left
  (`http_conn.cpp:271`, `284`). While no client hangs up on a reply that is its own
  (`MappingsAccountedFor`). A reply that a hang-up cuts off leaves its mapping and its
  address behind (`close_conn` does not unmap). An error page that follows on the object
  can unmap it with another file's size, which releases part of the mapping or what
  lies behind it; a file reply, empty or not, overwrites the address, and the mapping is
  lost.
* Of a request body that comes in two reads the code misses the end: `process_read` calls `parse_line` once more, which moves `m_checked_idx`
  over the part that has arrived (`http_conn.cpp:208`, `224`, `253`), and the body
  is measured from there. The run `HttpParser_body` shows it. `VerdictIsReference`
  shows the other direction: no request is taken for complete before its body is
  there, and one whose body comes with the end of its headers is found complete.
* A `Content-Length` that is negative or near the greatest int leads to writes outside
  the line or the buffer, or to an overflow (`http_conn.cpp:191`, `208`, `209`).
* The server answers nothing to a line that is not valid: `process_read` returns
  NO_REQUEST for LINE_BAD (`http_conn.cpp:258-261`), and the connection waits for
  more; `http_conn.cpp:118` calls it a syntax error that is returned. `8_3.cpp` answers "Something wrong" and closes (`8_3.cpp:159`). The server
  also takes a CR that no LF follows for part of the line, and `r` LF for the end of
  one (`http_conn.cpp:113`). `SameVerdict` is therefore about the lines up to the
  first that is not valid for `8_3.cpp`, and that this one is answered.
* In a child of the pool SIGCHLD falls through to SIGTERM: the end of a CGI
  program ends the child and cuts off its other clients (`processpool.h:295`).
* When a client has left `13_4.cpp`, `users[]` is compacted but the child that
  serves the user who moved keeps its number (`13_4.cpp:316`). The next client
  gets the same number, two children read into one segment, and an announcement
  of the one makes the other send its own client's words back, against the
  comment on line 355.
* The same happens in `9_7.cpp` with pointers: a user who leaves gives its object
  that of the last user (line 133), buffer and all. Who still points to it is sent
  what the last user had said, and that may be its own words (line 161 says a
  sender need not be told). `LastWords` is therefore about users who are connected.
* POLLRDHUP is tested before POLLIN, in both chat programs: the last words of a
  client that leaves are not received (`9_7.cpp:130`), and "too many users" is
  not printed (`9_6.cpp:66`).
* `|= ~POLLIN` and `|= ~POLLOUT` only add events (`9_7.cpp:162`, `176`). POLLOUT
  stays registered after the first text, and `poll()` never waits again. POLLIN stays
  registered, too, and hides POLLOUT (`9_7.cpp:142`, `170`): a user who goes on typing
  is never sent anything, against the comment of line 162. `Delivered` is
  therefore about users who stop typing at some time; without that premise it is
  violated on the instance of `ChatPoll`.
* A text of a user who leaves before it is sent is lost or replaced: line 133
  overwrites the buffer that is to be sent. `Delivered` exempts it (`SpeakerLeft`).
* At the end of its standard input the client of `9_6.cpp` blocks for ever in its
  second `splice` (line 86).
* SIGTERM does not always end `13_4.cpp`: it is lost on a child that is just
  born or about to call `epoll_wait`, and clients that come later are accepted
  but their children never told (`13_4.cpp:111`, `114`, `336`).
* A child whose parent has not yet installed its handlers when it dies is reaped
  only when another one dies (`processpool.h:408`). When all have died by then,
  SIGTERM does not end the pool: the parent sends it to the dead and waits for ends
  that nobody reports (`processpool.h:335`, `440-447`), against the comments at lines 422
  and 436-437. `TerminationCompletes` exempts exactly these behaviours
  (`SomeChildIsHeardOf`).

Deadlock checking is off: clients and producers stop after their bounded number of
requests, the programs then wait for input for ever, and a timer list that is
destroyed has no further call.

### Why the bounds are enough

*ThreadPool*: four appends against a queue that admits two reach every branch of
`append` (including a refusal) with both workers asleep, both awake, or one
holding the lock, and the interrupted wait makes a worker arrive at an empty
list; the destructor and the failing constructor come at any time. The theorems below remove these bounds for the safety properties.
*WebServer*: interference needs an object, the thread that lets go of it and the
thread that takes it over; two clients and two workers on two descriptors
give every such pair, three clients on two descriptors force a descriptor to be
reused, and a pool of one is refused. Each run covers the paths of `main` it
needs; together they take every action. *HttpParser*: `parse_line` looks at two
bytes at a time and `process_read` keeps nothing of a line but its state, so
five tokens after the request line reach every pair of adjacent bytes, at every
cut; a body of two is the shortest that can be cut. `INT_MAX` (100) is far above the
other numbers and below the sum of the huge length and an index. *HttpReply*: state is inherited from one reply to the next, and three
replies give a reply that inherits from one that inherited; two file sizes give
a `munmap` with too many and with too few pages. The counters
`MaxAppends`, `MaxInterrupts`, `MaxRounds`, `MaxBlocks`, `MaxRequests`,
`MaxReplies`, `MaxAgain`, `MaxUnread`, `Pieces`, `MaxCrashes`
and `MaxTexts` bound the environment only; `MaxTexts` is how many different texts a
user has, each typed any number of times.
*TimerList*: a relinking touches a timer, its neighbours and head and tail, so
four timers give every case of it with and without others around; three expiries
give earlier, equal and later. *TimerWheel*: three timers give every position in
a list of a timer that is unlinked, and waits from one tick to three rotations on
three slots reach every pair of current slot and offset; time is unbounded.
*IdleServer*: a batch in which one connection's
event can outlive another's timer needs two descriptors, and time and the number
of connections are unbounded. *ProcessPool*: round robin, a dead child beside one
that lives and SIGCHLD for both at once need two children; announcements that
lag behind need two connections; a request that is cut needs two segments, while
the other client's needs only one. `MaxCrashes` is the number of children: all of
them may die, at any time. *ChatShm*: a place that moves needs two users, a
client that is refused or reuses a place a third; one message shows every
branch of the relay; `Terminate` is taken once, and the parent can still read
SIGTERM several times because children send it back. *ChatPoll*: a place that moves in a batch needs two users, a
descriptor that is used again or a refusal a third client. The texts of two users
cross each other, one said again replaces one that is pending, and who is at the
other end when it is sent may have changed. A socket that is full after one message
makes every order of POLLIN, POLLOUT and a late reset happen. Texts are told apart by
their speakers alone: which of two texts of one user is sent is `LastWords`, proved
for any number of texts, and the run shows it for a buffer that is emptied.

### Fairness

Weak fairness on every thread's own steps: the operating system schedules
runnable threads. No client, producer or signal is fair: none is obliged to
act. In `ThreadPool` a weakly fair worker can lose the mutex to others for some
time, but each of them takes it for a task, and tasks are finite in a
behaviour. In `WebServer` main is one fair thread. In `HttpReply`, `write()` is
one loop of main; that the peer drains its socket is not assumed, EAGAIN leaves
the loop. In `IdleServer` main and the clock are fair: a TIMESLOT is over some
time, clients may stay silent for ever. In `ProcessPool` and `ChatShm` each
process is fair; clients, CGI programs and the user are not. In `ChatPoll` the
server and the client programs are fair, their users are not: they may type for
ever, or never.

## Proofs

### ThreadPool

`ThreadPool_proof` proves, for any finite non-empty sets of producers and
workers, any set of requests and any bounds (`ThreadPoolAssumption`, which
states what `threadpool.h:44` tests, that the thread sets are disjoint, and that
the value `NoThread` names neither a thread nor a task):

* `Invariance`: `Spec => []IInv`,
* `TypeInvariance`: `Spec => []TypeOK`,
* `QueueSafety`: `Spec => [](Bounded /\ PopSafe /\ NoRequestStranded)`, with the bound
  that the code keeps (`Bounded`), not that of the comments (`WithinLimit`),
* `Refinement`: `Spec => ImplementsRequestQueue`.

`IInv` adds two conjuncts to the checked invariants. `Mutex` says that the
mutex is held by exactly the thread between `lock()` and `unlock()`; without
it nothing keeps another thread from changing the list between a test and the
statement that relies on it. `PushAllowed` carries the result of the size test
to `push_back`; without it `Bounded` is not inductive. `NoRequestStranded` is
a count: the list is no longer than the semaphore's value, the workers past
`sem_wait` and the producers about to post, together. `CountsOfStep` says how
one thread's step changes the last two, and `StrandedStep` balances each
action. The case that is not a plain balance is `WorkerEmpty` on an empty list,
where a worker leaves without a task: the list is then of length 0.
`StepImplements` maps `AppendPush` to `Submit`, `WorkerPop` to `Take`,
`WorkerProcess` (and `WorkerUnlock` of a NULL task) to `Finish`, everything
else to a stutter.

### HttpReply

The first part of `HttpConn_proof` proves, for any error pages, any lengths of pages and
files, any write buffer of at least two bytes and any number of replies, partial writes
and connections (`HttpReplyAssumption`):

* `Invariance`: `ReplySpec => []IInv`,
* `TypeInvariance`: `ReplySpec => []ReplyTypes`, with the byte `add_response` keeps to spare,
* `UnmapSafety`: `ReplySpec => []MappingsAccountedFor`,
* `OwnFileSafety`: `ReplySpec => []OwnFileOnly`.

`IInv` adds `IvIsOwn`: while a file is sent, `m_iv` describes the whole write
buffer and this reply's own mapping, or MAP_FAILED. `m_iv` is never reset, and
between replies, during error pages and on the next connection it describes what
the last file reply left; `OwnFileOnly` is inductive only because every file
reply sets it before the first `writev` and nothing in between touches it.
`AddResponseFits` bounds one call of `add_response`; the write buffer's bound
follows for the four header lines and the page (`HeadersFit`, `PageFitsBuffer`).
`DescribedIsOwn` says what the tokens of `m_iv` are, and `WritevPreserves` that any
part of them keeps the wire clean. Of `MappingsAccountedFor`, `UnmapAccountedFor` shows that an `unmap` leaves no page but those of
abandoned replies, whichever pages behind a mapping a wrong size takes along. That
the size is right while a file is sent rests on `stat()` and `mmap()` being called
together, and on no other reply on the object in between.

### HttpParser

The second part of `HttpConn_proof` proves, for any set of requests, cut anywhere, any
length of a body (0, negative and huge ones as well), any size of the read buffer and any
number of requests (`HttpParserAssumption`):

* `ParserTypes`: `Spec => []TypeOK`, with the order of the three indices,
* `VerdictInvariance`: `Spec => []VerdictIsReference`.

The reference (`Verdict`) is a function of the bytes received. It knows nothing of
reads, of the code's state or of its buffer, and its lines end in CR and LF. Two kinds of
requests are exempt, by conditions on the same bytes: those with an LF without CR in the
head (`Clean`), and, where the code waits although the reference does not, those of whose
body an earlier call of `read` has seen a part (`BodyCut`, the only use of `before`).

The proof goes by way of the lines that `parse_line` finds, in the message as a whole:
`Ends` has, besides CR LF, an LF after a letter `r`, and nothing behind an LF that
`parse_line` refuses. `CleanEnds` shows that in the head of a clean request these are the
lines of the reference, `CleanVerdict` that the verdict on them is the same. What is
left is that the code, which reads its tokens from a buffer it overwrites, finds these
lines in any cut. `PInv` says so. From `m_start_line` on the buffer is what has been
received, but for the two NULs just written (`LineKept`); `m_start_line` is
behind a line of the message (`LineStart`); what lies between it and
`m_checked_idx` ends no line, and the byte before `m_checked_idx` is not a CR whose LF
comes next (`Scanned`: the reason why `parse_line` leaves `m_checked_idx` on a
CR at the end of the buffer); when process_read waits, every line that has been read
is behind `m_start_line`, and while it runs, every line that had been read before this
call (`Consumed`); the state and `m_content_length` say what the lines up to there
say (`HeadRead`). `BodyRead` is about the body, whose bytes `parse_line` treats as
lines: `m_checked_idx` is never before the end of the headers, so a body is never found
complete too early, and unless the body is cut or missing it is judged at exactly
that place, in the call of `process_read` that has read the headers. `EndsOfPart` says
that the lines of what has been read are the message's lines up to there.
`StopInMessage` says what the byte at which `parse_line` stops is in the message, and
each of its four returns is then one lemma.

### TwoParsers

The third part proves, for the same requests cut in the same way and any size of the
program's buffer (`TwoParsersAssumption`):

* `SameVerdictInvariance`: `TwoSpec => []SameVerdict`.

`DemoInv` says of the program what `PInv` says of the server, in fewer words because
the program never writes over what it has yet to read: up to `start_line` its buffer is
whole lines, each CR with its LF; from there to `checked_index` `parse_line` has found
neither; and the lines up to `start_line` are the request line and headers that are not
empty, or none (`GoneOver`, `NotYet`). The reference looks at the whole buffer, and the
proof is about why nothing behind `checked_index` can change its answer: `ExpectedOpen`
says that the verdict stays open while the lines that are complete and valid are a
request line and headers, `ExpectedClosed` that it is settled, for good, by a first line
that is no request line or by an empty one. Both need `ValidIs` and `ValidEnds`: the
part before the first byte that is not valid ends lines only where the whole does.
`DemoStopIsAt` shows on the way that one branch of `parse_line`, the LF that a CR
precedes (`8_3.cpp:60`), is never taken: a CR at the end of what was read is left for the
next call, which finds it first.

### ChatPoll

`ChatPoll_proof` proves, for any set of clients, any number of places and texts
and any size of a socket's buffers (`ChatPollAssumption`: the numbers of places and of
messages a socket holds are above 0, and `NULL` is neither a client nor a descriptor):

* `Invariance`: `Spec => []IInv`,
* `TypeInvariance`: `Spec => []TypeOK`, with the bound of `fds[]`,
* `PlacesInvariance`: `Spec => []PlacesAgree`,
* `WordsInvariance`: `Spec => []LastWords`.

`LastWords` needs most of `IInv`. `OneDescriptor` keeps a client from being at two
places, so that what one place does cannot change what is known of the other's
client. `BacklogApart` says that who waits to be accepted is not connected, and
`PendingKnown` that what is pending was said by somebody who is not waiting: a
client let in at a descriptor that was just closed is therefore nobody's
speaker, and `Accept`, which empties its record, makes no pending text wrong.
`RoomToSend` carries POLLOUT from `poll()` to the `send` of line 172, several
places later, and with it the type of `wire`; `SomeoneWaits` does the same for
the connection that `accept` takes. `CloseEffect` is what lines 133 to 138, and 151 to 154 after
a `memset` (`CloseAny`), do to `fds[]`; `PlacesAgree` follows from it because the last place is the only one that
moves.

### WebServer

`WebServer_proof` proves, for any number of clients, workers, descriptors and places
in the queue (`WebServerAssumption`) and for any requests:

* `TypeInvariance`: `Spec => []TypeOK`,
* `InvIsInductive`: `Spec => []IInv`,
* `OneThreadKept`: `Spec => []OneThreadElsewhere`,
* `NoneForgotten`: `Spec => []NoConnectionForgotten`,
* `CountExact`: `Spec => []UserCountExact`,
* `RepliesAreTheirs`: `Spec => []ReplyToItsClient`;

and, for requests that name files with contents (`FilesOnly`, that is,
`Kinds \subseteq {"file"}`),

* `OneThread`: `FilesOnly /\ Spec => []OneThreadPerObject`,
* `NeverSpins`: `FilesOnly /\ Spec => [](pc[Main] # "spinning")`.

`FilesOnly` is the condition of the run `WebServer_files`, and `OneThread` is false
without it: then a worker calls `close_conn`, and `WebServer_one_thread` shows the
object in two hands. It is an assumption about what clients ask for, not about the
server. The theorems before it need no such assumption because they are about
`Intact`, the descriptors that no worker has closed; with `FilesOnly` these are all
(`OnlyMainCloses`).

A worker that goes on after `removefd` may find anything in its object, so the
invariant can say nothing of that descriptor, and the proof has to show that what
happens there stays there. `IInv` is therefore stated for one descriptor at a time:
`Sound(fd)` for every `fd` in `Intact`, and `Common` for what all share. `OwnNumber`
is the reason that it works: an object holds its own number or none, so a thread that
works on one object writes to no other entry of `users[]`, the epoll table and the
descriptor table. `MainFrame` and `WorkerFrame` show that such a step is `Unseen` from
every other descriptor, and `Frame` that what is unseen keeps `Sound`; what is left is
each step on its own descriptor (`InitSound`, `ReadSound`, `AppendSound`, `WriteSound`,
`CloseSound`, `ProcessSound`, `FinishSound`) and the few that are about none or
all of them (`EpollWaitSound`, `AcceptSound`, `TakeSound`).

`Held` is the heart of `Sound`. A descriptor that has been reported, is in the
queue or is served by a worker is disarmed in epoll and is one of the three, once;
main counts as a fourth owner between taking an event and its
end. Nothing weaker is inductive, because each hand-over (report, `append`, pop,
`modfd`) is safe only if the next owner has no other copy: the queue holds bare
pointers, and the kernel's one-shot flag is what all of them rely on. `Registered`
ties the epoll table to the sockets through the five steps of `init` and
`close_conn`, so that a descriptor used again starts with a clean entry. `Kept` is
`NoConnectionForgotten` with `refused` as its only way out. `OneConnection`, `Unread`
and `Buffered` follow a client's bytes from the client through the socket into the
object: what is in the object is its present client's and together with the socket is
all that was sent, which needs that `init` finds nothing half-read. `Replied` says that
the answer in a worker's hands is for the present client, and that whoever waits for
room to write has a reply. `Counted` says, until a worker closes something, by how much
`m_user_count` is behind or ahead in the middle of `init` and `close_conn`, and that
the value main has loaded is still current.

`ReplyToItsClient` relates the reply that is sent to the bytes that its client has sent
for it (`inbox`, counted while they are in the socket), so that a reply to a
client that has not asked yet is refuted as well.

### IdleServer

`IdleServer_proof` proves, for any finite sets of descriptors and timers
(`IdleServerAssumption`):

* `Invariance`: `Spec => []IInv`,
* `TypeInvariance`: `Spec => []TypeOK`,
* `TimersMatch`: `Spec => []TimerOfConnection`,
* `NoStaleEvent`: `Spec => []EventsAreOpen`,
* `ClosesIdleOnly`: `Spec => OnlyIdleClosed`.

`IInv` adds to `TimerOfConnection` that the list holds each timer once (otherwise
`del_timer` would leave a copy), that what epoll has reported is still there
(`EventsAreTrue`: this is what makes `RecvEnd` the end of a connection that its client has
ended, and `accept` find one), and `SilenceIsTimed`: the time left to a connection's timer and
the time it has been silent together are three TIMESLOTs. The last one relates the
clock of the list to the history variable `silent`, and with it `tick` closes exactly
those that `OnlyIdleClosed` allows. `InsertKeeps`, `RemoveKeeps` and `CutKeeps` are
about sequences; `AddIs`, `AdjustIs`, `DeleteIs` and `TickIs` say what each operation
of `SortedTimers` does to the set of timers and their expiries, and the rest of the
proof uses only these four.

### TimerList

The first part of `Timers_proof` proves, for any finite set of timers and any times
(`TimerListAssumption`):

* `LinksTypes`: `Spec => []TypeOK`,
* `LinksAreAList`: `Spec => []WellLinked`,
* `ListIsSorted`: `Spec => ImplementsSortedTimers`.

With the third, `IdleServer`, which is modelled over the sequence of
`SortedTimers`, rests on what the code's links do. The invariant `LInv` does not compute
the list but names it: there is a sequence of timers that the links stand for
(`IsList`): each timer once, `next` and `prev` of each are its neighbours in the
sequence, `head` is its first and, if it has one, `tail` its last, and it is in order of
expiry. That `Walk` follows such links to that sequence is `WalkIs`, shown at
the smallest number of steps where it would not; the walk backwards is the same
lemma for the reverse sequence (`WalkBack`). Every relinking is then one of two changes:
`UnlinkIs` takes a timer out of the sequence, `LinkIs` puts one in; the actions
of the code differ in which of the links need no change (`AddStep`, `AdjustStep`,
`DeleteStep`). `adjust_timer` unlinks a timer in the middle without resetting its own
members, and the second `add_timer` starts behind the old place: `BypassIs` and
`PlaceIs` show that it nevertheless finds the place in the whole list, because the
expiry has been put off. `TickStep` takes all that have expired from the front
(`FiredIs`). Sortedness is part of the invariant and not only of the refinement:
without it, the first node that expires later is not the place to insert at.

### TimerWheel

The second part of `Timers_proof` proves, for any set of timers, any number of slots
and any slot interval above 0 and any timeouts (`TimerWheelAssumption`; in the code `N`
is 60 and `SI` is 1):

* `WheelInvariance`: `WheelSpec => []WheelInv`,
* `WheelTypes`: `WheelSpec => []WheelTypeOK`,
* `FilingInvariance`: `WheelSpec => []WellFiled`,
* `Punctuality`: `WheelSpec => OnTime`.

`WheelInv` adds `Remaining` to `WheelTypeOK` and the parts of `WellFiled`: the turns left
to a timer are N times its rotation, plus the distance from the current slot to
its own, plus N more if `tick` has passed it in this call (its rotation has been
lowered and the wheel has not turned yet). Without it nothing connects `left`,
which only counts turns, with what `tick` looks at. `AddKeeps` rests on the
division `add_timer` does (`DivMod`, and `CircleDistance` for the slot modulo N),
`PassKeeps` moves N from the product to the last term, `TurnKeeps` takes the
current slot, all of whose timers have been passed, to the far end of the circle.
`OnTime` follows because the right-hand side is 0 exactly for a timer of the
current slot with rotation 0 that has not been passed, which is what `TickGoOff`
deletes and `TickTurn` cannot leave behind (`Found`).

### ProcessPool

`ProcessPool_proof` proves, for any number of children, clients and crashes
(`ProcessPoolAssumption`):

* `ParentInvariance`: `Spec => []ParentOutlivesChildren`,
* `AnnouncementInvariance`: `Spec => []AnnouncementsAreTrue`,
* `TypeInvariance`: `Spec => []TypeOK`.

`IInv` records why `m_stop` can be trusted although it is set in two places and kept
over the rest of a batch: it is only set when every `m_pid` is -1
(`StopsWithoutChildren`), a child's `m_pid` is -1 only before its fork or after it has
ended (`ReapedAreDead`), and after the constructor every child has been forked
(`AllForked`). The children's steps need one lemma (`ChildrenGoOn`): a child that has
ended stays so.

`TInv` adds what the other two need. An announcement starts as an edge on the
listening socket, becomes an event of the parent's batch, then a message in a child's
pipe; `Announced` counts all three against the connections that wait, so that
the parent never passes one connection on twice. `PipeEvents` keeps a child from
handling an event whose message is gone, `Requests` bounds what is in a socket and in
a buffer by what the client sends, and `NothingEarly` says that the parent announces
nothing before its children exist.

### ChatShm

`ChatShm_proof` proves, for any clients and any number of places
(`ChatShmAssumption`):

* `TablesInvariance`: `Spec => []TablesAgree`,
* `TypeInvariance`: `Spec => []TypeOK`.

`AcceptedFirst` says that who has not been accepted has no child and who has no child
has no place, so that `Accept` adds a client that is in neither table. `ReapPreserves`
is the compaction of lines 309 to 317: because the recorded places agree, no client has
two, the last user is the only one that moves, and its recorded place is the one that
becomes free.

For the types `TInv` bounds the places by `USER_LIMIT` (`PlacesFit`), counts a client's
words from the socket to the announcement (`WordsCounted`), and says that an event of a
child's pipe has its announcement still in the pipe, or its user has been
reaped (`EventsAnnounce`): `recv` from the pipe never finds it empty.

### What is not proved

Only model-checked: liveness (`EveryTaskServed`, `EveryRequestAnswered`,
`ProcessReadReturns`, `WriteEnds`, `GoneIsClosed`, `TerminationCompletes`, `EveryRequestHandled`, `EndedAreReaped`,
`ChildrenFollow`, and `GoneIsClosed` and `Delivered` of `ChatPoll`),
which is beyond the prover. Every other property of a passing run, that is each
invariant, each action property and each refinement, is stated by a theorem. What the violation runs refute (`WithinLimit`, `BodyInAnyCut`,
and `OneThreadPerObject` without `FilesOnly`) is false.

The induction theorems of the library take an operator as a parameter and cannot be
used. Where a proof has to follow a recursive function (`Walk` of `TimerList`) or needs the
first of several positions (`FirstStop`, `HeadersEnd`), it takes the smallest number
at which the claim would fail, which the well-foundedness of < on Nat provides.

## Plan

The hand-over of `9_4_reset_EPOLLONESHOT.cpp` (a descriptor passed to a thread
by the address of a variable of the event loop).

## Not modelled

`lst_timer.h` does not compile and repeats `11_2.cpp`. The demonstrations of the
`5_*`, `6_*` and most `9_*` files are straight-line input and output. `14_*` and
`13_3`/`13_5` are fixed scenarios of a few steps. `cond` of `locker.h` is used by
nothing. `threadpool.h:49` allocates one `pthread_t` instead of
`m_thread_number` of them (parentheses for brackets); what that overwrites is the
allocator's matter. Time, addresses, the text of headers and pages,
`Content-Length` values in replies and logging are left out of the models. What the
programs do after undefined behaviour is left out, too: the models say where it begins.
