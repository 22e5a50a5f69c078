# Verification of the dealer server and its HTTP library

The repository is the control program of a card dealing machine: a Raspberry Pi
serves a few web pages on which players choose a game and a number of players,
stores the choice in `settings.txt`, and tells a PSoC over a UART what to deal.
The web part is the `express_router` sample of the HTTP library RESTinio, whose
source is in the repository too, so that most of the behaviour that is hard to
get right lives in the library. This directory models both.

## 1. Inventory

| Part | Source | State | Operations | Hard behaviour |
|---|---|---|---|---|
| Dealer server | `src/web/restinio/sample/express_router/main.cpp`, `src/RPIdata.hpp`, `src/PSoCcom.hpp` | the selection in memory, `settings.txt`, the UART | one handler per route, save, start of a game | browsers in turn, failed and interrupted saves, restart |
| Serial line | `src/Serial.hpp` | the port | `writeSome` | partial writes, errors |
| Acceptor | `src/web/restinio/restinio/impl/acceptor.hpp` | open or not, one accept chain per socket slot | `open`, `close`, `accept_next`, completion of accepts | threads, denied or failed accepts, re-opening |
| Connection count limiter | `.../connection_count_limiter.hpp` | two counters, a stack of waiting slots | `accept_next`, `increment_...`, `decrement_parallel_connections` | wake-ups, counters without checks |
| Response coordinator | `.../impl/response_coordinator.hpp` | ring of response contexts with write groups | `register_new_request`, `append_response`, `pop_ready_buffers`, `reset` | answers in any order, ring arithmetic, cells used again |
| HTTP connection | `.../impl/connection.hpp`, `.../impl/write_group_output_ctx.hpp`, `.../buffers.hpp` | parser, buffer, upgrade stage, current write group, timeout callback | reading, handling, writing, closing, time-outs | re-entrant calls on one strand, pipelining, upgrade, queued completions |
| Timer guard | `.../asio_timer_manager.hpp` | the armed timer | `schedule`, `cancel` | a check that is queued when it is cancelled |
| HTTP input | `.../impl/parser_callbacks.ipp`, `.../chunked_input_info.hpp` | the message being assembled, counters for the limits | one callback per event of http-parser, `reset` | any cut of the input, pipelined messages, limits |
| Message builders | `.../message_builders.hpp`, `.../impl/header_helpers.hpp` | header, parts or chunks not yet sent | `append_body`, `append_chunk`, `flush`, `done` | flushes in any number, framing |
| Sendfile | `.../impl/sendfile_operation_posix.ipp` | offset, octets left, octets sent | `start`, the handlers of a wait, a read and a write | partial results, errors, a file that shrinks |
| Websocket connection | `.../websocket/impl/ws_connection.hpp`, `.../websocket/websocket.hpp` | stage of reading, output queue, one-shot actions of the close handshake, timers | reading frames, `write_data`, `shutdown`, `kill`, time-outs | both sides closing, errors during the handshake, a handle that is dropped |
| Websocket frames | `.../websocket/impl/ws_parser.hpp`, `ws_protocol_validator.hpp` | parser position, fragment in progress, UTF-8 checker | `parser_execute`, `process_new_frame`, `process_payload`, `finish_frame` | any cut of the input, fragments, control frames between them |
| Server and pool | `.../http_server.hpp`, `.../http_server_run.hpp`, `.../impl/ioctx_on_thread_pool.hpp` | status of server and pool, the threads | `open`, `close`, `start`, `stop`, `wait`, `run`, `initiate_shutdown` | start racing stop, failures to open, to close, to create a thread |
| Routers | `.../router/`, `.../path2regex/` | none between requests | compile a pattern, match a path | optional, repeated and prefixed parameters, trailing slashes |
| Helpers and utilities | `.../helpers/`, `.../utils/`, `.../uri_helpers.hpp` | none between calls | parse, encode, decode, split | backtracking, boundary cases of encodings and numbers |
| TLS, zlib, SHA-1, settings | `.../tls.hpp`, `.../transforms/zlib.hpp`, ... | not modelled | | |

`PROJECT.json` lists every component with its status, and the hazards at the
lines where they bite.

How the parts interact: the acceptor asks the limiter for leave to accept, hands
a socket to a new connection, and the connection's lifetime monitor gives the
place back when the connection is destroyed. The connection feeds bytes to the
parser, registers complete requests with the coordinator, calls the request
handler (the router with the dealer's handlers), takes groups of buffers from
the coordinator and writes them, all under one timer. An upgrade moves the socket
to a websocket connection, which reads frames through the parser and the
validator. The server runs all of this on the threads of its pool, opens and
closes the acceptor, and returns when the pool has stopped.

## 2. Modules

| Module | Models |
|---|---|
| `ConnectionCountLimiter` | `actual_limiter_t`: each method is atomic, as it holds the limiter's lock |
| `Acceptor` | the limiter composed with the acceptor, its accept chains, connection creation and the lifetime monitors |
| `DealerBot` | routes, handlers, saved settings and UART frames |
| `ResponseCoordinator` | the coordinator's state and operations, without a specification of its own |
| `ResponseFifo` | abstract specification: a queue of responses, each with the parts not yet written |
| `PipelinedResponses` | the coordinator with its callers, shown to implement `ResponseFifo` |
| `Connection` | `connection_t` with the coordinator, write context, timer and user handlers |
| `WsConnection` | `ws_connection_t` with its write context, timers and the user's handle |
| `WsFrames` | the frame parser and writer, the protocol validator, unmasking |
| `Utf8` | `utf8_checker_t`, and UTF-8 by definition |
| `HttpInput` | the callbacks of the HTTP parser, limits, chunks and trailing fields |
| `MessageBuilders` | the three response builders, `http_headers`, the text of a response |
| `Sendfile` | the two runners of a sendfile operation and the kernel |
| `Server` | server, pool, `run()`, signal, shutdown and runner |
| `EasyParser` | the combinators of `easy_parser.hpp` as operators on an input with a position |
| `HttpFields` | every parser of `http_field_parsers/`, built from `EasyParser` |
| `FieldGrammar` | reference: the grammars that the field parsers quote, as sets of derivations |
| `Codecs` | base64, percent-encoding, query strings, `from_string` |
| `Router` | patterns, the texts they match, both routers, method matchers |
| `Multipart` | splitting of bodies, parts, file upload, the sync chain |
| `Units` | the modules above that do not interact, side by side, with their properties |
| `MCAcceptor`, `MCDealerBot`, `MCConnection`, `MCWebsocket`, `MCUnits` | values of the constants for TLC |
| `AcceptorProofs`, `DealerBotProofs`, `PipelinedResponsesProofs`, `SendfileProofs`, `ServerProofs` | theorems |
| `SequenceLemmas` | lemmas about sequences for `PipelinedResponsesProofs` |

Definitions keep the names of the code. Definitions that stand directly before
another one with the same parameters and change it slightly (a faulty variant, a
plausible slip) are part of no specification: they are used to make sure that a
property can fail.

**Acceptor.** An accept chain is a pair of a socket slot and the opening it
belongs to; its state says where it is between `accept_next`, the limiter's
stack, `async_accept` and the handler of the accepted socket. A connection
exists from the creation of its monitor to the monitor's destructor. The
constant `Separate` is the setting `separate_accept_and_create_connect`.

**DealerBot.** The server runs on one thread, but a save is several system calls
and the process can die between them, so a POST is an open (which truncates) and
a close (which completes the text), and each can fail unnoticed. `acked` holds
what browsers were told is saved; `clean` says that nothing failed and that the
process was not restarted. A text is a member of a small set and the frame is
the pair of game code and players text.

**ResponseCoordinator, PipelinedResponses.** A ring cell has a request id, the
final and close flags and a sequence of write groups; a group is the sequence of
the parts merged into it. Request ids are kept modulo `IdModulus`.

**Connection.** All handlers run on one strand, but they call each other deeply.
`stack` holds the calls still to be made; an action makes one call, and an
exception unwinds to the next `catch` frame. Completed asio operations wait,
with their outcome, until their handler runs, so that a close or a time-out can
come between. A message is two halves, so that a read can end in the middle of
it. A part consists of buffers and files, so that one group takes several write
operations.

**WsConnection.** The message handler calls back into the connection from the
middle of a read, so each method is an operator from the connection's state to
its state after the call, and an action is one handler of the strand. Calls made
on other threads wait in `posted`. A frame is named by what the validator makes
of it and by whether its payload came with its header. `m_close_frame_to_user`,
`m_close_frame_to_peer` and `m_close_impl` are the code's one-shot actions.

**WsFrames, Utf8.** The parser and the validator are operators on their state
and one byte, folded over the input with a cut at any place. The property
`FramesExact` compares them with the header that was written and with a
definition of legal streams that looks at the frames as a whole.

**HttpInput.** http-parser is the environment: it delivers the items of a
message in order, and may cut every text into pieces. A callback that exceeds
a limit ends the connection.

**MessageBuilders.** A handler makes up to `MaxCalls` calls in any order that the
interface allows. `ResponseFramed` reads the octets of the groups the way a
client would, by length or chunk by chunk.

**Sendfile.** The octets of a file are their positions, so that the wire shows
which were sent. A call of the kernel does any part of the work or fails, and
another process may cut the file off at any time.

**Server.** The caller and the pool's threads interleave at each read and write of
the unsynchronised `m_status` and `m_running_state`. The io_context is a queue of
handlers; the strand lets one `open` or `close` run at a time, and
`initiate_shutdown` is not on it. `cannotEnd` remembers a stop that had no
effect, `overtaken` a shutdown that ran before the open had finished.

**EasyParser, HttpFields, FieldGrammar.** A producer maps a text and a position to
a result and a position. `HttpFields` composes them as the code does;
`FieldGrammar` says, without positions or order of choice, which texts derive
from the grammar and what they mean.

**Router.** A pattern is parsed to tokens as in `path2regex.hpp`. The regular
expression made of the tokens is the list of its pieces, and what
`std::regex_match` finds is computed with the same greedy order. `RoutesExact`
compares with derivations of the path from the tokens a user wrote.

**Units.** These parts meet only through values, so one state space explores them
side by side: `unit` says which one is active, the others rest. A pure algorithm
is a `job` with a `result`.

## 3. Runs

| Run | Instance | Shows |
|---|---|---|
| `MCAcceptor` | 2 slots, limit 2, 3 connections, 2 openings, all failures | `LimitRespected`, `CountersCoverOwners`, `NoLostWakeup`, `AcceptingResumes` |
| `MCDealerBot` | 2 browsers, 6 requests, a text that overflows the frame | `NoLostUpdate`, `FrameFollowsSaves`, `RequestsEnd` |
| `PipelinedResponses` | ring of 2, 3 requests, up to 2 parts each | `LookupExact`, `FreeCellsEmpty`, `PartsConserved`, `NotificatorEndsGroup`, `ImplementsFifo` |
| `MCConnection` | ring of 2, two messages, up to 2 parts, all failures | `WireInOrder`, `NotifiedOnce`, `OneWrite`, `HandledOnce`, `OpenIsGuarded`, `ReadingResumes`, `ConnectionEnds` |
| `MCWebsocket` | two frames of every kind, a message and a close frame of the user, all failures | `CloseFrameIsLast`, `NothingAfterClose`, `EndIsReported`, `WsNotifiedOnce`, `ReleasedEnds` |
| `MCUnits` | see below | `FramesExact`, `FieldsExact`, `CodecsExact`, `RoutesExact`, `PartsExact`, `RequestsExact`, `ResponseFramed`, `FileSentExact`, `ReturnIsFinal`, `ClosedOnReturn`, `AskedEnds` |
| `MCAcceptorDeny` | violated | a denied client leaks a unit of `m_active_accepts` while the acceptor is open |
| `MCConnectionAssert` | violated | the assertion in `init_write_if_necessary` can fail |
| `MCConnectionParser` | violated | the parser is reset in the middle of a message |
| `MCConnectionUpgrade` | violated | an upgrade takes the socket during a write |
| `MCConnectionKeep` | violated | a response to an upgrade request that keeps the connection makes the code handle an upgrade request again, without a request |
| `MCUnitsOverflow` | violated | a number too large for its type is read as another number |

*Bounds.* Three connections for a limit of two make exceeding the limit possible;
two openings make chains of a closed acceptor meet new ones. Three requests in a
ring of two make the ring wrap and a cell be used again; two parts make merging
and splitting of groups happen. Chunks of three half messages let one read bring
a message and a half. `MaxRequests` in `MCConnection` is one more than the messages
of the plans, so that every message can be handled and one handler called without
a message of its own. That happens after a response to an upgrade request that
keeps the connection (`answer` is then "kept"): the stage of the upgrade is never
reset, so the end of that write hands out an upgrade request again, and again
after each further response, which the bound ends. `MCConnectionKeep` shows it;
`HandledOnce` shows that it does not happen otherwise.

*Bounds of `MCWebsocket`.* Two frames in one read let a frame be in the buffer when
the one before it ends the connection; a message and a close frame of the user
are the two groups that can be queued behind the one being written.

*Inputs of `MCUnits`.* Frame headers: every length at which their form changes,
every cut. Streams of up to three frames, with a character of two bytes cut
between fragments and parts; texts of the bytes at which the UTF-8 checker
changes its verdict. Header fields: all texts of up to four lexemes of the
field's own alphabet, separators, bad ones and numbers too large included. All
texts of up to four signs, digits and other characters as numbers of 8 bits, and
numbers of 16 bits around both ends of their range. Base64 and percent-encoding: all short
texts over letters, escapes, padding and bad characters. Routes: patterns with
fixed, optional, repeated and prefixed parts, against all short paths. Bodies of
lexemes (boundary, line end, dashes, text). Two pipelined messages that reach and
exceed each limit. Four calls of a builder. Files of up to four octets with
portions of one to three. A pool of three threads, so that one can serve, one
wait and one not be created.

*Deadlock.* Connections end, and an acceptor that is closed stops; those runs do
not check for deadlock; nor do `MCWebsocket` and `MCUnits`, where connections,
operations and servers end and a job is done once. The dealer server never stops and is checked.

*Fairness.* `Acceptor`: posted handlers run, because the pool's threads run the
event loop, and connections are destroyed in the end, because their timers close
them (`ConnectionEnds`). Clients, `open` and `close` owe nothing.
`Connection`: calls that have begun return, queued completions and armed timers
are run. Strong fairness of `CheckTooLate` says that a guarded operation is
not found "in time" for ever, which is the passing of time. Clients, handlers and
the completion of I/O owe nothing. `DealerBot`: strong fairness of each browser's
request, because asio's reactor takes ready sockets in turn.
`WsConnection`: the strand runs what is queued for it and armed timers fire;
strong fairness of the two time-outs is the passing of time. The peer, the
network and the user owe nothing. `Server`: weak fairness of the caller and of
each thread of the pool, which the operating system schedules; nobody has to
raise a signal or stop, and nothing has to fail. The other units are checked for
safety only.

*Exceptions that properties name.* Some properties leave out what the code
does not provide, and say so: `AskedEnds` leaves out a stop that came before
`m_status` said started (`run()` then waits for ever, as when the open fails on
the first thread while the others are being created) and a close of the acceptor
that threw; `ClosedOnReturn` leaves out an existing server whose shutdown
overtook its open; `EndIsReported` leaves out a failure before `init_read`;
`WsNotifiedOnce` speaks of success before the first failed write;
`AcceptingResumes` leaves out a slot whose accept ended with an error and a place
kept by a denied client; `HandledOnce` ends with the first response to an upgrade
request that keeps the connection.
`FieldsExact` has the grammars as the documentation quotes them and names what the
code does differently: hosts that begin like an IPv4 address, which the ordered
choice of the parser refuses; in `Transfer-Encoding`, parameters after a coding of
RFC 7230 (`gzip;b=c`) and white space around the `=` of a parameter, which are
refused; and ports and byte positions too large for their type, which are refused
or read as another number. `CodecsExact` names three: `from_string` takes an `@`
for a digit (its entry in the table is not the mark of a bad character);
`easy_parser` may take a numeral that is out of range (`300` as an 8-bit number
is read as 44, see `MCUnitsOverflow`); and a base64 text longer than a group whose last
group is not whole is read past its end (`try_decode` reads four characters at a
time without asking for them). All three are among the inputs.
`RequestsExact` has the limit of a field value as the code has it, a
value of exactly the limit being refused while a name or URL of exactly its limit
is not. `FramesExact` takes no side on a control frame between two fragments that
split a character, which ends the check of the text too early.

## 4. Proofs

All theorems hold for every value of the constants that satisfies the named
assumptions.

* `AcceptorProofs`: `TypeCorrect`, `LimitHolds`, `OwnersCounted`, `WakeupsKept`.
  The limit is not inductive by itself. The invariant adds that each counter
  covers its owners, that the counters together stay within the limit, and that
  the stack holds each waiting chain once; a
  chain moves its unit from `m_active_accepts` to `m_connections`, and what
  leaks only makes the limiter more careful. The wake-up argument needs that a
  slot is pushed only when no place is free and that each release posts one.
* `DealerBotProofs`: `TypeCorrect`, `UpdatesKept`, `FrameCorrect`. The invariant
  says in addition what holds in the middle of a save: memory is then the
  acknowledged selection with the posted field replaced.
* `PipelinedResponsesProofs`: `LookupIsExact`, `FreeCellsAreEmpty`, `RingTypes`,
  `NotificatorsEndGroups`, `RingImplementsFifo`, `PartsAreConserved`. The
  invariant says that the ids in the ring are consecutive from the front, that
  they end just below the id counter, and that cells outside the ring are empty;
  lemmas about the ring's index arithmetic (`AtInjective`, `AtSurjective`,
  `AtNext`) carry it through registration, pop and reset. The refinement maps
  the ring to the queue of its responses, the parts of each one write group after
  the other: a step of the ring changes one place of that queue, its end or its
  front (`RegisterQueue`, `RespondQueue`, `WriteQueue`). From there conservation
  follows, with the names of the parts in the queue instead of the parts in the
  cells. All assume `MaxRequests <= IdModulus`: ids do not wrap.
* `SequenceLemmas`: what the above needs of sequences and of sequences joined to
  one. The joining is a recursive function on the number of sequences; that it
  exists is proved by taking the least number for which it would not.
* `SendfileProofs`: `SendfileExact`. `FileSentExact` is not inductive: that the
  wire holds a prefix of the part follows from where the next octet comes from.
  The invariant ties the runner's fields together: what was sent and what remains
  make up the size, the next offset is the part's offset plus what was sent (plus
  what is in the buffer), and the buffer holds the octets that come next. It
  holds for every file, part and chunk size, also while the file shrinks.
* `ServerProofs`: `ReturnsFinally` and `ReturnsClosed`, which are `ReturnIsFinal`
  and `ClosedOnReturn` for a pool of any size and any failures. Both speak only of
  the moment of return, so the invariant has to say what leads there: the open is
  in the queue, with one thread, or over, and never two of these (`OpensOnce`); a
  thread ends only when the io_context has been stopped, and the caller passes
  `wait()` only when all have (`Joined`); a failure to open is kept where the
  caller will find it (`FailureKept`); and an open acceptor belongs to a running
  server or to the thread that is opening it (`AcceptorKept`). Two lemmas about the
  queue carry the open from the queue to a thread.

Only model-checked: liveness (the prover does not do it), everything about
`Connection` and `WsConnection`, and the pure algorithms, which are
RECURSIVE operators, and those the prover does not take.

## 5. Not modelled

* TLS (`tls.hpp`, `tls_socket.hpp`): OpenSSL behind asio's interface. The connection
  uses it as it uses a plain socket, except that files are sent by reading and
  writing, which `Sendfile` has.
* zlib transforms: they compute what zlib's `deflate` and `inflate` compute, and
  those are not in the repository.
* SHA-1: a digest has no definition simpler than the algorithm.
* The Boost, PCRE and PCRE2 regular expression engines, the SObjectizer timer
  manager, the Windows and default sendfile operations: not part of this build.
* Regular expressions written by the user inside a route pattern: the model has
  the groups that path2regex makes itself.
* `noop_limiter_t` and the null timer manager do nothing. Settings and traits are
  values, which are constants here. The connection state listener only observes.
* Names of header fields, status codes and reason phrases are tables; logging and
  the wording of errors are left out.
* Lifetimes of C++ objects: buffers in which matchers are constructed, a
  function object destroyed while it runs.
* Times are abstracted to "in time" and "too late", so which of two limits expires
  first is not visible.
* Vendored libraries, samples other than the dealer server, benches and unit
  tests; the tests were read as documentation of intent.

## 6. Next steps

Proofs of `NotifiedOnce` and `OneWrite` of `Connection`.
