# A TLA+ development for holesail-cpp

holesail-cpp tunnels a local TCP or UDP service through an encrypted peer-to-peer
stream.  A *server* announces a key on a DHT and bridges every inbound stream to a
local service; a *client* looks the key up, listens locally and bridges every local
socket, or every UDP source address, to a stream of its own.

The program has one thread and one libuv loop.  Its concurrency is the order in which
callbacks arrive: from libuv (reads, write completions, closes, timers, signals), from
hyperdht (streams, dials, queries, announcements) and from the owner's own calls to
`destroy()`.  Every module here makes one callback one action, which runs to its end.

## Parts of the system

| Part | State it keeps | Operations | Talks to | What makes it correct |
|---|---|---|---|---|
| `TcpPipe` (pipe.cpp) | handle, three counters, five flags | connect, adopt, read, stream data, write done, stream close, destroy, close done | its `StreamSide` (write, pause, resume, close), its owner through `on_destroy_` | exact counts, bounded and temporary backpressure, nothing lost in a good end, `on_destroy_` once and last |
| Server `Conn` (server.cpp) | stream, pipe, pending bytes, withheld drains | write before and after on_open, flush, drain, close | pipe above, hyperdht stream below | no byte unaccounted for across the flush, freed after the last callback |
| `HolesailServer` | DHT server, refresh timer, map of weak references | start, accept, refresh, pause, resume, destroy, delete | DHT, its connections | destroy reaches every connection, no callback into a deleted server |
| `HolesailClient` | query, two proxies, map of connections | connect, dial, open, close, reap, destroy, delete | DHT, proxies, pipes | a connection is reaped exactly when nothing is owed to it |
| `TcpProxy`, `UdpProxy` | listening handle; map address -> side | accept, datagram, frame, close | client | an entry always belongs to a live connection |
| Framing (udp_pipe.cpp), both ends | decoder buffer, pending bytes | frame, push, receive, destroy | stream, local UDP socket | whole datagrams in order, bounded buffer |
| A whole TCP tunnel | a client's pipe and a server's `Conn` | theirs, and what the stream delivers | the two local applications | nothing lost in a good end, neither side stalls the other, both end |
| DHT record (server.cpp, client.cpp, holesail.cpp) | record, seq | get, put, read | DHT nodes | newest record wins, the running server's record settles |
| Facade and reaper (holesail.cpp) | endpoint, DHT, reaper's turns | ready, close, lookup | all of the above | DHT freed last, lookup answers once |
| Command line (cli.cpp) | shutdown flag, signal handles | parse, validate, dispatch, run, fail, signal, exit | facade | any failure or signal ends the program |
| Options and identity (holesail.cpp, server.cpp, client.cpp) | seed, key pair, mode | derive, info, resolve, firewall | command line, DHT | the string a server prints leads to it, and only its key opens it |
| Keys, URLs, record codec (keys.cpp, record.cpp) | none | z32, hex, parse_url, encode, decode | options, DHT | what one end writes the other reads |
| Addresses, logger, QR | none or configuration | pure functions, output | - | not modelled, see below |

Hard behaviour: the two ends of a pipe finish in either order and with writes
outstanding; a drain may arrive late or never; the service may speak before the stream
is open; stream addresses and UDP source addresses are reused; the owner may destroy or
delete anything at any moment; DHT messages are lost and reordered and the server is
restarted with another record; the same few options and one string are read by four
functions that must agree.  PROJECT.json lists each hazard at its line with the
properties that would catch it.

## Modules

    Bridge           what a connection promises (abstract)
      ^ implemented by both
    TcpPipe          the pipe
      ^ extended by
    ServerConn       the pipe with the server's buffering StreamSide
    Tunnel           a TcpPipe and a ServerConn over one stream
    HolesailServer   the map of connections, each seen from outside
    HolesailClient   dials, streams, pipes and the UDP proxy's map, from outside
    UdpTunnel        datagrams over one stream, both ways, byte by byte
    DhtRecord        publishing and reading the record
    Holesail         facade, reaper, lookup, command-line shutdown
    Keys, Record     the codecs
      ^ extended by
    CommandLine      argv to options
      ^ extended by
    Rendezvous       options to identity, record and string, and back
    *Proofs          theorems about each of these: PipeProofs about TcpPipe and
                     ServerConn, RendezvousProofs about Rendezvous and the
                     codecs, the others about the module in their name;
                     TunnelProofs instantiates PipeProofs once for each end
    MC*              the modules the runs check

Variables carry the members' names (`streamPending` is `stream_pending_bytes_`, and so
on; each declaration says which), actions the functions' names.  PROJECT.json maps each
definition to its lines.

**TcpPipe.** Bytes are numbered, never looked at.  A chunk given to the stream or to
`uv_write` is remembered by the offset at which it ends; the chunks outstanding are a
set of offsets, so that order, count and sum are arithmetic and the counters of the code
can be compared with what is really outstanding.  `queued`, `flushed`, `writes` describe
the local socket, `sent`, `acked`, `drains` the stream, `cause` records why `destroy()`
ran.  `CloseHandle` covers the write callbacks libuv runs with `UV_ECANCELED` or with
status 0 before `closed_cb`.  The stream may close at any time.

**Bridge.** Five variables: bytes taken and settled, arrived and handed over, and a
phase.  `TcpPipe!B` is the refinement mapping: the windows are the mark plus one chunk
less one byte, and a pipe destroyed for any reason but an orderly flush is an abort.
`ServerConn!CB` is the same mapping with the greeting: what waits in the buffer is taken
and not settled.

**ServerConn** extends TcpPipe and replaces two callbacks, the read (whose write buffers
before on_open) and the drain, and adds `StreamOpen` with its flush.  `kMaxPendingBytes`
equals `kStreamHighWaterMark` in the source, which is an assumption of the module.

**HolesailServer.** A connection is a stream address and the phase of its pipe.
Addresses come from a small pool and are handed out again as soon as the close callback
has returned.  The phase "idle" is a pipe whose start failed before it had a handle, the
result nobody looks at.

**HolesailClient.** Connections are numbered by `next_id_`.  `Owed` is the test of
`reap()`, `Shutdown` and `LetGo` are `shutdown_conn()`, written over sets of connections because
`destroy()` runs them over all.  The proxy's map holds the id of the connection whose
side it was given; all a stream event tells the proxy is an address.

**Tunnel** instantiates TcpPipe for the client and ServerConn for the server, each with
variables of its own (`c...`, `s...`), and adds the stream between them: an end is given
only bytes that the other has sent, an END follows them and is answered with an END, and the close
callback comes after both ENDs (pipe.hpp:67-69) or after a failure.  The steps are those
of the two modules under these guards; a write is refused exactly after an END of its own
side or a failure.

**UdpTunnel** works in a small base with short headers; every variable is a function of
the end, client or server, so that both directions are one text.  Where the code of the
ends differs (what a socket error does, whether there is a handle to close, who shuts
down on a refused flush) the action says so.  `PushLoop` is the loop of `push` as
a recursive function on the offset, `Decode` the call.  A frame is accepted whole or dropped whole before
the stream opens.  A broken peer is one oversized header.

**Keys, Record, CommandLine** are operators.  A text is a sequence of characters as far as
the code looks into it: a z32 text is a sequence of letters' places in the alphabet, a
record a sequence of characters (a number or a member name is one character), a token of
argv an option or a word with a typed value.  SHA-256 and key pairs are any
functions without collisions, given as constants.  A loop of the code is a recursive
function on how much of the input it has read, with the body of the loop as an operator
(`EncodeByte`, `DecodeLetter`, `AddMember`, `ParseToken`).  `AccSize` is where an
accumulator wraps around, `Character` the alphabet of hosts, `Control` the control
characters that are written as `\u00xy`, `Decimal` how a port is written.

**Rendezvous** has three steps: a server starts from a command line, and a client or a
lookup starts from a command line around a string that somebody may have: the one the
server printed, the key in it, the public key in three spellings, another key.  The DHT
answers a query with the record of the key or with nothing.

**DhtRecord.** A node keeps one value and its seq, and refuses an older one or another
value with the same seq; this is hyperdht's rule, the assumption that `next_seq` is
written against.  A get hears the nodes one by one, in any order; gets, puts and
restarts interleave with a reader.

**Holesail.** Two DHTs, the endpoint's and a lookup's, each with a reaper.  hyperdht owes
`CloseLevels` rounds of close callbacks after withdrawing; a turn of the loop runs timers
before closes.

## Runs

Bounds are the constants of the .cfg files.

| Run | Bounds | Why they are enough |
|---|---|---|
| `tcp_pipe` | marks 3, chunks up to 2, 6 bytes each way | each mark is not a multiple of a chunk, is passed, drained and passed again |
| `server_conn` | mark and buffer 5, chunks up to 2, 11 bytes out, 2 in | reads can stop one short of the buffer; after the flush the mark is reached again |
| `server` | 3 connections, 2 addresses, 1 get in flight | an address is reused while its first holder is still flushing, beside another |
| `client` | 3 connections, 1 UDP address | an address loses its first stream, gets a second and, by mistake, a third |
| `dht_record` | 2 nodes, 2 records, 1 malformed, 1 loss, 2 restarts | a node can miss a put and miss being heard; A, B, A again |
| `udp_tunnel` | base 2, 2-digit headers, datagrams up to 2, buffers of 5, 2 datagrams from the client and 1 from the server | every cut through header and payload; a buffer that a second frame fits or does not; a length above the cap exists |
| `rendezvous` | keys of 4 bytes, accumulators of 16 bits, 4 chosen keys, 5 ports, 3 hosts | a z32 text ends in a partial letter and has a sixth one; one key's sixth character is `s`, one is short; the hosts need every kind of escape; every option in each form that parse_argv tells apart |
| `tunnel` | marks 1 and 2, single bytes, 1 byte from the client, 2 from the service; at most one end breaks on its own account (`OneEndBreaks`), the stream may fail besides | a byte toward a socket reaches its mark, the greeting fills buffer and window; an end that breaks after the other has broken tears itself down as in the runs of a single end |
| `holesail` | the source's own 16 turns, 2 close levels | nothing is scaled down |

Deadlock is not checked (`CHECK_DEADLOCK FALSE`): a pipe, a connection and the program do
end, and the bounded inputs run out.

What they show:

- *Counting* - `CountersExact`, `ConnCountersExact`: what the code decides by is what is
  outstanding; on the server also across buffering, flush and loss.
- *Backpressure is bounded* - `WindowsBounded`, `OneChunkLostAtMost` - *and temporary*:
  `StoppedIsOwedADrain`, `PausedIsOwedAWrite`, `ConnStoppedIsOwed` say that a stopped side
  is owed the callback that restarts it, `ReadingResumes`, `PauseEnds`, `ServiceResumes`
  that it is restarted; `EndToEndProgress` says it of a tunnel, where each side's pause is
  the other's missing drain.
- *Ends* - `DestroyedStaysQuiet`, `TeardownCompletes`, `FreedOwesNothing`, `BothEndsEnd`,
  `ReapedOwesNothing`, `EndedIsReaped`, `DestroyDrains`, `OrphansAreSilent`, `FreedLast`,
  `ShutdownEnds`, `LookupEnds`: every part ends, not before the last callback it is owed.
- *Finding things* - `OpenConnsListed`, `DestroyReachesAll`, `EntriesAreLive`,
  `CallbacksHaveAServer`: maps and weak references over reused names.
- *Data* - `EndToEndComplete`, `FramesIntact`, `PutDominates`, `ReaderKeepsNewest`,
  `RecordSettles`, `LookupAnswer`; the bound on what a decoder keeps is part of
  `UdpTunnel!TypeOK`.
- *Agreement* - `UrlLeadsToServer`, `EndpointAgreed`, `OnlyTheKeyOpens`: server, client and
  lookup read the same string and options alike.
- *Contract* - `ImplementsBridge`, and `ConnImplementsBridge` with a greeting.

Every one of these properties has a mutant of the code (defined beside the definition it
changes, under the comment "Mutant") that breaks it under the same bounds.

Three runs show a comment of the source to be wrong:

- `server_conn_dropped` (`NothingDropped`): "TCP never gets here" at server.cpp:289-292.
  A read that starts below 256 KiB and ends above it overflows the buffer and is dropped
  from the middle of a TCP stream.  At most one chunk is lost for a connection.
- `greeting_lost` (`GreetingBeforeEnd`): "Flush whatever the local service greeted us with
  [...] before anything else reaches the wire" at server.cpp:371-373.  A service that greets
  and hangs up before on_open has its end of file passed to the stream at once
  (pipe.cpp:117-122), ahead of the greeting that still waits in the buffer.
- `client_one_stream` (`OneStreamPerAddress`): the late close of a stream the UDP proxy had
  dropped erases the entry of the stream that replaced it (client.cpp:326,
  udp_pipe.cpp:368), so one address can have two streams (udp_pipe.hpp:71).

## Fairness

Weak fairness, and only for what the environment owes: libuv answers a connect, reports
every write, closes a closing handle and fires timers; hyperdht acknowledges an accepted
write or closes the stream, ends the header exchange, answers a dial, ends a query and
closes a stream that was told to close.  Nothing is assumed of the local applications, of
the remote side's data, or of the owner.  `DhtRecord` assumes that the refresh timer
keeps firing, that messages are not lost for ever (at most `MaxLost`) and that restarts
stop.

`Tunnel` asks less: one weak fairness condition for each end, over the callbacks it is
owed, taken together, since each of them can happen only finitely often within the
bounds.  There a drain is owed only once the other end has been given the bytes, so that
backpressure travels the whole way; a paused receiver is given nothing.  What is owed to
an end: a dialled connection arrives, the stream opens, sent bytes are delivered, an END
is answered.  `Fail` and the applications owe nothing.

## Proofs

All theorems are about every value of the constants under the named assumptions of the
modules (marks and chunk sizes are positive, the buffer of a `Conn` is as large as its
mark and larger than a read, a reaper has more turns than hyperdht has close rounds,
`None` is nobody, an accumulator wraps around at a multiple of 2^12,
digests and key pairs do not collide), and about specifications without their fairness, which safety does not
need.  None of the properties is inductive alone; each proof module defines the invariant
that is, and TLC has checked it within the bounds of the run.  The layout is the same
everywhere: one lemma for each part of the invariant, in it one step for each action,
and frame lemmas for the actions that leave a part alone.

**TcpPipe** (the first part of PipeProofs) - `TypeCorrect`, `CountersAreExact`, `NeverStoppedForGood`,
`NeverPausedForGood`, `WindowsAreBounded`, `QuietAfterDestroy`, `PipeImplementsBridge`, from

    IInv == TypeOK /\ Life /\ Up /\ Down

That a stopped pipe is owed a drain follows from the count being the number of
unacknowledged bytes and from the *last* submitted chunk being outstanding whenever that
number is not zero.  `Life` relates the handle to the flags.  `Up` and `Down` say, for each
direction, that the outstanding offsets lie between what is acknowledged and what was
submitted and include the latter (`Chunks`), that the counters are exact while the pipe is
alive, and that the flags agree with the marks.  `ChunksAdd` and `ChunksTake` are the only
facts about sets of chunks that the steps need.  The refinement shows step by step that an
action is a Bridge action or a stutter; the delicate ones are `CloseHandle`, which may hand
over queued writes after an abort, and the flush, where no outstanding write means that
everything arrived has been handed over (`ChunksNone`).

**ServerConn** (the second part of PipeProofs) - `ConnTypeCorrect`, `ConnCountersAreExact`, `OneChunkIsLostAtMost`,
`ServiceNeverStoppedForGood`, `FreedLastOfAll`, `ConnIsABridge`, from

    ConnIInv == ConnTypeOK /\ Life /\ Down /\ Handle /\ Greeting /\ Owed

`Life` and `Down` are the pipe's own, and kept by the pipe's own lemmas.  `Up` is false
here: the count also covers bytes that are in the buffer or lost.  `Owed` takes its place,
with the four places a byte can be in; `Greeting` says what cannot happen before on_open,
and that a byte is lost only by a read that also stops the socket, which is why there is at
most one such chunk.  What on_open flushes is then below the mark plus a chunk, so that
the window of the Bridge holds across the flush.

**Tunnel** - `TunnelLosesNothing`, `TunnelKeepsItsEnds`, from

    TunnelIInv == CP!IInv /\ SP!ConnIInv /\ Ends /\ Agreed

`CP` and `SP` are instances of PipeProofs with the variables of the client and of the
server; of the first only the part about a pipe is used.  What the stream adds to the
steps of its ends is guards, so their invariants hold in a tunnel by their own theorems.
`Agreed` is about both: an end that has seen a close in good order has been given all that
the other sent, and the other sends no more.

**HolesailServer** - `ServerTypeCorrect`, `OpenConnsAreListed`, `DestroyReachesEveryConn`,
`NoCallbackIsLate`, for any connections and any pool of addresses.  destroy() walks the map,
so that it reaches every open connection follows from the map being complete until then;
and the map stays complete although addresses are reused because pruning only drops what
has expired, and an address is free only while no open stream has it.

**HolesailClient** - `ClientTypeCorrect`, `ReapIsNeverEarly`, `EntriesLeadToConns`,
`DeletedClientIsNotCalled`, for any number of connections and addresses.  `Wiring` is the
part that none of them mentions: a connection is a TCP one or a UDP one for its whole life,
and only the first kind ever has a socket or a pipe.  So the callback of a pipe cannot reap
what an address still points at, and what the destructor unhooks is all there is.

**DhtRecord** - `RecordTypeCorrect`, `PutIsNotStale`, `ReaderHasNewest`, for any nodes,
records, restarts and losses.  The server keeps one of the replies it hears and chooses the
seq by it; `NewestKept` says that this one stands for all of them.

**Holesail** - `HolesailTypeCorrect`, `DhtIsFreedLast`, `LookupAnswersOnce`.  The reaper frees
by counting turns; `Draining` says that while it drains fewer close rounds are owed than
turns are left.  `Counting` says that the counter of a lookup is the number of its arms that
still ask.

**UdpTunnel** - `UdpTypeCorrect`, `UdpFramesIntact`, from

    UdpIInv == TypeOK /\ \A e \in Ends : Flow(e)

for every base, header length, cap and buffer size, and every chunking of the stream.
`Flow` says of a direction that what was accepted and not yet delivered lies, frame after
frame (`Lay`), in the decoder's buffer, on the wire and in the sender's buffer, and that the
decoder holds less than the first of those frames; after an oversized header nothing more
lies there.  A read only moves the place where the frames begin.  That it does so rests on
what three recursive functions compute: the place of a digit, the length in a header and
the decoder's loop.  Each is first shown to satisfy its own equation (`LoopDefined` and its
like), then `HeaderRead` gives that a header reads back as the length it was written from,
`LoopBounded` that the loop leaves less than a frame whatever the bytes are, and
`LoopOnFrames` that on frames laid out one after the other it emits exactly those that are
whole.  The induction is `Induction`, a fact about sets of naturals that follows from their
well-foundedness in the library (`NatLessThanWellFounded`, `WFMin`).

**Rendezvous, Keys, Record, CommandLine** - `Z32RoundTrip`, `HexRoundTrip`,
`RecordRoundTrip`, `UrlAlwaysLeads`, `EndpointIsAgreed`, `KeyAloneOpens`, from

    RendezvousInv: every server, client and lookup there is Good, and a client or a
    lookup has a server

for any keys, key length, hosts, ports and command lines.  `GoodServer` says what a
server's identity, string and record are made of, `GoodClient` and `GoodFound` what a
client and a lookup made of what they were given and heard; the three properties follow
by comparing them.  The work is in the codecs.  z32: `ByteInStep` shows that the decoder,
given the letters that a byte completes, holds the same bits as the encoder and has put
out the same bytes, for each of the five places a byte can begin at in a letter; only the
low twelve bits of an accumulator matter (`LowBits`), so that it overflows is harmless.
The record: `ReadEscaped` reads one escaped character back, `ReadJsonString` a text,
`MemberRead` a member, and `RecordRoundTrip` the whole, whatever the host contains.  The
command line: `ParseArgvGood` shows that the value of an option stood on the line, so
that a server listens on a port and a host that were given to it.

`LinesAssumption` is what is assumed of a server's command line: it is finite, its key is a
chosen text (one that is not itself z-base-32) or empty, and its host is not an empty text.
Nothing is assumed of what stands around the key of a client.  Two facts are needed of
libsodium and hyperdht: no two chosen keys have one digest, no two seeds one
public key (`KeysAssumption`); and a digest is a seed, but not the random one
(`RandomAssumption`).

Only model-checked: all liveness (`TeardownCompletes`, `ReadingResumes`, `PauseEnds`,
`ServiceResumes`, `DestroyDrains`, `EndedIsReaped`, `RecordSettles`, `ShutdownEnds`,
`LookupEnds`, `EndToEndProgress`, `BothEndsEnd`), which needs fairness and ENABLED.
Every safety property of the passing runs is a theorem.

The type invariants of ServerConn, DhtRecord, HolesailServer, HolesailClient and Holesail
are proved; no run lists them.

## Not modelled

Help texts, messages, the log level and the rendering of results; IPv4 resolution, whose
failure is a branch of the actions that call it; logging, colours, the QR code; white
space in the record, which neither implementation writes.  They keep no state that
interacts with the rest.  hyperdht, libuv and libsodium are outside the repository and
appear as the environment.

Known limits: the two ends share no shutdown of the local socket's write side: whether a
half-close is "propagated in both directions" (the design spec) depends on hyperdht,
which is modelled as answering an END with its own.  A client told to be secure
(`--public=1`, or `--public` followed by a word) does not find a public server by its
`hs://0000` string, which `UrlLeadsToServer` excepts.  The accumulators of z32 are 32 bits
wide and 16 in the run; the proofs are for every width of at least the 12 that a byte and a
rest need.  A `\u` escape other than those that `append_escaped` writes is read as `?`,
which no record of a server contains.  The
contents of a foreign frame (client.cpp:310) are not followed into the
decoder; two lost DHT messages are beyond `RecordSettles` (two records may then share a
seq and a server that hears its own last does not raise it); a pipe whose stream has
closed can lose its map entry to a reused address and is then not reached by
`HolesailServer::destroy()`, but ends by itself; a stream that fails while writes are
queued is an abort and may take the queue with it (pipe.cpp:147-152), which a close after
both ends have ended does not.

## Plan

Done, in this order: TcpPipe with Bridge and proofs, ServerConn, HolesailServer,
HolesailClient, UdpTunnel, DhtRecord, Holesail; then UdpTunnel both ways, Keys, Record,
CommandLine, Rendezvous, Tunnel; then the proofs about ServerConn, HolesailServer,
Holesail, HolesailClient, DhtRecord, Tunnel and UdpTunnel, and last about Rendezvous and the
codecs.

Next, model: an abstract registry (connections open, ending, gone) implemented by both
HolesailServer and HolesailClient; the foreign bytes of client.cpp:310 in the decoder.
