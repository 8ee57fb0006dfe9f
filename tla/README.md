# Protocraft framework: models, checks and proofs

TLA+ modules for the `protocraft_framework` crate (repository root `src/`, crate
sources in `src/src/`): the byte pipe under the Minecraft protocol, the packet
reader and writer on top of it, the primitives and the packet tables, the
detection of a client's version, and the example server that uses all of it.

## 1. The system

The crate turns a pair of byte streams into typed packets. It has no threads of
its own: a `ProtocolHandler` owns a *stream provider*, and its methods either
block or are futures that the application polls, and may drop.

| Component | State | Operations | What must hold |
| --- | --- | --- | --- |
| Asynchronous writers (`defaults/asynchronous/{tokio,futures}.rs`) | buffer, `Fill`/`Write(offset)`, cipher | `poll_write`, `poll_flush`, `with_encryption` | the peer reads what was written, once, in order, enciphered once, whatever is cut short |
| Blocking writers (`defaults/sync.rs`) | buffer, cipher | `write`, `flush`, `with_encryption` | the same until a call fails; never a gap after it |
| Readers (`defaults/*`, `with_std.rs`, `asynchronous.rs`) | `BufReader`, `InflateState`, decryptor | bounded reads, inflating reads, discard | a read stays in its frame; bytes are neither lost nor made up |
| Packet reader (`protocol/mod.rs:414-605`) | none between calls | `read_packet`, `async_read_packet` | a returned call leaves the stream on a frame boundary |
| Packet writer (`protocol/mod.rs:607-840`) | none between calls | `write_packet`, threshold and size decisions | announced lengths equal the bytes written |
| Compression writers (`defaults/*`) | `CompressorOxide`, payload | `write`, `finish`, `initialize` | the payload inflates to what was written |
| Handshake detection (`primatives/handshake_version.rs`, `protocol/mod.rs:273-412`) | blocking mode | first-byte dispatch, 5 ms probes | the client's version is recognised; the stream is blocking again |
| Primitives (`primatives/*`) | none | `from_reader`, `to_writer`, `size` | round trips; `size` equals the bytes written |
| Protocol states and packet tables (`protocol/versions/*`) | type state | `into_*_state`, `designator_from_id` | only packets of the state, ids one-to-one |
| Legacy ping responses (`protocol/mod.rs:31-122`) | payload length | `new`, `to_writer` | the 16-bit length equals the code units written |
| Example server (`example_helpers`) | the session | handshake, status, login, configuration | both sides switch ciphers and compression at the same byte |

How they interact: the packet writer calls `write` many times and `flush` once
per packet on the writer; the packet reader stacks `BufReader` -> bound on the
frame -> inflate -> bound on the content; `with_encryption` swaps reader and
writer between two packets; `set_compression_threshold` changes how both frame.

The hard behaviours: an inner write that takes a part and then fails, pends, or
whose future is dropped; a retry after that; the cipher's position, which both
sides must advance by the same bytes; reads whose chunks fall anywhere; two
nested bounds of which only the inner one is drained; timing in the handshake;
and the widths of the integers. `PROJECT.json` lists each of them at its line.

## 2. Modules

| Module | Models | Role |
| --- | --- | --- |
| `BytePipe` | what `Writer`/`AsyncWriter` promise | abstract specification of both writers |
| `AsyncBufferedWriter` | `AsyncDefaultWriter`, `AsyncBufferedWriter`, `AsyncEncryptionWriter` | one action per loop iteration, refines `BytePipe` |
| `AsyncBufferedWriterProofs` | - | inductive invariant, safety theorems, and that the writer implements `BytePipe` |
| `SyncBufferedWriter` | `DefaultWriter`, `BufferedWriter`, `EncryptionWriter` | one action per call, refines `BytePipe` until a call fails |
| `SyncBufferedWriterProofs` | - | inductive invariant, safety theorems and the refinement until a failure |
| `PacketReader` | `read_packet` over the reader stack | one action per read of the stack |
| `PacketReaderProofs` | - | inductive invariant and safety theorems |
| `MCPacketReader` | - | the frames TLC enumerates |
| `PacketWriter` | `write_packet` with the pre-compression writers | one action per turn of a deflate loop and per write |
| `PacketWriterProofs` | - | inductive invariant and safety theorems |
| `MCPacketWriter` | - | the packets TLC enumerates |
| `HandshakeDetection` | `HandshakeVersion::from_reader`, `read_handshake` | one action per read and per step of a probe |
| `HandshakeDetectionProofs` | - | inductive invariant, safety theorems and the extent of finding 6 |
| `VarIntCodec` | `VarInt` | reader, writer and `size` as loops |
| `ProtocolStates` | what `build_protocol!` generates: states, designators, transitions | operators over tables of any length and any ids |
| `PacketTables` | the 38 version files, with their literal ids | data |
| `Primitives` | integers, `bool`, `Option`, arrays, `Bytes`, tuples, `Box`/`Rc`/`Arc` | one action per call of `to_writer` and `from_reader` |
| `PrimitivesProofs` | - | the invariants of a payload under way, for types of any depth |
| `Packets`, `MCPackets` | a packet between two ends | composes `VarIntCodec`, `ProtocolStates` and `Primitives`; the types TLC enumerates |
| `PacketsProofs` | - | the tables' directions meet by their ids, the VarInt's theorems for every width, the two together, and the payload's theorems |
| `LegacyPing` | `Legacy1_3PingResponse`, `Legacy1_6PingResponse` | operators: lengths, limits, what is written |
| `Session` | the example server after the handshake, with a client | one action per packet written, read or buffered, at each end |
| `ExampleServer`, `MCExampleServer` | `handle_connection_with_errors` | composes `HandshakeDetection`, `Session` and `LegacyPing` |
| `ExampleServerProofs` | - | inductive invariants and safety theorems of the server with its session |

### BytePipe

A sequence of owed cells, a count of how many were sent. `Accept` takes bytes in
their final form (enciphered, once `keyed`), `Send` lets them go in order, and a
flush may be called clean only when all of them are gone. `StartCipher` forgets
what is owed and not sent, which is nothing when the pipe is clean.

### AsyncBufferedWriter

`mode` is the enum `AsyncDefaultWriter` (its `Poisoned` exists only inside
`with_encryption`), `phase` and `offset` are `AsyncBufferedWriterState`,
`buffer` is the `Vec`. A byte is a cell `[b, e]`: its number and the keystream
positions applied to it, so that a lost, repeated, unenciphered or twice
enciphered byte is visible. `call`, `todo` and `task` are the caller's
`write_all` or `flush` future; it is polled in steps (`Copy`, `BeginDrain`,
`InnerWrite`), may be told `Pending` (`InnerPending`) or an error
(`InnerError`), and may be dropped while parked (`Cancel`). `accepted`, `keyAt`
and `wireAt` are history. The inner writer is external: it takes any part of the
slice it is given, `SinkRoom` bounds what it takes before answering `Ok(0)`, and
`SinkBuffer` is what it may keep to itself until flushed.

### SyncBufferedWriter

The same cells; a blocking call is one step because nothing can interleave with
it. `DrainFails` is the inner `write_all` that fails after `cut` bytes: the
buffer stays whole and, when encrypting, stays enciphered. The caller may go on
after an error, `MaxFailures` times; the example server does not.

### PacketReader

Bytes have a place but no value. A frame has the lengths of its VarInts, a body
of `head + data + tail` bytes and what it claims. `pos` and `buffered` are the
two ends of the `BufReader`, `left` is the limit of the bound the handler sees,
`Outer` that of the frame's bound, `dict` the bytes `InflateState` has inflated
and not given out. The inflating reader takes all of the chunk it sees, as
`miniz_oxide` does while its window has room, and gives out what it was asked
for. The peer may close the connection after any byte (`sent`); `arrival` says
whether its frames come in pieces or whole.

### PacketWriter

A packet is the size of its id and of the slices its `to_writer` hands over; what
leaves is a sequence of fields, a VarInt field with the number it holds.
`threshold` and `flavour` choose the branch and the loop. `SyncDeflate` and
`SyncFlush` are turns of the blocking writer's loops around `deflate` over a
growing `Vec` (`length`, `written`), `AsyncDeflate` a turn of the asynchronous
one over its array. `Deflate` is external and leaves open what the compressor
takes, keeps (`raw`, `pending`) and gives out, but for what both loops rely on:
with room left it has taken everything and given everything the flush mode asks
for, and it takes nothing after the end of the stream until it is reset (`Fresh`).
A frame's fields then go out one by one; the stream may fail in between, after
which the model ends the connection, since the code says nothing of what a caller
may do with a half-written frame.

### HandshakeDetection

A client is what it sends: a modern packet of some length, one of the three
pings, or bytes that are neither. The network delivers it in pieces cut at every
byte that decides something; `prompt` says that no byte is more than 5 ms behind
the previous one. `ProbeBegin`, `ProbeRead` and `ProbeEnd` are `try_read_byte`
with its two `set_blocking` calls, which may fail. `value` follows the length
loop bit by bit, the first byte's continuation bit included. The packet's id is a
VarInt of one or two bytes. `Pipelined` is how much a client sends behind its
handshake packet, by the length of the packet; behind a ping it sends nothing.
`Misread` names the lengths the loop decodes wrongly.

### VarIntCodec

`Segment` and `Width` are the code's 7 and 32. TLC runs 3 and 8, which keep the
shape that matters: three groups of which the last is not full.

### ProtocolStates, PacketTables and Packets

A table is its lines as they stand in the version's file, each with its literal
id; `Ids` has the ids of every table, line by line, and a designator is a line,
whatever id stands there. `Reads` and `Writes` are the two directions the macros
generate for an end (`$state` and its `$reciprocal`). `Id` is the literal of a
designator's line, `DesignatorFromId` the first arm of the reading end's match that
has the id: a gap, a repeated or a misplaced id would show. `PacketTables` gives the
packets of status, login and config by name (as `v773.rs` spells them) and of play
the ids, which are consecutive in every file; versions with equal tables share a
definition. `Packets` sends the id of every packet of every version through the
VarInt codec to the other end's table, and after it a payload.

### Primitives

The calls that the macros nest are a list of tasks: a writer takes the first
value, writes its bytes and puts its parts in front; a reader takes the first
type, reads bytes or puts the calls it makes in front, and collects values from
`stack`. A peer may also make the bytes up, and the connection may end after any
of them. `junk` records that `array.rs` dropped memory nobody initialised: the
array starts as `assume_init`, so `*item = t` drops the slot's old content and an
error drops the slots not yet filled. `Shapes` are types with values of them; that
each is built from others as the macros and generics build types is assumed
(`ShapesAssumption`: `IntShape`, `OptionShape` and so on) and evaluated for those
of the run. Tuples are pairs, longer ones the same loop over more types.

### Session

An `end` is a handler over a provider: its state, whether its reader deciphers
and its writer enciphers, whether it frames with compression, and what its
`BufReader` holds. A packet on the `wire` carries how it was written; a buffered
one also whether it was deciphered on its way in. `FillBuffer` is the read below
the `BufReader`: it takes any number of packets that have arrived and the
decryptor of that moment. A packet is `Legible` when cipher and frame are those
it was written in; `Seen` is what the reader's own table calls its id. The server
is a step per `write_packet!`, `read_packet!` and switch, in the order of the
function, with its kicks, early returns and errors. The client is external: an
honest one of any version does what the protocol asks for and no more; another
may send any packet of its state out of turn, answer with a wrong name, token or
secret, with lengths that reach beyond its packet or are negative (the first is a
read error, the second a `vec!` of an impossible size, which panics), or leave. A client whose version has no config state goes on to play after
LoginSuccess and sends play packets.

### ExampleServer and LegacyPing

The detection of `HandshakeDetection` runs first. A modern client then starts the
session; a ping is answered with the response of the version that was found, and
the server reads on until the client closes (`LegacyRead`). There, what is left of
a ping taken for an older one, or of a modern packet taken for a ping, is read as a
packet of the handshake state, a length of three bytes at most, id and all, and
`expect_err` panics if that succeeds. It does for clients the model leaves out: one
that sends a handshake packet more than 5 ms behind its 0xFE, and one that hides a
second handshake behind the fields of its own (`HandlerNeeds`: the fields fill the
packet). What is shown is that no other client can panic it, however late its
bytes are. `LegacyPing` counts texts in
UTF-16 code units: once as the constructors add them up, once as the writers
write them, with the cast to `i16` in between.

## 3. Checks

| Run | Shows |
| --- | --- |
| `async_writer` | under every cut the peer reads what was written (`WireExact`), nothing accepted is lost (`NothingDropped`), a flush that returned has delivered (`FlushedIsDelivered`), `BytePipe` is implemented (`PipeSpec`), and a polled call returns |
| `async_push` | finding 1: flush does not reach through a buffering inner writer |
| `sync_writer` | `BytePipe` until the first failure; flush reaches the peer; after failures bytes may repeat but none is skipped |
| `reader` | bounds nest, inflated bytes are conserved, calls return, and a call ends on its frame's last byte unless a deflated frame arrived in pieces |
| `reader_split` | finding 2: a late zlib trailer stays in the stream |
| `reader_eof` | finding 3: a lone zlib header is reported as the end of the stream |
| `packet_writer` | lengths say what follows them, frames fit the reader's three-byte bound, the blocking payload is whole and ends the zlib stream, calls return |
| `packet_writer_async` | finding 4: the asynchronous payload is cut |
| `packet_writer_panic` | finding 5: the blocking writer panics with one byte left |
| `handshake` | the whole example server. Punctual clients are recognised, late ones only taken for older ones (`RightVersion`, `NeverUpgraded`), later reads block, the call ends on the packet's last byte (`EndsOnPacket`) and waits for no byte that was not announced (`Answered`), both but for a misread length; what the server writes to a ping can be taken apart and the rest of a late ping, with nothing sent behind it, never panics it (`PingIsServed`); packets are read in the cipher and frame they were written in but for two cases the code has (`PatientClientsAreRead`, `OnlyKicksAreLost`), mean the same to both ends (`SameMeaning`), and the ends agree whenever nothing is under way (`InStep`); a status request of any version is answered and a login of a version with dialogs completes (`Completes`); the thread ends when the client is gone (`ThreadEnds`) |
| `handshake_length` | finding 6: a 256-byte handshake is read as one of 384 |
| `varint` | VarInts: round trip, exact size, no overrun, over every word and every short input. Packets: the literal id of a line finds that line again at the other end, in every table of every version (`SamePacket`). Payloads: round trip of nested types, a cut value is never read (`BodyRoundTrip`), `size` is what is written and what is read, also from a peer's own bytes (`BodySizeIsExact`), uninitialised memory is dropped for arrays of owning items only (`DropsOnlyOwners`) |

**Bounds.** The writers use a buffer of two and slices of up to three bytes: one
slice then fills the buffer, drains it and leaves a rest, and five or six bytes
let that happen on both sides of the switch to encryption. Nothing in the code
depends on the amounts beyond equality with the capacity, and the theorems drop
these bounds. Two failed calls allow a retry that fails again. The reader uses
one and two frames of up to eight bytes and a `BufReader` of three, so that
chunks end inside every part of a frame. The packet writer counts with two values
a byte instead of 128, so that the largest three-byte length is 7: packets of 1
to 13 bytes lie on both sides of it, of both thresholds and of `MaxInt`; two
packets make the second one meet what the first left in the compressor. The
handshake uses the code's own widths and the lengths at which the number of
length bytes, or the first byte's meaning, changes, and two whose bit 7 is clear,
which finding 6 misreads: with 256 four of the 128 bytes too many follow and the
call waits for the others, with 300 all of them are taken out of what follows. The session
follows on the handshake of 127 bytes, with clients of all 38 versions, all three
intents, two packets out of turn and a `BufReader` that holds up to two packets:
three are never under way at once but for those two. Clients with other handshakes
leave after them. The legacy texts are the example's own and those one code unit
below and above both limits. The codec runs with groups of three bits, eight bits
a word, which holds the largest id (138); payload bytes have three values, so that
`0`, `1` and another `true` differ; types nest three deep, and a peer sends every
string of up to five bytes for each.

**Fairness.** `async_writer` assumes that the executor polls a woken task again
(weak fairness of `Wake` and of the loop's own steps) and that an inner writer
with room takes bytes again and again (strong fairness of `InnerWrite`, since
each `Pending` disables it); nothing is assumed of the caller, who may drop the
call. Its inner writer has room for all bytes and never answers `Ok(0)` to a
non-empty slice. With one that does, `CallReturns` fails: the loops of `poll_write`
and `poll_flush` have no case for it and go round without end. TLC shows it when
`SinkRoom` is lowered below `MaxBytes` in `AsyncBufferedWriter_pipe.cfg`. `reader` assumes that a started call goes on: a blocking read
returns because the peer sends or closes, and the handler has a bound to exhaust.
`packet_writer` assumes that a call is not left between two of its steps, and
`handshake` that the server's thread runs, the network delivers what was sent,
and an honest client does its part; any other client need not close nor send more.

**Deadlock** is checked in the asynchronous writer's runs. The others may stop:
the blocking writer after an error when the caller does, the packet writer after
a failed stream or its last packet, the reader when the connection ends, the
example server and the codec when the call has returned, and the server also
waits for clients that do nothing.

## 4. Proofs

`AsyncBufferedWriterProofs` proves, for every capacity, slice length and inner
writer, that `TypeOK`, `WireExact`, `NothingDropped` and `FlushedIsDelivered`
hold in every reachable state; the only assumption is that the constants are
natural numbers. None of the four is inductive alone: what goes out next is in
the buffer, so the invariant `IInv` adds

- `BufferExact`: a waiting byte is the one owed at its place on the wire, in
  clear in `Fill` and final in `Write`, also those before the offset;
- `KeystreamExact`: the encryptor has used as many positions as bytes went
  through it since the switch;
- `Started`: a running call has not been flushed, and the offset of `Write`
  counts bytes that are on the wire.

There is one lemma per action that touches the writer (`WithEncryptionKeeps`,
`CopyKeeps`, `BeginDrainKeeps`, `InnerWriteKeeps`) and one for all those that do
not (`OutsideWriterKeeps`). They rest on three lemmas on the shape of what the
helpers return. TLC confirmed `IInv` on the bounds of `async_writer` first.

The extent of finding 1 follows (`FlushReachesAllButHeldBack`): after a flush that
returned Ok, each of the bytes accepted since the start has reached the peer in its
final form but the last `SinkBuffer`, those the inner writer may keep. It takes
`FlushedIsDelivered` for the writer's own buffer, `WireExact` for the bytes, and the
bound on the external inner writer (`HeldBackIsBounded`).

Its second part proves `Spec => PipeSpec` from it. The argument
rests on one lemma, `PipeState`: whatever the phase, the offset and the buffer
are, the wire followed by what still waits is `Stream`, the `Due` bytes the peer
has to receive in their final form, and the abstract keystream is the number of
those since the switch. So a step that keeps `mode`, `accepted` and the marks
keeps the pipe (`TouchOrStutter`, `InnerWriteSends`), `Copy` extends `Stream` by
new cells (`CopyAccepts`), and `WithEncryption` cuts it to the wire
(`WithEncryptionStarts`). `CallExact` adds to `IInv` what only the refinement
needs: no keystream before the switch, and a rest to write while `write_all` runs.

`SyncBufferedWriterProofs` proves `TypeOK`, `NeverSkips` and `FlushedIsDelivered`
for every capacity, slice and number of failed calls, and `PipeUntilFailure`, the
refinement of `BytePipe` up to the first failure. Its `IInv` adds to them

- `BufferNumbered`: the buffered bytes are numbered without a gap and end with the
  last one accepted; a retry after a failed call may therefore repeat bytes and
  cannot skip one;
- `Frontier`: since the switch (or the start) nothing went out, or the last byte on
  the wire is the one in front of the buffer or one of the buffer's;
- `Started`: only a running `write_all` has bytes left to hand over.

`Unbroken`, which the refinement alone uses, adds that no keystream is used before
the switch and that no waiting byte is enciphered while no call has failed.

`PacketReaderProofs` proves, for every stream of frames, size of the `BufReader`
and arrival, `TypeOK`, `WithinFrame`, `ContentConserved` and `UncutIsReadWhole`.
The only assumption is `ReaderAssumption`, the shape of a frame and of a claim.
`IInv` adds

- `Places`: where the stream stands at each step of `read_packet`, relative to the
  parts of the frame, so that the two nested bounds cannot cross the frame's end;
- `WholeFrames`: while frames arrive whole, the `BufReader` holds no part of a frame
  before it is begun and all of it after its length, so a deflated frame is in one chunk;
- `EofJustified`: only a frame that is cut, malformed or inflated in pieces ends in
  an end of stream.

`PacketWriterProofs` proves `TypeOK`, `SyncPayloadWhole`, `FitsReaderBound` and
`FrameExact` for every packet, threshold, base of the VarInt and behaviour of the
compressor. `IInv` adds `Typed` (the fields and counters), `Whole` (from its flush to
the frame's last field, the blocking writer's compressor holds nothing back) and
`Framing` (the fields already on the stream and those to come make up the frame
that was announced). `FittingPayloadIsWhole` is the extent of finding 4: under
`SlicesFit`, that no slice fills the asynchronous writer's array even with the byte
the model's deflate may add to it, `PayloadWhole` holds for both writers. The array
then keeps room at every call, so deflate takes the whole slice and holds nothing
back (`DeflateTakesAll`), and the compressor is empty between slices (`AsyncWhole`).
`FrameExact` sums over the fields of a
frame. Sums over sets are folds, so their laws need an induction, which
the library's theorems cannot give here; `NatSetInduction` proves it for a *set* of
numbers instead of a predicate, from the pigeonhole theorem of finite sets.

`HandshakeDetectionProofs` proves `TypeOK`, `BlockingReads`, `RightVersion` and
`NeverUpgraded` for every client, cut and delay. `IInv` has one clause per place of
the function: `AtFirst`, `AtLength` (the length loop bit by bit), `AtProbe`,
`ProbeOpen` and `ProbeLate` (what a probe knows when it starts, has read, or has
timed out), `AtChannel`, `Found` (why each version was returned) and `AtBound`.
`LengthIsOffByBit7` is the exact extent of finding 6: a length of two to four
bytes is read as itself if its bit 7 is set and as 128 more if not, and no other
length is misread. From it `StopsOnPacket` proves `EndsOnPacket` for every length: the property
excepts the misread ones (`Misread`) and those alone.

`PacketsProofs` proves `SamePacket` for any versions, lines and literal ids under
one hypothesis, `IdsAreDistinct`: no table lists an id twice (gaps and any order
will do). The line an end may write is then the only arm of the opposite end's
match with its id (`DesignatorsMeet`), and the VarInt brings the id across. That the
38 files meet the hypothesis is TLC's part: a table with a repeated id breaks
`SamePacket` in the `varint` run. It proves `TypeOK`, `RoundTrip` and `SizeIsExact`
of the VarInt for every `Segment` and `Width`, the code's 7 and 32 among them, given
that the ids fit the integer
(`IdsAssumption`). `CodecInv` says what the loops have done: `Halfway` (the
bytes so far carry the lowest groups, and the rest of the value needs more) and
`Complete` (one byte fewer would not have been enough, and the reader has the
value modulo the weight of the groups it has read). The last group of the word is
never full, so the writer never leaves its loop with groups left over. The provers
know nothing of powers, so `Power` is a recursive function of the model;
`PowersExist` shows that the recursion has a solution, `PowerSum`, `PowerGrows` and
`LogExists` what is needed of it. All are inductions, which go through once the
predicate is a set (`Induction`, from the well-foundedness of the natural
numbers).

`PrimitivesProofs` proves the invariants of a payload, from which `PacketsProofs`
has `BodyRoundTrip`, `BodySizeIsExact` and `DropsOnlyOwners`. They hold for types
of any depth, integers and byte arrays of any width, arrays of any length and any
bytes of a peer, given `ShapesAssumption`, that values have a size and that a byte
has at least two values. Nothing is proved by induction over types: the calls the
reader still has to make are a path (`Path`), from what it has read to one value of
the type, whose every step says what a call must leave. A composed type keeps the
invariant because the calls it makes lead where the call for the type itself did,
and each of those is again of one type.

- `SizesAccounted` follows `Handles`: how many values are read, whether the last is
  one byte, and how many bytes have been taken that no value on the stack accounts
  for (the tag of an Option between its bool and its value). It also carries that
  only a type with an array of owning items (`fragile`) has assignments that drop.
  The writer's part is that the bytes written and the sizes of the values to come
  add up to the size of the body.
- `BodyKept` follows `Means`: the reader reads the value the writer wrote. It holds
  the bytes the writer wrote (`F`), of which the stream is a beginning or which go on
  behind it (`Agrees`), and the values it had still to write when it was at `at`
  (`Ran`: from there its steps write the rest of F). The two sides do not take
  a value apart in the same steps (a box is not there for the writer, a bool is one
  call more for the reader), which is why `Means` is about what is left to write and
  not about the writer's step. Since the writer's next step is the only one it can
  have made (`RanFirst`), the bytes the reader takes are those of the value it is at,
  and where they are missing the stream is shorter than the body.

`BigEndianRoundTrip` says that `from_be_bytes` of `to_be_bytes` is the integer
again, for every width and base of a byte. Both invariants say that
a path exists, which TLC cannot enumerate; it checks the three properties on the
types of the run.

`ExampleServerProofs` proves the properties of the session and of the server around
it for every set of client versions of the tables, every read-ahead, any number of
packets out of turn and all texts of a response. It assumes `ClientVersions`
within `AllVersions`, `ReadAhead` at least 1, `MaxWrong`, `PlayIds` and the lengths
of the texts natural numbers, and what `HandshakeDetection` assumes. Three
invariants carry it.

- `SInv`, for `PatientClientsAreRead`, `OnlyKicksAreLost` and `InStep`. None of
  them says what is under way, so `SInv` adds how each end stands at each place of
  its function (`ServerEnd`, `ClientEnd`), how the two compare (`EndsMeet`: the
  client is first to encipher, the server first to compress), and what each packet
  still to be read is written in: `ToClient` (in the order of the function, in the
  cipher and frame its name stands for), `FramePending` (a client that does not
  compress yet will read SetCompression), `ToServer` and `Patience` (from a client
  that does not send early, what is in the clear is read before the switch and
  nothing is behind the response that starts it).
- `MInv`, for `SameMeaning`: while the client keeps to the protocol and its
  version has a config state, the ends are in `LockStep`: at most one packet is
  under way to the server, it is the one awaited, and none is while a question of
  the server is unread or unanswered. Hence what is under way to the client is of
  the state the client is in (`Understandable`), and lemmas on all 38 tables
  (`LoginTables`, `ConfigTables`, `VersionTables`) say what its id is called there.
- `PInv`, for `PingIsServed`: a response was accepted by the constructor of the
  version found, and that version is settled. `NoHandshakeLeft` goes through every
  client and every byte it can be cut at: what is left of a modern length is less
  than the length, so the handler's fields do not fit.

`HandshakeInside` shows that the server takes only steps of `HandshakeDetection`,
whose theorems are therefore the server's. TLC confirmed the three invariants on
the bounds of the run first.

Only model-checked: liveness (`CallReturns`, `ReadReturns`, `Answered`, `Completes` and
the like), which needs fairness and ENABLED, out of the prover's reach.

## 5. Findings

1. `poll_flush` never flushes the inner writer, the blocking `flush` does
   (`tokio.rs:346`).
2. With compression, `read_packet` drains the decompressed bound only: a zlib
   trailer in a later chunk is left in the stream (`protocol/mod.rs:588`).
3. The inflating reader returns `Ok(0)` for a chunk that yields no output yet,
   which its callers take for the end of the stream (`sync.rs:38`).
4. The asynchronous pre-compression writer stops once deflate has taken the
   slice; what did not fit its 512-byte array stays in the compressor and the
   payload is cut. It never ends the zlib stream either (`tokio.rs:603`,
   `futures.rs:593`).
5. `2.max(... - 2)` in the blocking pre-compression writer underflows with one
   byte left (`sync.rs:404`).
6. The handshake's length keeps its first byte's continuation bit: 256 is read
   as 384 (`handshake_version.rs:63`).

Met on the way and without a run of their own: an inner write that answers `Ok(0)`
makes `poll_write` and `poll_flush` loop without end, where the blocking writer's
`write_all` fails (`tokio.rs:336`), although `traits.rs:98` says of write "returning
an error if it cannot be done"; the length loop accepts a fourth byte although its
comment says three (`handshake_version.rs:62`); a modern packet
whose length starts with 0xFE (254 bytes, for one) is taken for a ping, which the
format hardly lets a server avoid.

What the example server's run shows and its users should know, though no document
says otherwise: a client that sends on between its EncryptionResponse and the
server's SetCompression may lose the connection, because the `BufReader` keeps
what it read ahead as it came (`PatientClientsAreRead` names exactly this case);
a kick for a wrong token or secret is written in the clear to a client that
deciphers already (`OnlyKicksAreLost`); the client's protocol version is ignored,
so that a client without a config state takes its packets for play packets
(`SameMeaning` excepts it). `array.rs:12` says "SAFETY: We immediately initiallize
the array", but `*item = t` drops the uninitialised slot first, which is undefined
behaviour for items that own memory; `DropsOnlyOwners` shows that it is confined
to those.

## 6. Plan

Every component with behaviour has a module, and every safety property of the
passing runs is stated by a theorem. Of the properties the other runs violate,
theorems give the extent, under which condition each does hold: finding 1
(`FlushReachesAllButHeldBack`), findings 2 and 3 (`UncutFramesAreReadWhole`: raw
frames in any pieces, deflated ones in one), finding 4 (`FittingPayloadIsWhole`) and
finding 6 (`LengthIsOffByBit7`, `StopsOnPacket`). None is
stated for finding 5: that a blocking slice never leaves a single byte behind
depends on where deflate stops, which no size alone decides.

A larger instance worth a run: a session with three packets read ahead and a
client that sends three out of turn.

## 7. Not modelled

`poll_shutdown`/`poll_close` only forward to the inner writer. The cipher, deflate
and sockets are external and appear as what the code relies on: a position per
byte, bytes in and out, partial reads and writes. Packet contents, error texts
and feature flags carry no behaviour of their own. In the session a packet is one
unit: its bytes, and the cuts inside it, are `PacketReader`'s and `PacketWriter`'s.
A connection that is reset rather than closed is not told apart from one that
ends. RSA and NBT are data: a response is right, wrong, too short for its lengths, or
has a negative one. A `buffer_size` of 0 leaves the writers no capacity; the models
have one of at least one. What a caller does with a
provider after a failed write in the middle of a frame is not said by the code,
and the model ends there.
