# Pyrite: TLA+ models, checks and proofs

Pyrite is a Minecraft-protocol server in Rust. This directory models the parts
of it that decide what a peer sees and what the server does with its resources,
model-checks them with TLC on small instances, and proves the central
properties with TLAPS for every value of the constants. Source paths below are
relative to `src/crates/`.

## The system

| Part | Source | Modelled in |
|---|---|---|
| Accept loop: semaphore admission, one task per connection, drain on shutdown | `net/src/server.rs` | `Serve`, abstractly `Admission` |
| Connection: read loop, dispatch, handlers, state machine, errors | `net/src/connection.rs`, `state.rs`, `error.rs`, `config.rs` | `Connection`, abstractly `Session` |
| A client that follows the protocol | `net/tests/login.rs`, `server_list_ping.rs` | `ClientSession` (composed with `Connection`) |
| Framing and compression | `protocol/src/codec.rs` | `PacketCodec` |
| VarInt, VarLong | `protocol/src/varint.rs` | `VarInt` |
| Field helpers (strings, integers, arrays, optionals) | `protocol/src/buf.rs` | `Fields` |
| Packet definitions | `protocol/src/packets/*.rs` | bodies in `Packets`; ids, direction and the field acted on in `Connection` |
| User names, offline identity | `net/src/offline.rs` | `Packets`; the verdict on a name in `Connection` |
| Status document, text components | `protocol/src/packets/status.rs`, `text.rs`, `version.rs` | in part, in `Packets` |
| NBT reader, writer and tags | `nbt/src/read.rs`, `write.rs`, `tag.rs` | `Nbt` |
| NBT macros | `nbt/src/macros.rs` | not modelled: sugar for `insert` and `NbtList::new` |
| Options, bind interlock, shutdown signal, exit | `server/src/main.rs` | `Server`, composed with `Serve` and `Connection` |

`main` builds a configuration and calls `serve`. `serve` accepts a socket,
takes a permit and spawns `run_connection`, which runs one `Connection` and
drops the permit. A `Connection` reads frames through `Framed<PacketCodec>`
under a read timeout and answers through the same codec, whose lengths and ids
are VarInts. After a login the codec is switched to the compressed layout.

The modules meet where the code does. `Server` composes `main`, `Serve` and one
`Connection` with the actions of those modules: a task drops its permit when
`run` has returned and not before, and an aborted task sends nothing more.
`ClientSession` composes `Connection` and a client. `Connection` takes a frame as
one value whose bytes are `PacketCodec`'s concern, and a body as its kind and
the field acted on; the bytes of bodies are the concern of `Packets`, on top of
`Fields` and `VarInt`. What `Connection` keeps of the layout is exactly what the
switch of formats can confuse (below).

## Modules

**`Connection`** — one connection and an unconstrained peer. A handler suspends
only in `send`, so it is one action up to its first send (`handle_handshake`,
`handle_status_request`, `handle_ping`, `handle_login_start`,
`handle_login_acknowledged`, `UnexpectedPacket`, `DecodeError`), and every send
is a further action (`Send`, `SendFails`): in between the peer may send, read,
close or reset. `todo` holds what the handler has yet to send and `flow` what it
will return. `ReadTimeout`, `ReadEof` and `ReadError` are the other ways
`framed.next()` ends; the timeout applies to the read only, as in `run`.
`outcome` is what `run` returned; a `ProtocolError::Io` is `"Io"`, any other
`ProtocolError` is `"Protocol"`.

A frame records its layout, whether it is well formed, its data length, id and
body. The codec that expects the other layout does not notice: it takes the
first VarInt for the wrong field. `DecodedId` and `DecodedBody` follow that
through, so a plain `LoginStart` for the name `bob` (a body that begins with the
byte 3) read in compressed mode is a `LoginAcknowledged` to the server.

Details left out: the claimed UUID of `LoginStart` and the handshake's version,
address and port are not acted on; serialising the status or the
disconnect reason to JSON cannot fail for these types; the derived UUID is a
function of the name, so identities are compared by name. Whether the status
document fits in a packet depends on the configured message of the day and is
the configuration bit `statusFits`. `config.compression` means a threshold of
zero or more, the only kind `main` passes on.

**`Session`** — what a connection promises: which packets may be sent in which
state and in what order, with nothing about transport, buffers or errors.

**`ClientSession`** — the client of the integration tests, free to pipeline, to
stop in the middle of a frame and to leave. It changes its format when it reads
`SetCompression`, not when that was sent.

**`Serve`** — `pc` is the position in `serve` and `drain`, `conn` the fate of
each connection. A task drops its permit first and becomes joinable afterwards
(`DropPermit`, `Complete`), on another thread, so both happen between any two
steps of the loop; at most `Workers` tasks are between the two. A failed accept
either loses the connection (`AcceptErr`) or leaves it in the backlog, as under a
descriptor limit (`AcceptFails`); it is logged and the loop goes on
(`ErrorLogged`). The count of what is left (`CountRemaining`) and the drop of the
`JoinSet` when `serve` returns (`DropJoinSet`), which aborts it, are two steps, and
tasks still end between them. An abort takes effect at the task's next await; a
poll that is under way touches nothing but its own connection and permit, so it
is taken to have come before.

**`MCServeAbandoned`** — `Serve` with a history variable, `late`: the connections
being serviced at the moment the grace period expired.

**`Admission`** — the loop's promise: never more than `MaxConnections` at once,
nobody admitted after closing.

**`Server`** — `phase` is the place in `main`: `Parse` (the ranges the option
parsers enforce), `CheckBind` (the interlock that keeps offline logins to the
loopback interface unless the option says otherwise), `Bind`, serving, exited.
`Accepting`, `Handling`, `Break`, `Draining`, `DropPermit`, `Complete` are the
actions of `Serve`; `Run` is a step of the tracked connection's task, possible
only while it is running; `Peer` and `PeerRead` are its peer. The tracked
connection stands for any of them. Its peer may start to send while it is still
in the backlog.

**`VarInt`** — the writers, both readers and `varint_len` for any number of
payload bits, width and maximal length. The two readers are separate loops, as
in the code: `read_varint` takes one byte after the other from its input
(`TakeByte`), `read_varint_slice` looks them up by index, so that their agreement
is something to check.

**`Fields`** — the readers and writers of `buf.rs` as operators on byte sequences.
A reader returns a value and the input after it, or an error; `Try` is the `?` of
the code. `Utf8Width` and `Continuations` say which bytes make up a character.

**`Packets`** — a body is a list of fields, and `encode` and `decode` of the ten
packets follow those lists in the order of the code. A packet is encoded here
(`Encode`) or a peer supplies bytes one at a time (`Receive`) and `decode` is
asked after each; what it makes of a request is answered as the handlers do
(`AnswerStatus`, `AnswerPing`, `AnswerLogin`, the last through
`validate_username` and `offline_uuid`), and the client decodes the answer. MD5
and `serde_json` are external: any function of the name, any string made of the
document.

**`PacketCodec`** — `encode`, `decode`, `decompress` and `set_compression` on
byte sequences, and a transport that delivers any fragment of what was encoded
or, from another peer, any bytes (`ArbitraryByte`). `capacity` is the memory
allocated for the read buffer: a `reserve` it has no room for makes it as large as
asked for and at least doubles it, and the part of a frame that was split off
falls to it again. `flate2` is external:
repetitive data shrinks, other data grows by a header, a malformed stream is an
error, and no more than the requested number of bytes comes out.

**`Nbt`** — the document tree, the writer and the reader as recursive operators,
one per function or loop of the code, at byte level with scaled-down integers. A
document is built (`Insert`, `IntoCompound`, `IntoList`), written and read back
(`Write`), or a peer supplies bytes (`Receive`) and the reader is asked after
each. A float is its bits; UTF-8 is a set of bytes no string may contain. The
capacity reserved in advance for a list is not modelled.

**`ServeProofs`, `ConnectionProofs`, `ClientSessionProofs`, `ServerProofs`** — the
theorems.

`MC...` modules hold the sets the instances use. Operators marked `Fault:` are
plausible mistakes in the operator that follows them (a dropped guard, a swapped
order, an off-by-one); putting one in place of its neighbour makes TLC refute
the property it is listed with in `PROJECT.json`, which shows that the property
depends on that part of the code.

## Runs

| Run | Configuration | What it shows |
|---|---|---|
| `connection` | `MCConnection.cfg` | Any peer, four frames out of fifteen: the format changes exactly where it is announced (`SwitchPoint`), dispatch and transition tables agree (`TransitionsAgree`), nothing follows a pong or a refusal (`LastWord`), noise is only what the transport causes (`NoiseIsTransport`), a peer whose frame was misread in the old layout is sent nothing more (`MisreadSilences`), identities are confirmed in the order asked for (`IdentitiesInOrder`), and `Session` is implemented (`SessionSpec`). |
| `client_session` | `MCClientSession.cfg` | Client and server agree on the layout of every frame in both directions (`FormatsAgree`), a conforming client is never closed with a warning (`ConformingNotBlamed`), both reach Configuration (`BothConfigured`), and every exchange completes (`ExchangeCompletes`). |
| `serve` | `MCServe.cfg` | Permits are conserved, handles bounded, the outcome exact, refusals justified, `Admission` implemented; shutdown returns though every accept may fail (`ShutdownReturns`), the backlog is taken if accept keeps succeeding (`BacklogTaken`), capacity recovers if connections end (`CapacityRecovers`). |
| `server` | `MCServer.cfg` | A remote peer is logged in only by a process started with `insecure_offline_mode` (`OfflineLoginsDeliberate`); a process that reports a clean drain cut nobody off between two packets (`DrainedMeansFinished`); the permit of a connection comes back once its peer, which reads, sends no further complete frame (`PermitReturns`); the process ends once asked to (`ProcessStops`). |
| `packets` | `MCPackets.cfg` | A packet within the limits of the protocol is read back, whatever follows it (`EncodedReadsBack`); two bodies that read as one packet differ only in the spelling of a VarInt (`AcceptedCanonical`); a verdict is final unless the input was too short (`VerdictFinal`); the client can read every answer, with the identity derived from the validated name, and a login is granted exactly to the names of the class (`AnswersReadBack`); the VarInt readers, the writer and `varint_len` agree on all byte sequences (`VarIntsAgree`). |
| `packet_codec` | `MCPacketCodec.cfg` | However the stream is cut, what is decoded is what was encoded, and what is in between is the encoding of the rest (`FramesAligned`); no packet is left in the buffer (`NothingStranded`). For arbitrary bytes, memory stays within twice the bytes received and one speculative reserve (`MemoryTracksBytes`) and no packet exceeds the limit (`DecodedWithinLimit`). |
| `nbt` | `MCNbt.cfg` | A document that is read is sound and within the limits (`DecodedSound`) and is the only reading of its bytes (`Canonical`); one that is written is read back (`WrittenReadsBack`); reader and writer mean the same by `MAX_DEPTH` (`WriterDepth`); a verdict is final unless the input was too short (`VerdictFinal`). |

Five runs show where a comment and the code differ; TLC finds the behaviour.

| Run | Behaviour |
|---|---|
| `configuration_unearned` | `LoginAcknowledged` straight after the handshake reaches Configuration; no `LoginSuccess` was sent. |
| `blocked_send` | The read timeout does not cover a send, so a peer that stops reading keeps its connection. This is why `PermitReturns` assumes a peer that reads. |
| `abandoned_count` | A connection that has ended and dropped its permit, but whose task is not yet joinable when the grace period expires, is counted as abandoned. |
| `largest_packet` | `encode` limits the uncompressed length only; an incompressible packet near the limit becomes a frame `decode` refuses. |
| `string_limit` | `read_string` compares the length in bytes with three times the limit in characters, so a string of ASCII characters three times too long passes. |

Five smaller observations have no run of their own. Every complete frame starts
the read timeout anew and a `LoginStart` may be repeated, so a peer that keeps
sending valid ones keeps its permit; `PermitReturns` is therefore stated for a
peer that at some point sends no further complete frame (the bound on its frames
would hide this otherwise). A second `LoginStart` is answered by
a second `SetCompression`, which by then is compressed; `SwitchPoint` is
therefore stated for the first. The empty packets `StatusRequest` and
`LoginAcknowledged` are handled without `decode_as`, so bytes after them pass.
The encoders do not check the limits the decoders enforce; a status document
longer than the client's limit is sent as it is (`EncodedReadsBack` is stated
for packets within the limits). And the NBT writer has no node budget: a document of more than
`MAX_TOTAL_NODES` tags is written without complaint and refused by the reader,
which `WrittenReadsBack` states as its one exception.

### Bounds

* `connection`: four frames reach every pair of a state and an id and let
  a login be repeated after the switch (handshake, login, login, acknowledge);
  two buffered frames let a handler run to its end without the peer reading,
  and block with a third. The fifteen frames include each packet in both
  layouts where the server may meet it, trailing bytes, an unsound frame and
  bodies whose first VarInt is another packet's id.
* `blocked_send` uses one frame per packet, three frames, and
  one slot in the transport, so that a second send waits for the peer to read.
* `serve`: with two permits and one worker the `JoinSet` is bounded by 2 + 1 + 1;
  five connections are one more than that.
* `server`: two peers for one permit, so that the tracked one may be refused,
  served or left in the backlog; options on both sides of every check; a
  handshake and a `LoginStart` in either order, answered by two packets over a
  transport with room for one, so that the task can be aborted between them.
* `packets`: 3 payload bits and 7-bit VarInts of up to 3 bytes: the last group has
  bits to spare, as in both real widths. Strings of up to two characters of each
  of the four widths, and one beyond every limit; inputs of up to five, six or
  nine bytes, by packet, hold every field with its neighbours and cut each one
  short.
* `packet_codec`: the buffer's initial capacity (external, tokio-util's `Framed`)
  equals the speculative reserve of `codec.rs`, 8 KiB each in the program; 2
  payload bits and packets of at most 11 bytes, so length prefixes of one and two bytes occur and thresholds fall inside, at the edge of
  and below the packet sizes; seven arbitrary bytes contain a whole compressed
  frame and the beginning of the next.
* `nbt`: depth limit 2, node budget 3, inputs of eight bytes and documents of four
  tags: both limits are met and exceeded on each side, by lists, by compounds and
  by mixtures, and two entries of one name fit in an input.

Deadlock is not checked: a connection that has ended, a server that has
returned and a peer that has used up its bound all stop.

### Fairness

* `Connection`: weak fairness of `ServerNext`: the runtime polls a task whose
  frame, send or timer is ready. Nothing is assumed of the peer.
* `ClientSession`: both programs keep running; the client's leaving and its
  stopping in a frame are left to chance.
* `Serve`: the loop's thread runs and its timer fires. `Break` is strongly fair,
  because `select!` polls its branches in random order and does not pass over a
  ready shutdown for ever. No task has to end and no accept has to succeed;
  `CapacityRecovers` and `BacklogTaken` assume it explicitly, the latter as strong
  fairness of a successful accept, which is possible only between two errors.
* `Server`: the same for `main`, the loop and the tasks. The tracked peer reads
  what it is sent; of the other connections none has to end. Nobody has to press
  Ctrl-C.

## Proofs

TLAPS checks the proofs for every finite set of connections and any number of
permits and workers, and for every set of frames, field values and names and any
bounds. The assumptions on the constants are the `ASSUME`s of `Serve`,
`Connection`, `ClientSession` (the client's frames are among those a peer may
send) and `Server`; TLC evaluates them in the runs.

**`ServeProofs`**: `TypeCorrect`, `PermitsAreConserved`, `JoinSetIsBounded`,
`OutcomeIsAccurate`, `RefusalsAreJustified`, `ImplementsAdmission`. Conservation
is close to inductive; the bound on the `JoinSet` is not, because handles are
reaped only between an accept and the next admission. The invariant bounds the
handles by what can accumulate at each `pc`: after reaping, only running tasks
and at most `Workers` released ones hold handles, and one admission adds one.
The counters are tied to the number of connections with each fate, so counting
lemmas (`CountUpdate`, `CountUnion`, ...) on finite sets carry the steps, and the
outcome follows at the return.

**`ConnectionProofs`**: `SwitchIsWhereAnnounced`, `NoIllegalTransition`,
`NothingAfterLastWord`, `NoiseIsJustified`, `MisreadIsSilenced`,
`ImplementsSession`. The properties speak of what was sent, and what will be
sent depends on a suspended handler. The invariant `IndInv` therefore lists the
situations a running connection can be in (`Active`: waiting, answering a status
or a ping, rejecting a name, announcing compression, accepting a login), each
with its state, its remaining sends and whether an announcement is the last
thing sent; and it says that the codec compresses exactly when a
`SetCompression` has been sent. One lemma per kind of step (`IndHandle`,
`IndSend`, `IndNext`) preserves it. `MisreadIsSilenced` is about frames taken, not
sent, and rests on a second invariant, `LayoutInv`: until the switch, a connection
that will be switched has taken no `LoginStart` but the one it is answering, so a
plain frame after a `LoginStart` was read by the switched codec; and after such a
frame the connection is over or in Configuration, where nothing is answered.

**`ClientSessionProofs`**: `FormatsAlwaysAgree`, `ConformingAreNotBlamed`,
`BothReachConfiguration`. None of the three is inductive: what a frame in the
inbox means depends on how far the server has come, and what the client does
next on what it has read. The invariant `SessionInv` lists the positions of the
exchange (`AtHandshake` ... `AtConfiguration`); each fixes the state, the packets
still to be sent and those sent, and the inbox up to the client's stage.
`WireAgrees` adds what outlives the connection: every frame in the inbox has the
codec's format, and the client's format is decided by whether it has read the
announcement. The switch of formats is safe because `SetCompression` is sent in
a position (`AtReply`) in which the client waits and the inbox is empty. One lemma
per kind of step preserves it (`HandleInv`, `SendInv`, `EndInv`, `ClientSendInv`,
`ClientReadInv`); TLC agrees that `SessionInv` holds in the instance of
`client_session`.

**`ServerProofs`**: `ImplementsServe` and `ImplementsConnection` show that the
whole server's behaviours are behaviours of `Serve` and, for the tracked
connection, of `Connection`, so that every theorem of `ServeProofs` and
`ConnectionProofs` holds in the composition. `OfflineLoginsAreDeliberate` and
`DrainedIsFinished` need facts of several parts at once: the invariant ties the
fate of the tracked connection to the place in `main` that let it connect, to
what was sent, to what `run` returned and to the place in the loop.

Only model-checked: all liveness, which the prover does not reach;
`IdentitiesInOrder`, which filters sequences; and everything about `PacketCodec`,
`VarInt`, `Fields`, `Packets` and `Nbt`, whose statements are inductions over byte
sequences, field lists and trees (the last three are recursive, which the prover
does not support).

## Not modelled

* `nbt/src/macros.rs` and the crate roots: compile-time sugar and re-exports.
* `write_nbt` and `read_nbt` of `buf.rs`: they call the NBT module, and no packet
  uses them yet.
* The text of errors and log lines, the `Display` implementations, and the
  styling fields of `TextComponent`, which the server never sets.
* Capacity reserved in advance for arrays and lists (at most 64 elements): it
  changes no result. The memory of the framing codec is modelled.
* What `flate2`, `serde_json`, MD5, `clap`, tokio and the operating system do inside;
  each is an external operator or an action stated by how it is used. A signal
  that arrives before `serve` listens for it ends the process by default.
* Real time: a timeout may fire whenever its condition holds.
* More than one connection at the level of frames: connections share nothing but
  the semaphore, the `JoinSet` and the configuration.
