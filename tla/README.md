# go-matter in TLA+

A verification project for go-matter, a Matter stack in Go. It models PASE
commissioning (a SPAKE2+ handshake between a controller and a device), the
secure sessions that commissioning installs and the traffic on them, the
message and TLV codecs, and the UDP transport. TLC checks small instances;
TLAPS proves the main safety properties for every value of the constants.

## The system

| part | source | modelled by |
|---|---|---|
| replay window | `session/session.go` | `ReplayWindow`, `ReplayReceiver`, `DecryptCalls`, `AntiReplay` |
| session manager | `session/session.go` | `SessionManager`, `SecureChannel`, `SecureLink` |
| session keys, nonce, AES-CCM | `crypto/session_keys.go`, `crypto/crypto.go` | `SessionManager` (symbolic) |
| SPAKE2+ and passcode derivation | `crypto/spake2plus.go`, `crypto/pbkdf.go` | `Spake2PlusCurve` (arithmetic), `Spake2Plus` (symbolic) |
| controller side of PASE | `commissioning/commissioner.go` | `Commissioner` |
| device side of PASE | `commissioning/commissionee.go` | `Commissionee` |
| what both sides share | `commissioning/commissioning.go`, `messages.go` | `Commissioning`, `PaseMessages` |
| sample programs | `samples/commissioning/*/main.go` | `PASE`, `ControllerProcess` |
| message framing | `message/` | `MessageCodec`, `FrameBuilder` |
| TLV codec | `tlv/` | `TlvElement`, `Tlv`, `TlvTransfer`, `TlvStream` |
| UDP transport | `transport/transport.go` | `Transport` |

A controller calls `StartPASE`. Five messages follow: PBKDFParamRequest,
PBKDFParamResponse, Pake1, Pake2, Pake3. Each side then derives session keys
from the shared secret Ke and installs them in its `SessionManager`. A sender
takes a counter from the session, puts it in the header and seals the payload;
the header is additional data and the nonce comes from it. The receiver looks
the counter up in the session's replay window, opens the payload and only then
commits the counter.

Messages are TLV structures inside frames inside datagrams. Nothing
retransmits, nothing is persisted, and `HandleMessage` of both sides dispatches
on the opcode alone: `State` is written and never read.

## Modules

Sessions:

- **`ReplayWindow`**: `replayWindow.check` as two operators, `Accepts` (the
  verdict) and `Commit` (the effect of the returned closure). The bitmap is the
  set of its one-bits. `WindowSize` stands for the three 32s of the code.
- **`ReplayReceiver`**: one session's `DecryptPayload` with any counters in any
  order. Its three actions are the three ways out of the function.
- **`DecryptCalls`**: `DecryptPayload` in stages (check, open, run the closure),
  by several goroutines that take turns on the session, as the comment on
  `SessionManager` demands of them.
- **`AntiReplay`**: what the receiver promises, without a window. It remembers
  every counter handed up.
- **`SessionManager`**: the session tables of all processes (`sessions`) and
  one operator per method. A key is a term over Ke. A ciphertext is the record
  of what it was sealed with, and only the same key, nonce and header open it.
- **`SecureChannel`**: sending and receiving on sessions. Every frame ever
  sealed may arrive anywhere, at any time and any number of times, or never.
- **`SecureLink`**: two nodes whose sessions are keyed from outside, each side
  at its own time and each secret at most once per side. Headers may be damaged
  on the way.

Commissioning:

- **`Spake2Plus`**: prover and verifier. A point is its discrete logarithm; a
  blinded point gives its logarithm back for the right w0 and an unrelated
  value for any other. Hashes and MACs are injective.
- **`Spake2PlusCurve`**: the same two objects with their point arithmetic, on a
  small curve, and with their methods called in any order. It is the reason to
  believe the algebra that `Spake2Plus` builds in.
- **`Commissioning`, `Commissioner`, `Commissionee`**: the state of both sides,
  one action per exported operation and handler, a network that loses,
  duplicates and reorders, and a restart of either program.
- **`PASE`**: any number of controllers and one device. Two history variables
  record which secrets the device computed (`computed`) and which controller
  verified which secret (`confirmed`).
- **`KeyExchange`**: what PASE promises, without messages. The device makes up
  secrets; a controller takes one that nobody took before; the device takes one
  only after its controller.
- **`ControllerProcess`**: the controller program. `StartPASE` runs assignment
  by assignment in the main goroutine, beside the goroutine that receives.
- **`SecureCommissioning`**: `PASE` and `SecureChannel` on the same session
  tables.

Codecs and transport:

- **`Bytes`**: integers as digits to base 256, so that 64 bits are exact.
- **`MessageCodec`**: `Marshal`, `Unmarshal`, `Encode` and `Decode` of
  `Header`, `PayloadHeader` and `Frame`, byte by byte, with their errors.
- **`FrameBuilder`**: `message.Builder`, its setters in any order, and the
  frames it has handed out.
- **`TlvElement`**: `Writer` and `Reader` of single elements, and their decoding
  into booleans, numbers, texts and byte strings.
- **`Tlv`**: containers, encoder and decoder, as recursive operators.
  **`PaseMessages`** has the Go types of the five messages.
- **`TlvTransfer`**: one Go value from `Marshal` to `decodePayload`, whole, cut
  or followed by other bytes, into the same or another type.
- **`TlvStream`**: a `Writer` and a `Reader` on a stream of elements, nested to
  any depth, that may lose its end. Here the calls of `ReadContainerChildren`
  within each other are a stack (`open`) and every `ReadElement` is a step. The
  history `written` holds, for each call of the `Writer`, the element and the
  trees up to it (`roots` and `open` of a `Reader` that has read that far).
- **`Transport`**: `Send`, the receive loop of `Start` with its reused buffer,
  and `Close`. Arrays are objects on a heap, so that an alias would show.

**`MC*`** are instances for TLC. **`*Proofs`** hold theorems for TLAPS.

Operators introduced by a comment "Mutant" are plausible bugs of the definition
that follows them. `PROJECT.json` names, for every property, the mutant that
makes TLC report it violated.

### Abstractions

- In the handshake a payload is a record: TLV is taken to be injective on the
  five messages. The run `tlv` shows that on values at the boundaries of their
  encodings, and `TlvStreamProofs` proves it for their elements and nesting. A payload that does not decode is refused before any state changes,
  which is the same as losing the frame.
- `SendMessage` is the last thing a handler does, so its failure is a loss.
- Failures of `crypto/rand` are not modelled; what it returns never repeats.
- ExchangeID, AckCounter and node identifiers are written and never read in the
  handshake, and are left out there.
- In the handshake curve points are always valid. `Spake2PlusCurve` has bytes
  that are no point. `elliptic.Marshal` panics on the point at infinity: on a
  small curve that happens, and the side is then `Down`.
- Session 0 passes payloads through unchanged and has no state.
- A handler is one step. On the device the read loop is single-threaded. In the
  controller the receive goroutine reads fields that `StartPASE` assigns,
  without a lock. `ControllerProcess` has every order of assignments and
  handlers; a torn read that ends the program is the fault "controller restart".
- A restart of the controller keeps its port: frames of its earlier life reach
  the new one.
- No code in the library calls `EncryptPayload` or `DecryptPayload` yet.
  `SecureChannel` calls them in the order of `TestPASE_CrossEncryptRoundtrip`.
- `Builder` keeps a raw `[]byte` payload by reference; the model's callers do
  not change it afterwards. `hasPayload` is written and never read, and is left
  out.

## Runs

| run | instance | result |
|---|---|---|
| `decrypt_calls` | two goroutines, window 3, counters 1..8 | holds, 102,697 states |
| `replay_once` | as `decrypt_calls` | violated, finding 1 |
| `secure_link` | two nodes, two secrets, window 2, counters up to 4, 5 frames | holds, 65,497 states |
| `pase_retry` | one controller, right and wrong passcode, 2 calls, 2 faults | holds, 1,212,974 states |
| `pase_wrong_passcode` | one controller, two attempts | violated, finding 3 |
| `controller_process` | one controller that retries, 5 calls, 2 faults | holds, 38,291 states |
| `secure_commissioning` | two controllers, 2 calls, 1 fault, 2 sealed frames | holds, 121,323 states |
| `reinstall_nonce` | one controller, a duplicated Pake3 | violated, finding 2 |
| `spake2plus_curve` | a curve of order 7, 4 passcodes, 2 contexts, 2 draws per side | holds, 186,980 states |
| `frame_builder` | 4 setter calls, 2 builds | holds, 249,418 states |
| `tlv` | the PASE messages, versions of them, streams of 3 elements | holds, 759,432 states |
| `transport` | 3 datagrams, 1 duplicate, a buffer shorter than one of them | holds, 94,059 states |

What they ask:

- `decrypt_calls`: a closure that `check` made is still right when it runs
  (`CallsInv`), so a call is as good as one step (`AtomicCalls`). The window
  describes exactly the delivered counters (`IInv`), refuses nothing fresh
  (`FreshAccepted`) and accepts nothing twice (`NoReplayInsideWindow`), except
  at one distance (finding 1). All this is the abstract promise
  (`KeepsPromise`, which is `AntiReplay`'s specification).
- `secure_link`: nonces are unique, payloads come from the peer, windows move
  on delivery only, nothing is delivered twice, and fresh frames open; across
  replaced sessions, exhausted counters, reflected and damaged frames.
- `pase_retry`: Complete means that the session of Ke is installed; both sides
  agree on Ke; a controller only verifies what the device computed; the device
  only installs what one controller verified. Attempts overlap: nothing cancels
  the messages of an abandoned one.
- `controller_process`: nothing the receive goroutine does during `StartPASE`
  tells its assignments from one step (`StartIsAtomic`: the program implements
  `PASE`). Leftovers of dead attempts never block the next one
  (`EventuallyComplete`), and without faults the first attempt succeeds.
- `secure_commissioning`: a delivered payload was sealed by the party that
  verified the same secret, whoever else uses the same hard-coded session
  identifiers; two controllers on the device's single transcript and verifier
  are still an abstract key exchange (`KeepsExchange`). Neither side installs a
  secret twice (`ChannelInv`), so no nonce is repeated (`NonceUnique`) and
  nothing is handed up twice (`NoRedelivery`). Duplicates of Pake3, which break
  this, are left to `reinstall_nonce`.
- `spake2plus_curve`: both sides have the same Ke exactly when points, context
  and passcode agree, and a verified Ke stays, whatever is called afterwards.
- `frame_builder`: a receiver sees what the caller asked of the `Builder`, a cut
  datagram never shows other headers, the first error stays, and a frame handed
  out never changes.
- `tlv`: fields arrive under their numbers or stay zero, between programs of
  different versions too; the beginning of a message is never taken for one;
  tags stay in step; numbers arrive exactly or are refused; nested elements
  arrive in their places (`TreesArrive`), and one that lost its end, at any
  byte and any depth, is not taken for complete (`CutTreeRefused`).
- `transport`: a frame a handler keeps survives the reuse of the buffer, every
  datagram is served whatever came before it, and `Close` ends the loop.

A datagram longer than the receive buffer is cut without a sign. `KeptIsSent`
says that its headers are right and its payload is a beginning; `CutIsRefused`
says that the TLV decoder refuses such a beginning, and `CutTreeRefused` that
its `Reader` does.

### Bounds

- The window's cases depend on distances only. A window of 3 with counters to 8
  has jumps below, at and beyond the window size and late counters at every
  bit. With window 2 and counters to 4, `secure_link` also reaches exhaustion.
- `MaxCalls` bounds `StartPASE` and `StartCASE`. Two calls give one abandoned
  and one current attempt, or one attempt per controller.
- The two controllers of `secure_commissioning` are symmetric: they run the same
  program, know the same passcode, and only safety is checked.
- `MaxFaults` bounds losses, duplicates and restarts; `FaultKinds` picks them. A
  delayed frame is not a fault: the network is unordered.
- In `controller_process` two faults take five calls: a restarted program calls
  `StartPASE` at once, so one restart can cost the attempt it kills and the
  next one, which meets what the first left behind.
- The curve is y² = x³ + 2x + 1 modulo 5, of prime order 7. The scalars are 0,
  1, 3, 5 and 8, so unreduced and zero scalars occur, and of the passcodes one
  shares w0 with the right one and one has w0 = 0.
- `FrameBuilder`: four setters reach every pair of setters that share a flag
  byte, before and after a first `Build`.
- `Tlv`: numbers at the limits of 1, 2, 4 and 8 bytes, byte strings around the
  lengths 255 and 256, nested structures, slices and pointers. Left out are
  values the encoder and decoder do not agree on, see "Notes".
- `TlvStream`: three elements, apart from ends of containers: two levels of
  nesting, a container beside another, and an element before and after each.
  Every number is also written in each wider form.
- `Transport`: a buffer of 22 bytes stands for the 2048; one frame is longer.
  Three datagrams give one that is kept, one that overwrites the buffer and one
  that is noise.
- Deadlock checking is off where the bounds, or a finished or stalled handshake,
  stop the system.

### Fairness

- `controller_process`: the main goroutine runs; the loop of
  `TransportManager.Start` handles what arrives; a user has `StartPASE` called
  again when an attempt has died. The code never retries by itself, so without
  the last one a lost frame stalls the handshake.
- `transport`: the goroutine of `Start` runs and handlers return. Nothing is
  assumed of senders, the network or `Close`.

## Findings

1. **A jump of exactly 32 forgets the old maximum** (`session.go:196`). The
   bitmap is cleared for `shift >= 32`, but a counter 32 behind is still inside
   the window (`:203`). The old maximum is accepted a second time.
2. **A duplicated Pake3 reinstalls the same keys** (`commissionee.go:156`). The
   verifier stays usable, and the install resets the outbound counter and the
   replay window. The next sealed frame repeats a nonce.
3. **A late Pake2 completes another attempt** (`commissioner.go:51`).
   `StartPASE` keeps the old prover, so a controller can be Complete while its
   current passcode is wrong. The session it gets is still a genuine one
   (`CommissionerKeFromDevice` is proved).

`PROJECT.json` quotes the lines that each one disagrees with.

### Notes

Smaller things met while modelling; no code in the repository depends on them.

- `bumpCounter` takes 0 for "not seeded", also after a wrap
  (`commissioning.go:70`). Nobody reads the counter of an unsecured frame.
- A nil pointer field without `omitempty` is written as a control byte that
  announces a tag, without the tag (`encoder.go:50`). The one pointer field of
  the messages is `omitempty`.
- The encoder skips fields tagged `tlv:"-"`; the decoder returns an error for
  them.
- Of the two fully qualified tag forms the reader takes eight bytes for both,
  the writer six for the short one (`tlv.go:135`). Profile tags cut their
  identifiers without an error.
- A `Put` that fails leaves its control byte in the `Writer`. `Marshal` drops
  it, a direct user does not.
- After Complete a duplicated PBKDFParamResponse starts a new Pake1, and the
  controller's `State` goes back. Ke and session stay, as `PASEInv` says.

## Proofs

The theorems about state machines are of the form `Spec => []P` or `Spec =>
Abstract`, by an inductive invariant.

- **`DataProofs`**: lemmas on the data that several proofs share. On `Bytes`:
  what slices, widths and byte orders do to each other, for every length. On
  `Accepts` and `Commit`: if a window describes a set of counters, then after
  `Commit(w, c)` it describes the set with `c` added. The last bitmap position
  carries only one implication: this is where finding 1 hides.
- **`SessionProofs`**: for one receiver, `IInv` is type correctness and
  `Describes(window, accepted)`. It gives `FreshAccepted`,
  `NoReplayInsideWindow` and the refinement of `AntiReplay`. None is inductive
  alone, as all speak of the history and the bitmap decides. For the stages of
  a call, `CallsInv` says that the closure in hand is the one `check` would make
  now. From it the stages refine `ReplayReceiver`, and with it `AntiReplay`, for
  any number of goroutines. For two nodes, `LinkInv` ties sessions to installed
  secrets (`SessionsKeyed`), sealed frames to keys and to the counter of their
  session (`FramesKeyed`) and windows to delivered frames (`WindowsDescribe`).
  From it follow `NonceUnique`, `DeliveredFromPeer`, `NoRedelivery`,
  `WindowOnlyDelivered` and `FreshDeliverable`. `Install` is the hard step: it
  needs the secret to be new on its side, which finding 2 shows PASE does not
  provide.
- **`PASEProofs`**: `PASEInv` says that a controller's provers have scalars of
  their own, that a prover is finalized once, that Ke belongs to the session in
  the table and, while Complete, to the current prover or verifier, and that
  every Pake2 and Pake3 in flight carries a computed or verified secret. It
  gives `CompleteHasSession`, `KeAgreement`, `CommissionerKeFromDevice` and
  `DeviceKeConfirmed`, for any number of controllers, attempts and faults. From
  it `PASE` implements `KeyExchange`: every handler is a step of it or a
  stutter, and `handlePake2` takes a secret that is new because its pA is.
- **`ControllerProcessProofs`**: `StartAtomic`, the refinement of `PASE` by the
  controller program. The mapping shows a Commissioner as `StartPASE` found it
  until the request has left. `ProcessInv` says that up to then it differs from
  that one by exactly the assignments so far (`UnderWay`), and that a frame on
  its way to it can only meet a program that has just started: after a dead
  attempt nothing is in flight. Such a frame is refused: there is no prover, and
  the random value of every request and response in flight was drawn before
  (`NetUsed`) while the one in the Commissioner was not. So a handler does the
  same to the half-assigned Commissioner and to the one that `StartPASE` found,
  namely nothing. The six assignments are stutters; sending the request is
  `StartPASE` in one step.
- **`Spake2PlusCurveProofs`**: `KeAgreement` and `KeStays`, the two properties of
  `spake2plus_curve` on every curve whose points form a group of prime order,
  P-256 in particular. The algebra rests on k(q + r) = kq + kr, j(kq) = k(jq)
  and the fact that scalars below the order can be cancelled. These are proved
  by induction over the scalar; as no induction rule can be instantiated here,
  `Least` and `Induction` derive one for sets of numbers from the
  well-foundedness of inclusion on finite sets. The invariant adds to the two
  properties what the keys were computed from, as a second `ComputePB` replaces
  the points but not the keys, and that a side has returned no confirmation but
  that of its keys.
- **`SecureCommissioningProofs`**: `TrafficInv` adds to `PASEInv` that every
  session, every sealed frame and every delivered frame has a key of a verified
  secret, also those that outlived the attempt they come from. `PASEInv` alone
  speaks only of the current Ke. The traffic keeps `PASEInv` because it changes
  counters and windows, never keys; the handshake keeps the rest because
  `confirmed` only grows. As the two directions have different keys, `EndToEnd`
  follows, duplicated Pake3 included. `NonceUniqueAfterPASE` and
  `NoRedeliveryAfterPASE` assume that no Pake3 is duplicated; finding 2 is why.
  Their invariant `ChannelInv` adds that a Pake3 in flight is the only one of
  its exchange and that its secret is unused on the device (`Pake3Unused`),
  that no counter is behind a frame of its key, and that the windows describe
  what was handed up. The step to prove is the install: the controller's secret
  is new because its pA was not verified before, the device's because of
  `Pake3Unused`.
- **`FramesProofs`**: frames of any content and length, from `Builder` to the
  handler. For the codec: `RoundTrip` (`Decode` of `Encode` is the identity on
  canonical frames), `DecodeKeepsAllBytes` (`Encode` of what `Decode` accepts
  gives the same bytes) and `CutDecode` (bytes that lost their end show the same
  headers and a beginning of the payload, or do not decode). The lemmas cut the
  wire into its fields, flag by flag. For `FrameBuilder`: `BuilderInv` says that
  the flag bytes and the optional fields of the frame agree with what was asked
  for, in the `Builder` and in every frame handed out. That makes the frames
  canonical, so the codec's theorems give `AskedIsSeen` and `CutKeepsHeaders`;
  `FirstErrorStays` and `BuiltFrameStable` follow too, for any number of calls.
  For `Transport`: `TransportInv` says that between the read and the decode the
  first `n` bytes of the buffer are those of the datagram, and that the payload
  of every kept frame lies in an array of its own. `KeptIsSent` follows from
  `RoundTrip`, or from `CutDecode` for a datagram longer than the buffer.
- **`TlvStreamProofs`**: `TagsInOrder`, `NumbersExact`, `TreesArrive` and
  `CutTreeRefused`, for streams of any length and nesting and all values. The
  first half is about one element. `Encodes(bytes, elem)` says that
  `ReadElement` takes exactly `bytes` and returns `elem`, whatever comes after
  them, and fails on every beginning of them; the lemmas show it of all that the
  `Put` methods, `StartContainer` and `EndContainer` write, tag form by tag form
  and width by width, and `Means` that decoding gives the value back or is
  refused for its size. The second half is about the stream. `StreamInv` says
  that the stream is a chain of such encodings (`Chain`), that the `Reader`
  stands between two of them, and that its `open` and `roots` are those the
  `Writer` had there. `TreesArrive` alone is not inductive: it says nothing of
  the containers that are still open, nor of where the next element begins.
  `CutTreeRefused` needs that an earlier point of the chain has fewer roots than
  the end of it when no container is open there (`Earlier`).

Assumptions: window size and counter bounds are positive; the device is not a
controller and its passcode is a passcode; the two hard-coded identifiers are
session identifiers; the two nodes of a link have different roles; `Nil`,
`NoSession` and `Nobody` are not values of the types they stand beside. The
arguments of a `Builder`'s setters have the widths of their Go types and a
payload that can be marshalled is bytes (`BuilderAssumption`); `tlv.Marshal`
itself is a parameter of `FrameBuilder`. The frames sent are canonical, which is
proved of a `Builder`'s, and datagrams of other programs do not decode
(`TransportAssumption`): one that does is a frame like any other. The points of
the curve are a commutative group of prime order with `spakeNegateY` as its
inverse, which is what `crypto/elliptic` promises of P-256 (`GroupAssumption`).
The elements of a TLV stream are those that `Writer` and `Reader` agree on
(`StreamAssumption`, see "Notes"): tags are not fully qualified and profile tags
fit their form, texts and byte strings have less than 2^31 bytes, and a nil is
anonymous, as in an array. A `Writer` ends no container it has not started,
which `encodeContainer` and `encodeStruct` see to.
TLC evaluates these assumptions on the instances of the runs; on the curve of
order 7 that is a check of the chord and tangent rule. The symbolic view of
hashes, MACs and AES-CCM is built into the operators.

Model-checked only:

- Liveness (`EventuallyComplete`, `FaultFreeCompletes`, `EveryDatagramServed`,
  `CloseEndsStart`), which is out of the prover's reach.
- `FieldsArrive` and `CutIsRefused`, which are about Go values. `Marshal` and
  `Decode` recur on the nesting of types, and what a recursive operator computes
  cannot be proved here. `TlvStreamProofs` has what can: the same bytes element
  by element, where the recursion of the `Reader` is a stack.

## Not modelled

- `discovery`, `interaction`: stubs, whose methods return at once.
- `model`, `datamodel`: type declarations, and a `DataStore` that looks entries
  up and changes nothing.
- `NonceGenerator` (`crypto/crypto.go`): nothing uses it, and its `NextNonce` is
  `NextOutboundCounter` followed by `BuildNonce`, which are modelled.
- In `tlv`: interfaces, a target of type `Element`, and the unused `checkType`.
- PBKDF2, HKDF, SHA-256, HMAC and AES-CCM as computations.
- `unackedMessages` of the transport: declared and never written.
