# TLA+ models of Trelis

Trelis is a Rust workspace of cryptographic protocol crates: a pairwise KEM
ratchet (`trelis-ratchet`), a group key agreement (`trelis-cocoa`, "CoCoA"),
session establishment (`trelis-x3dh-pq`), multi-device support
(`trelis-multidevice`), the hybrid schemes and primitives below them
(`trelis-hybrid`, `trelis-primitives`) and a WebAssembly binding above them
(`trelis-wasm`). The modules here model what a session or a device remembers,
which message, commit, record or share it accepts, in which order fields change,
what survives a failure, a crash or a restore, and, for the primitives written in
this repository, the arithmetic and the control of key generation, signing and
decoding.

In the protocol modules cryptography is ideal: a key is a symbol, a hash is the
tuple of its inputs, a tag verifies exactly when both sides derived it alike, and a
signature is not forged. In the primitive modules only the hashes are.

Paths below are relative to `src/crates/`.

## 1. Inventory

| Component | State it keeps | Operations | What is hard |
|---|---|---|---|
| Pairwise ratchet (`trelis-ratchet`) | current keypair, up to `MAX_PREVIOUS_KEYPAIRS` earlier ones, peer key, root key, two counters, status | `init_*`, `send_message`, `receive_message`, `mark_compromised`, `zeroize` | both directions advance one root key; crossing, late, repeated messages; counters at the exhaustion threshold |
| Wasm ratchet binding (`trelis-wasm`) | the state blob, held by the host | `ratchet_init_*`, `ratchet_send`, `ratchet_receive` | each call rebuilds the ratchet from the blob; a blob may be lost after the message left |
| CoCoA channel (`trelis-cocoa` `session.rs`, `epoch.rs`, `session_watermark.rs`) | epoch number and secret, message counter; the session blob and the watermark outside | `encrypt`, `decrypt`, `advance_epoch`, `restore_session_checked` | the counter is the nonce: crashes, stale blobs, two durable writes |
| CoCoA group (`trelis-cocoa` `operations/`) | partial tree view, keypair, epoch, transcript, member registry | `create_group`, `process_welcome`, `create_update`, `add_member`, `remove_member`, `process_update/add/remove` | concurrent commits in any order, half-way failures, growth of the tree, partial views; what a server may put together |
| Ratchet tree (`trelis-cocoa` `tree/`) | node states by index | growth, blanking, unmerged leaves, resolution, paths | index arithmetic across growth; resolution over a partial view |
| Wasm group binding (`trelis-wasm`) | the session blob, held by the host | every `cocoa_*` call | a call starts from the blob alone: no tree, no registry, two formats, two doors |
| Session establishment (`trelis-x3dh-pq`) | none between calls; one-time keys outside | bundle builder, initiator, responder | repeated first messages, altered bundles, a responder's host that is wrong |
| Retained message keys (`trelis-multidevice` `settings.rs`, `history.rs`) | a sorted, bounded list of keys per thread | `retain_key`, `merge`, `prune_before`, `clear`, share | order, deduplication and the cap together; a share older than a prune |
| Signed records (`approval.rs`, `revocation.rs`, `recovery.rs`, `identity_cert.rs`, `one_time_key.rs`) | none between calls; pinned key, device list and nonces at the caller | make and verify | spliced, repeated or re-homed records; time windows |
| Safety numbers (`safety_number.rs`) | none | three derivations, QR string, digits | each side derives from its own view |
| Hybrid signature and KEM, key wrap (`trelis-hybrid`, `device_key_wrap.rs`) | none | composition of two schemes | halves exchanged, other encodings of one value |
| Locked memory (`memlock.rs`) | page protections and locks | build, read, zeroize, drop | system calls that fail; pages shared by boxes |
| sntrup761, ML-DSA (`trelis-primitives`) | none; an output stream with a cache | key generation, (de)capsulation, sign, verify, codecs | division-free arithmetic, the rejection loop, hints, codecs at their bounds |
| Wire encoding (`trelis-wire`, hand-written layouts) | a buffer and a position | read, write, to and from bytes | lengths at the limit of `usize`, cut or padded input |

How they interact. The host application owns all storage and the network. It
calls a session with what the server delivered, persists what the call left behind,
and releases what the call returned; the library has no threads, clocks or callbacks
of its own. The interleavings are therefore those of hosts, of devices, of the server,
and of the points at which a host can stop; and, in `memlock.rs`, those of the threads
of one process. A CoCoA session gets its tree nodes from the host (`tree_mut`), its
keys from prekey bundles, and its epochs from commits of other members.

What makes each component correct:

- ratchet: the fields of an end always belong to one session state; equal root
  keys imply agreement on everything else; divergence cannot be mistaken for progress;
- channel: one key and nonce protect one message, through crashes and restores; a host
  that saves the blob first can always reload its newest blob;
- group: members with one epoch secret went through the same commits; a commit
  of another branch, a repeated or a late one, or one put together from two, changes
  nothing; what a removed member holds opens nothing later; node indices mean the same
  to members with the same history; nobody is added twice;
- wasm group sessions: a session reads exactly the messages of its own history, however
  often it was saved and restored, and never seals twice with one key and nonce;
- retained keys: the most recent ones, sorted, at most the cap;
- records: accepted exactly as they were made; trust moves only along an account's own
  rotations and approvals;
- establishment: one session or different keys; a published bundle, within its times;
- memory: no secret is freed, no lock or page leaked, whatever fails;
- primitives: what was made is accepted and recovered, what was altered is not;
- bytes: what was written is read back, or an error, and no read leaves its buffer.

`PROJECT.json` lists the hazards line by line with the properties that cover them.

## 2. Modules

| Module | Role |
|---|---|
| `KemRatchet` | two ends, native or wasm, and an asynchronous network |
| `NonceOnce` | abstract: a (key, nonce) pair protects at most one message |
| `CocoaChannel` | one member's `encrypt`/`advance_epoch`, blob, watermark, checked restore, crashes |
| `RatchetTree` | operators: indices, partial view, growth, resolution |
| `CommitTree` | abstract: members step along one tree of commits |
| `CocoaGroup`, `MCCocoaGroup` | several group sessions over an untrusted delivery server |
| `MCMessaging` | one run of `KemRatchet`, `CocoaChannel` and `CocoaGroup` |
| `CocoaSession` | operators: key schedule, epoch, sealing, the wasm blob and its two doors |
| `Commits` | operators: what commits and welcomes consist of, sign and check |
| `WasmGroup` | the group calls of the wasm binding and the hosts that keep the blobs |
| `CommitWire` | commits and welcomes through a server that mixes them |
| `RetainedKeys` | key stores of the devices of one account, with shares |
| `Accounts` | signed records, and a relying party that follows them |
| `SafetyNumbers` | numbers, QR strings and digits of two users |
| `MCDevices` | one run of the five modules above |
| `Establishment` | bundles, initiators, a responder, server and network between them |
| `WireFormat` | `Encoder`, `Decoder` and the layouts written by hand |
| `LockedMemory` | boxes over the pages of one process, by system call |
| `MCEstablishment` | one run of these three |
| `FqArith`, `SntrupCodec`, `Sntrup`, `SntrupWire` | sntrup761: machine-word arithmetic, the codec, the KEM on a small ring, the codec at its real size |
| `MlDsa`, `Sampling` | ML-DSA on a small ring; the samplers over their streams |
| `HybridSignature`, `HybridKem` | the hybrid schemes, plain schemes and key wraps over ideal halves |
| `MCPrimitives` | one run of the last eight |
| `KemRatchetProofs`, `CocoaChannelProofs`, `CocoaGroupProofs`, `EstablishmentProofs`, `PrimitivesProofs`, `DevicesProofs`, `AccountsProofs`, `HybridProofs` | the theorems of section 5 |

An MC module that runs several modules at once picks one of them as the `subject` of
each behaviour and leaves the others at an initial state; the modules stay independent.

### KemRatchet

Each field of `KemRatchet` (state.rs) is a variable indexed by party.
`last_activity` is left out, as nothing reads it to decide; so is the status
`Stale`, which no code sets (it stays in the type). A root key is the sequence of
inputs hashed into it, with `INIT` for an application of
`derive_initial_root_key`, so equality of sequences is equality of derivations.
`net` only grows: a message may be taken late, again, or never. `points` is a
history variable, the session states that sends created.

`Send` and `Receive` are the whole of `send_message` and `receive_message`. For a
party in `wasm` each call starts by loading the blob, and `LoadedRoot`,
`LoadedPrevious`, `LoadSucceeds` say what `deserialize_ratchet_state` makes of it:
it passes the root key through `init_responder` and so through the initial
derivation once more, drops the retained keypairs, and refuses a send counter at
the threshold. `SendUnsaved` is a `ratchet_send` whose message left and whose blob
was lost. A rejected message is a stutter: `receive_message` changes nothing
before the tag verifies. A `ratchet_receive` whose blob is lost is a stutter too.

`turns` says what the hosts do: hosts that take turns send only when they have taken
everything the peer sent, and lose nothing; other hosts do as they please.

### CocoaChannel

`live` is the session in memory, `disk` the newest blob, `blobs` every blob storage
may return, `mark` the durable watermark, `pending` the ciphertexts encrypted and
not yet released. `SaveBlob`, `SaveWatermark`, `ReleaseCiphertext` and `Crash` are the host's
steps and may come in any order between the library's. The host keeps the caller
contract of `restore_session_checked`: it loads through the checked door only and
releases a ciphertext once the watermark past it is durable. Whether the blob is saved
before the watermark, which the contract leaves open, is chosen in the initial state.
The epoch secret is the sequence of commits mixed into it, so one epoch number can
carry two secrets.

### RatchetTree and CocoaGroup

A view is a partial function from node index to `[key, unmerged]`, with the tree
depth and the member count; `NoKey` marks a blank node and absence from the domain
a node the view does not hold, a difference `complete` depends on. `resolve` is
written as the set of nodes reachable through blank nodes instead of by recursion.

A session is a record of `CocoaSession`'s fields. `secret` is the sequence of delta
roots mixed into the epoch secret and `transcript` that of the rounds hashed into
the transcript; the library advances both in one call (`advance_epoch`) and checks
only the second (the confirmation tag), and `MembersWalkOneTree` relates them.
`commits` holds every commit handed to the server: any session may process any of
them at any time, and more than once, so delay, loss, repetition, reordering and
rivals for one epoch are all there. A rejected commit is a stutter, as each
`process_*` validates before it changes the session (`process_add` on a scratch
copy, `process_remove` with the leaf blanked on one).

The creating handlers write to the session before their last fallible step, so each
has a variant that fails: `Fail` records what was already written (growth for
`add_member`, growth and the member count for a failure after step 8, the blanked
leaf for `remove_member`, the rotated keypair for `create_update`). An update that
fails before the rotation changes nothing.

Node keys: operation number n puts the key `<<n, level>>` on its path. What
`apply_path_updates` does with a chain of seeds reduces to whether some level holds
a seed for the session's keypair; the delta root it then derives is the
committer's. `verify_parent_hashes` compares h1 by the sibling's key, and h2, where
the view is complete, by recipient positions and keys.

Outside the library, marked external: what a host puts into the tree of a new
session (`HostNodes`: nothing, or the leaves of the founders under blank nodes) and
which members and positions it can name in a removal (`Roster`).

### CocoaSession, Commits, WasmGroup, CommitWire

`CocoaGroup` abstracts commits to what members agree about. `CocoaSession` and
`Commits` go the other way: every key, hash and signature is the tuple of what the code
feeds it (`key_schedule.rs`, `epoch.rs`, `commit_sign.rs`, `seed_encrypt.rs`), so which
field is bound by which check is a matter of the definitions and not of an assumption.

In `WasmGroup` each call takes the blob its host goes on from, rebuilds a session
(`deserialize_cocoa_session`: empty tree, registry of one), runs one operation and
returns a new blob. A failing operation leaves the old one. `stored` keeps every blob
the host was ever given, with, as history, how its secret came to be; the host may start
from any of them through the checked door and may look up the watermark of another of
its sessions. Blob and watermark are one step here; `CocoaChannel` separates them. The
host takes each welcome once, since the handlers keep no record of the welcomes they
processed. Commits are what `serialize_*_commit` leaves of them: without their path.

In `CommitWire` three founders hold sessions of two groups, one of which has forked;
two of them commit and welcome, and what is handed over is made of two wires: up to two
fields exchanged, one path node exchanged, or the last two fields of a welcome split
elsewhere. The receiver's host may name either committer.

### RetainedKeys, Accounts, SafetyNumbers

A retained key is its message, which decides the key, the sequence number and the time.
`keys` is the bounded vector itself: a binary search that finds the same sequence number
may insert before or after it, a reload from the wasm blob inserts key by key, and a
share may arrive late or repeatedly. `offered` is history: what was given to the store
since the last removal.

In `Accounts` a record is its fields, and its signature the text the `signing_data` of
the code builds under one key. The server puts together any fields and signatures it has
seen. Verification of each kind ends a behaviour (`Check*`, which compares the verdict
with who made what); `Take*` are relying parties that keep the pinned identity key, the
listed devices and the consumed nonces, as the caller contract of `approval.rs` asks.

In `SafetyNumbers` a digest is the sequence of what was hashed, in lexicographic order:
any total order may stand for that of hash values. Digits and Base64 are computed.

### Establishment and WireFormat

`PublishBuilt` is `PreKeyBundleBuilder` and `x3dh_create_bundle` the wasm call, which
check different things. What the server hands out may have any field or signature of
another bundle, or a validity it invents. `Accept` is `Responder::establish` on any first
message ever sent, with whatever its host passes in for the initiator's keys, the bundle,
the one-time key and the flags. `deletes` says whether the host deletes used one-time
keys, which only a comment asks.

In `WireFormat` a byte is a digit of a small radix and `usize` is as wide as a length,
as on wasm32, so that lengths at the limit of `usize` are reachable. A writer makes calls
of the `Encoder` until one fails; the reader makes the same calls on bytes that were cut,
extended or altered in one byte. A failed `write_length_prefixed` leaves its length behind
and a failed `read_length_prefixed` has consumed it; the model does the same. The layouts
are those of messages, keys, shares and notices; every byte is a valid key.

### LockedMemory

Addresses are cells, `page_size` of them to a page. A box is built and dropped one system
call or one run of writes per step, by a thread of its own. `mlock` fails above the limit,
`mprotect` may fail at any call, `munlock` does not count. `crashed` is a write to a page
without permission.

### Primitives

`Sntrup` runs key generation (with its retries), encapsulation, an altered ciphertext and
decapsulation over a ring of P = 9, Q = 67, with the transform, the Karatsuba product and
the reciprocals of `poly.rs` and `fq.rs` compared with their definitions; `SntrupWire`
runs the codec at P = 761, Q = 4591 on chosen polynomials with a byte changed. `MlDsa`
runs the rejection loop over a ring of N = 4, q = 97; what is squeezed from a hash is
drawn from a small set and remembered. `Sampling` reads bytes as positions of a stream.
`HybridSignature` and `HybridKem` have both halves ideal and let everything else vary.

## 3. Runs

| Run | Question | Bounds |
|---|---|---|
| `messaging` | ratchet: do the fields of each end stay one session state, is divergence final, is a mixed pair mute, and between hosts that take turns does every message decrypt and get taken? | both native, both wasm or mixed; 6 sends, threshold 4, 2 retained keypairs |
| | channel: nonce uniqueness and the refinement of `NonceOnce`, writes in either order; with the blob saved first, is the newest blob always accepted? | 2 epochs, 2 rival commits, 3 messages |
| | group: the group properties and the refinement of `CommitTree` | 3 founders online, 1 newcomer, 3 operations, 1 failure |
| `ratchet_crossed`, `ratchet_exhausted`, `ratchet_rederive` | three statements of the docs that the code does not keep | 3 or 4 sends, threshold 3 |
| `channel_lockout`, `channel_two_instances` | two statements of the docs that the code does not keep | 2 messages |
| `group_updates` | can a member that stands where an update was made take it? | 2 founders, 2 operations |
| `devices` | retained keys | 2 devices, one of them wasm; a store of 2, 4 messages of which 2 share a sequence number, 1 share in flight per device |
| | signed records | 2 accounts with a common key, 2 records made, times up to 2, window 1 |
| | safety numbers | 2 x 2 identity halves, device lists of up to 2, fingerprints of 5 bytes, 2 threads |
| | wasm groups | 2 users in one group of 3, one of them alone in a second; an older blob for one; epochs up to 1, 1 draw, 2 messages |
| | commit wires | 3 founders, 2 of them committing, 1 receiving; 3 places with a fork; 2 things made |
| `wasm_updates`, `added_welcome` | two statements of the docs that the code does not keep | as `devices` |
| `establishment` | sessions | 1 responder, 2 initiators, 2 one-time keys, 2 bundles, 3 sessions, times up to 1; symmetric initiators and keys |
| | bytes | radix 6, lengths of 2 bytes, buffers of 4 and 7, 3 calls; shares of up to 2 keys |
| | boxes: nothing left behind, guarded boxes stay locked | 2 boxes of any kind over 5 pages of 2 cells, sizes up to 3, 2 locked pages, 2 pages lost to failing `mprotect` |
| `primitives` | all of the last section | rings as above; 2 hybrid keypairs and 2 signatures; 2 wraps under 3 contexts; samplers of 4 coefficients, 6 reads |

What the properties say:

- `messaging`: `SyncedAgree`, `StateIsAPoint`, `OnlyCurrentKeypairDecrypts`,
  `MixedPairIsMute`, `TurnsAlwaysDecrypt`, `DivergenceIsFinal` (an action property) and
  `EverySendIsTaken` (liveness); `NoNonceReuse`, `KeepsPromise` (the refinement of
  `NonceOnce`), `BlobFirstReloadAccepted`; `MembersWalkOneTree` (the refinement of
  `CommitTree`), `ReplacedKeysGetNothing`, `RemovedGetsNothing`, `GeometryAgrees`,
  `NoDoubleAdd`; and the type invariants of the three.
- `devices`: `MostRecentUnlessDoubled`; `AcceptedAsMade` and `TrustFollowsTheAccount`;
  `NumbersIdentifyPairs` (equal numbers exactly for equal pairs, `NumbersAgreeIff`; digits and
  QR strings read back, `CodesReadBack`); `ReadIffSameHistory`,
  `NoKeyTwice`; `WiresLandAsMade`.
- `establishment`: `SameKeysIffRight`, `SessionsAreDistinct`, `OnlyPublishedBundlesStart`;
  `BytesReadAsWritten`; `GuardedStaysLocked`, `NothingLeftBehind`, `LocksAreLostToNeighbours`.
- `primitives`: `SecretsAgree`, `ArithmeticIsExact`, `SignedVerifies`, `CodecRoundTrips`,
  `AcceptedIffIssued`, `OpenedIffWrapped`, `SampledFromOneStream`.

Several are equivalences, so that a model that refuses everything would not pass:
`SameKeysIffRight`, `AcceptedAsMade`, `ReadIffSameHistory`, `WiresLandAsMade`,
`AcceptedIffIssued`, `OpenedIffWrapped`, `NumbersIdentifyPairs`.

Why the bounds reach the interesting cases. Six sends against two retained
keypairs evict keypairs with messages to them in flight, let both ends send into
each other, and cross the threshold of 4; a native pair diverges with two sends.
Three messages and two epochs with rival commits give a rollback inside an epoch,
across one, and between two branches with the same epoch number. Three founders
have a tree of depth 2: the first add fills it, the second grows it to depth 3, a
third would reach six members, past the limit of 5, so both growth and its refusal
happen; with three operations there are rivals for one epoch, a commit on top of
either, and a remove followed by a re-add. One failure leaves one session
half-changed while the others go on. A store of two keys and four messages evicts,
and two messages with one sequence number take both insertion places. Two records of
two accounts with a common key are what a splice needs: one to take from and one to
complete. Wasm sessions restore, at an epoch above 0, on either of two ways there
(a host's delta or a commit), which is where a wrong restore shows. A commit and a second
one, of another place, committer, kind or member, give every exchange of two fields. Bytes
of radix 6 with two-byte lengths put `usize` at 36, which an altered length exceeds and a
share's count of keys passes. Five pages hold one guarded box and pages shared by the two
kinds of unguarded ones. The small rings keep what the code distinguishes: an odd P for
the codec's last stage and the Karatsuba split, a signing loop that rejects and tries
again, hints, and coefficients at both ends of the range; what depends on the real
sizes (the stages and clamps of the codec) runs at the real sizes.

`CHECK_DEADLOCK FALSE` is set throughout: sends, messages, operations, records and
calls are bounded, and the steps that hand something over for a verdict (`Check*`, the
comparison of numbers, `TakeCommit`, `TakeWelcome`, `Parse`) end a behaviour.

Fairness. Only `KemRatchet` has a liveness property. Its `Fairness` is weak fairness of
`Receive` between hosts that take turns: a message that can be taken is taken, as
`receive.rs` (lines 64-67) requires of its transport (ordered and reliable). Nobody is
obliged to send, and other hosts are obliged to nothing. The rest of the library only runs
when a host calls it, and nothing in it has to happen eventually.

## 4. Findings

Each is a run with `expect: violation`; `PROJECT.json` quotes the sentence.

- `ratchet_crossed`: one root key serves both directions, so two crossing sends part
  the ends for good, and the keypairs retained "for async message handling" open
  nothing (`OnlyCurrentKeypairDecrypts` and `DivergenceIsFinal` hold).
- `ratchet_exhausted`: the last permitted send leaves a live counter at the threshold
  that the restore path takes for corruption.
- `ratchet_rederive`: the wasm restore applies the initial derivation at every call;
  two wasm ends agree about it, a wasm end and a native end never exchange a message.
- `channel_lockout`: saving the watermark before the blob and stopping between the two
  locks the member out of its own newest blob.
- `channel_two_instances`: two instances that loaded the same blob through the checked
  door use one key and nonce twice.
- `group_updates` (`UpdatesAreTaken`): `create_update` announces a leaf key derived from its
  leaf seed and rotates the session "to match" (`update.rs` 147), but to a freshly generated
  keypair; `add_member` and `remove_member` announce a new leaf key and keep the old keypair.
  Whoever took such a commit seals its own next one to a key nobody holds, so the first
  committer, in the same epoch, cannot take it. `OneDirection` (section 5) proves how far this
  goes: no two members ever take commits of each other.
- `wasm_updates` (`OthersUpdatesLand`): `cocoa_process_update` never takes an update of another
  member, since a rebuilt session has an empty tree and a serialised commit has lost its path
  (`trelis-wasm/src/lib.rs` 3148-3264).
- `added_welcome` (`AddedMembersJoin`): the welcome that `add_member` seals does not open for
  the member it is made for, its associated data (`operations/add.rs` 426) not being those of
  `process_welcome`.

Behaviours that the passing properties record, because the code is so:

- `GeometryAgrees` and `ReplacedKeysGetNothing` leave out members with a failed operation: the
  growth of a failed `add_member` is not undone, and such a session's later commits put
  path nodes at the wrong indices of others.
- `NoDoubleAdd` speaks of adds only: a registry starts with the member itself, so a founder
  can be added once more.
- `WiresLandAsMade`: the leaf position of an added or removed member is bound neither by the
  signature nor by the round hash.
- `MostRecentUnlessDoubled`: a message that was both taken and merged is in the store
  twice and takes a second place under the cap, so the store may lack one of the most recent
  keys (`settings.rs` 128-131 says it never does; `MostRecentRetained` states that).
- `LocksAreLostToNeighbours`: the drop of a `LockedBox` or `LockedVec` unlocks the pages of
  its neighbours, whose `is_locked` still answers true (`FlaggedIsLocked` states what its
  comment says).
- `BytesReadAsWritten`: the three lengths in a ratchet header are not looked at, bytes after
  a message are ignored where the layout is not exact, and on 32-bit targets the upper
  half of a share's count of keys is dropped: encodings are not canonical.

Smaller disagreements between comments and code, met while modelling and in no run:
`path_update.rs` sorts path updates by descending depth where the doc says ascending;
`builder.rs` 233-236 says a timestamp 0 fails validation, which it passes; `from_qr_string`
accepts a 45-character string with anything in its last character;
`RecoveryKeyAttestation::verify` accepts equal old and new keys although `create` rejects
them; `into_guarded` is documented as locking "if privileges allow" and fails otherwise;
`fq.rs` 190 gives wrong constants in a comment (467811 and 2727 for 467759 and 2079);
`hint.rs` 118-120 accepts repeated hint indices where FIPS 204 asks for strictly increasing
ones; `pure_rust.rs` 199 and 250 say "mod 3" of the inverse mod q; the displayed safety
number shows the low 60 of 73 digits.

## 5. Proofs

`KemRatchetProofs` proves, for any retention limit, threshold, number of sends and any
choice of wasm ends, with `IndInv == TypeOK /\ PointsOK /\ StateIsAPoint /\ NetOK /\
ErasedIsEnded`: every end stands at a point, every message leads from one point to
another, and points have pairwise different root keys. The last is what carries the
rest: two ends with one root key stand at one point, hence agree (`SyncedEndsAgree`),
and a message that decrypts was made at the receiver's point, hence to its current
keypair (`RetainedKeypairsOpenNothing`). Divergence (`DivergedForGood`) follows because
an accepted message extends both root keys alike, and `MixedPairStaysMute` because the two
kinds of end pass the initial derivation a different number of times.
`TurnTakersAlwaysRead` adds `TurnInv` for hosts that take turns: one of the two has
everything the other sent, two ends with nothing under way have one root key, the message
whose turn it is was made under the receiver's root key, and a later one after it.

`CocoaChannelProofs` proves nonce uniqueness, the acceptance of the newest blob when it is
saved first, and the refinement of `NonceOnce` for any number of epochs and messages and
any set of commits, under the assumption that there is one instance (`SingleInstance`);
without it the run `channel_two_instances` refutes it. The invariant: everything sent lies
below the watermark, everything pending below the live counter, each position on one branch
is used once, and all blobs are points of a chain whose branches are told apart by their
secrets.

`CocoaGroupProofs` proves, for any founders, newcomers, hosts, limits and any number of
operations and failures, that the group implements `CommitTree` and that no history adds a
user twice without removing it in between. The confirmation tag compares transcripts and
`CommitTree` speaks of secrets, so the invariant has to tie them: `IndInv` says of every
session that its secret is the chain of the delta roots in its transcript, of every commit
that its transcript consists of earlier operations (a new one is never mistaken for an old
one), and of every session that a user whose last change in the transcript is an add is in
its registry. A remover that keeps the removed user registered therefore errs on the side of
`NoDoubleAdd`. The tree and what it holds play no part: whatever
`apply_path_updates` and `verify_parent_hashes` let through, the three facts are kept by
`advance_epoch`, `insert_member`, `remove_member` and the two guards, one lemma per handler.

Its second part goes into the trees. `KeysInv` says that a session can open a seed only
with the keypair its user came with (a rotated keypair is never announced, so no view holds
it), that a view holds a founder's keypair at that founder's leaf only, that nothing brings it
back after a removal of the leaf or a path over it, and that every commit seals to keys its
committer's view held. `ReplacedKeysStayOut` follows because the path of a commit overwrites
the leaf that held its committer's founding key, and `RemovedMembersAreOut` because a removal
blanks that leaf. `OneDirection` follows too: of a commit of u and one of v in one transcript,
the later is not sealed to the author of the earlier, who cannot take it. It states
`CommitsFlowOneWay`, no promise of the code but the extent of the finding `group_updates`, and
is defined beside its proof. `GeometryInv`
makes depth and member count a function of the transcript, the counts of its adds from the
founding on; `TreesAgree` follows by uniqueness of that function (least index at which two
would differ). Members whose own operation failed half way (`failed`) are left out there as in
the properties. `InvariantHolds` is their conjunction with `IndInv`. `GroupLimitsAssumption` says
that the founding depth is a natural number within the limit: the provers do not evaluate
`2^n`.

Its third part, on top of `Invariant`, is `TypesHold` (`GroupTypeOK`). `TypeInv` keeps the depth and
the member count of a session within their limits: a tree grows by one level at a time, and only
after the depth for the new count was found within the limit, by the committer in `add_member` and
by each receiver again in `process_add`. The count never falls below the number of founders, since
a removal leaves it, so the position of a founder is always below it; that an add announces a
position from there on and a user who is no founder is part of `TypeInv` too. `PowersAssumption`
is what the provers do not know of powers of two: they are positive, and the depth for a count is
a natural number.

`EstablishmentProofs` proves what the keys of a session depend on, for any identities, one-time
keys, clock and numbers of bundles and answers. `IInv` keeps from what each set of keys was
derived, that published bundles are the responder's, that ephemeral keys differ, and that a
deleted one-time key was used once. `KeysAgreeExactlyIfRight` then rests on the injectivity of
the transcript, of the signed bytes of a bundle, and on decapsulation giving the secret of an
encapsulation to its own key only.

`PrimitivesProofs` proves the locked boxes for any number of boxes, heap, page size and
locking limit and any failing system calls. `IInv` says how far each owner has come at
every step of a constructor or drop: which pages it has protected, where in it a secret can be
and whether its pages are locked; that allocations do not overlap, and that a `GuardedBox` is
whole pages and so shares none, which `GuardedBoxesStayLocked` needs. One lemma per step between
system calls.

Its second part proves the samplers (`SamplesAreGood`, that is `SampledFromOneStream`) for any
size of polynomial, weight, cache and reads. `StreamInv` says where the last read ended: at the
position of the reader, or inside the cache, whose end is that position; `squeeze` keeps it in each
of its branches. That nothing is skipped by a reader of one short size needs more: the offset in
the cache is then a multiple of that size, as the cache's length is, so that a refill finds nothing
left over (`MultiplesMeet`, `Divides`). For the ball, `BallInv` says that the coefficients from `i`
on are zero and as many are set as steps were taken; a step moves one coefficient and sets one
(`PlaceSetsOne`), whether or not the index is its own. `CacheAssumption`, `PolynomialAssumption` and
`BytesAssumption` are the relations between the constants of `sampling.rs` and `crypto_blake3.rs`:
the sign bytes fit a short read, a short read fits the cache, the weight is at most the size.

`DevicesProofs` proves `StoresKeepTheNewest` of `RetainedKeys` for any cap, keys, times and
sequence numbers (equal ones included). `MostRecentUnlessDoubled` is not inductive: while a store has a key twice
it says nothing of what the cap dropped. `IInv` keeps the stronger fact that a given key is
missing only if the last `MAX_RETAINED_KEYS` entries are not older than it (`Keeps`), and that
nothing is held more than twice, nor twice unless the device took it itself (`Within`); with all
entries distinct a count gives the property. `merge`, the reload of a blob and `prune_before`
loop over a list; their invariants are proved by induction over the list with `UpTo` (a set of
numbers that has 0 and successors up to n has all of 0..n) and `Recursion` (a function so defined
exists), which take sets and functions where the library's induction theorems take operators.

Its second part proves the group sessions of wasm hosts (`WasmGroup`) for any users, group sizes
and numbers of blobs, messages, epochs and commits. `WasmInv` says where every blob a host keeps
came from: a beginning, or one step from another kept blob (`Follows`), so that two blobs have
one secret exactly if they went through the same steps (`Agree`); that the blob a host goes on
from is where the watermark of that identity is; that every message was sealed by a kept blob,
below that watermark; and that every serialised commit is tagged with a root that is not the
zeros a receiver derives without the path. `SealedOnce` follows because an equal key means an
equal secret, leaf and counter, hence one identity in one epoch, and the new message is at its
watermark; `OpenedBySameHistory` follows from the second part.
A root tells the seed it was derived from (`RootsMeet`), by induction along the two chains of
seeds. `WasmAssumption` says that leaves are distinct natural numbers and that
`depth_for_members` of the two founding sizes is one: the provers do not evaluate `2^n`.

Its third part proves `MadeIsWhatLands` (`WiresLandAsMade` of `CommitWire`) for any founders that
commit or receive, any places and any number of commits and welcomes. `WireInv` adds to the
property what it needs of the wires made. `SentOK`: each carries what `build_commit` makes at its
place from a draw of its own, and no two have one draw. `WelcomeOK`: each is sealed to one
joiner under the data of its kind, and signed by its maker. Of a commit put together from two, an
accepted signature fixes the kind, the group, the epoch, the round hash and the path
(`SignsAlike`), and the round hash the subject and the root. The confirmation tag may come from the
other wire, but it names a root; a root names the draw (`RootTells`), and so the commit; its transcript
names the place. For the converse, a seed that opens gives the rest of the chain up to the same
root (`ApplyFacts`), and the key of a removed founder is in no resolution (`RemovedKeys`), so that
exactly those a commit was made for find a seed. In a welcome the length before the last field
is part of the signed body, which fixes where the two last fields part (`FramedTells`, `BodyTells`).
`MembersAssumption` says that committers and receivers are founders and those who are added are not;
`PlacesAssumption` that the last draw of a history identifies it in its group, as draws are fresh;
`RoomAssumption` is a value of `depth_for_members`, again because of `2^n`.

`AccountsProofs` proves the signed records for any users, keys, records, times and window.
`TextOfOneKind` shows that the text under a signature tells the kind of record, by its tag or its
length, and the lemmas `...Verified` that it fixes every field, so that a signature which verifies
singles out the record it was made for; `OnlyWhatWasSigned` (`AcceptedAsMade`) is the conjunction
over the kinds. `OnlyTheAccountMovesTrust` (`TrustFollowsTheAccount`) adds that the sets it speaks
of only grow: identities and devices are what `MaxRecords` rounds along the records reach, and as
there are at most that many records, the rounds have settled (`ReachClosed`, by the pigeonhole
principle) and the set is closed under one more record. A one-sided number is signed by both of
its sides in the end, and `AcceptedAsMade` therefore names the signer in both parts: with three
records, too many for the run, the record alone does not tell whose signature it is.
`AccountsAssumption` says that revocations are made with a reason of the enumeration and that no
one-time key consists of the tag of a safety number, whose length no key has.

`HybridProofs` proves the hybrid schemes for any keys, texts, contexts and numbers of signatures
and wraps. A byte string here is a sequence of numbers, so that `RegionInjective` and
`RepresentativeInjective` have to show that a length and a context before a message tell the two
apart (`SplitsAlike`); that the length fits its field is the guard `ContextFits`. For the hybrid,
`HyVerified`: what ML-DSA signed fixes the entry point, the whole key, the region and the
commitment, the commitment is met only by a response to that very ML-DSA signature, and so both
halves come from one signing. `AcceptedAsIssued` (`AcceptedIffIssued`) collects the families.
`WrapsOpenAsMade` (`OpenedIffWrapped`) follows from the injectivity of the combiner, of the
commitment and of the associated data. `SignatureAssumption` says that texts and contexts are
byte strings, `WrapAssumption` that wrap contexts are records of the five fields.

Its last part proves safety numbers: `NumbersIdentify` (`NumbersIdentifyPairs`) for identities and
device lists of any length, fingerprints of any length that fills groups of three with the version
byte, and any number of shown bytes and digits. For `NumbersAgreeIff`, `OneComesFirst` shows that
the lexicographic order is total, so that a pair is one from both sides; `Sorts` that every list has
an ascending one with the same numbers as often (the place of each entry is the count of those
before it, which is a permutation), and `AscendingIsUnique` that it has only one. For
`CodesReadBack`, four characters hold three bytes and the other way round (`Packs`, `Unpacks`), so
`EncodedDecodes` and `DecodedEncodes`, and a string that is read is that of what was read, with at
most one character after it; `DigitsExact` shows, by induction over the digits and under it over
the bytes (`UpTo`, `Recursion` as in `DevicesProofs`), that repeated division leaves the digits of
the remainder by the power of ten. `NumberAssumption` says that identities and devices are numbers,
and lists sequences of them; `CodeAssumption` that fingerprints are byte strings of one length.

Only model-checked: liveness (`EverySendIsTaken`), since the prover has no `ENABLED`;
sntrup761 and ML-DSA in `primitives`, and `BytesReadAsWritten`. What their codecs and transforms
compute for every input rests on modular and bit arithmetic over polynomials and mixed radices,
which the provers do not reach.

## 6. Not modelled

External crates (Ed448, X448, BLAKE3 and AEAD implementations, ideal here) and their thin
wrappers; error values (they appear as the guards that raise them); message size and proof
depth limits (wire data); the `tree_info` a welcome may carry (no welcome that can be opened
carries one); the byte layouts of bundles, certificates and wraps and the unpacking of
arguments in the wasm binding; `Decoder::skip` and `peek`; the linear numbering of nodes and
the traversals only tests and benchmarks call; `RevocationRekeyEvent`; the sampling of random
sntrup polynomials; the Windows variants of `memlock.rs` and its queries; constant time;
fuzzing and benchmark crates, test vectors. `PROJECT.json` lists every part with its status.

## 7. Plan

1. `KemRatchet`, `CocoaChannel`, `CocoaGroup` with their proofs - done.
2. `RetainedKeys`, `Accounts`, `SafetyNumbers`, `Establishment`, `LockedMemory` - done.
3. sntrup761, ML-DSA, the hybrid schemes, key wraps - done.
4. `CocoaSession`, `Commits`, `WasmGroup`, `CommitWire`, `WireFormat` - done.
5. Proofs of `Establishment`, `LockedMemory`, the samplers, `RetainedKeys`, `WasmGroup`, `Accounts`,
   the hybrid schemes, safety numbers and their codes, the keys, geometry and types of `CocoaGroup`,
   `CommitWire` - done.
6. `ThreadKeyStore` as an abstract store of the newest keys, implemented by `RetainedKeys`.
