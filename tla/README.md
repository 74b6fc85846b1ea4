# Formal models of go-dmr's Homebrew protocol

TLA+ models of `src/homebrew/homebrew.go` (the Homebrew DMR IPSC link between
repeaters and a master) and of `src/lc/talkeralias.go` (the talker alias
header codec). TLC checks them on small instances. TLAPS proves the main
safety results, and the registry's refinement, for every value of the
constants.

## The system

`homebrew.go` implements one endpoint. A `Homebrew` owns a UDP socket, a
registry of peers (`Peer` keyed by address, `PeerID` keyed by repeater ID) and
two goroutines:

* the **listener** (`ListenAndServe` → `handle`) reads one datagram at a time.
  For an **outgoing** peer (we are the repeater) it runs the client side of
  the login: `RPTL` → nonce `RPTACK` → `RPTK` (sha256 token) → `RPTACK` →
  `RPTC` → pings. For an unknown address that sends `RPTL` it creates an
  **incoming** peer (we are the master) with the default key and runs the
  server side: nonce, token check, config, pongs. A handler error ends the
  listener.
* the **keepalive** (`keepalive`) scans the peers once a second. For outgoing
  peers it retries failed logins (`AuthTimeout`), fails logins that get no
  answer, pings every `PingInterval` and re-logs in after `PingTimeout`
  without a pong. Its branch for incoming peers is commented out.

The host calls `Link` and `Unlink` to add and remove peers, `Send`/`SendTG`
to relay DMR data, and `Close`. The pure codecs (`buildData`/`parseData`,
`buildConfigData`/`parseConfigData`, the talker-alias PDUs) turn the packets
into bytes and back.


### Inventory

| Part | State | Operations | Model |
|---|---|---|---|
| Login handshake | `peer.Status`, `peer.Token`, `peer.Config` | the auth cases of `handle`, `handleAuth` | `HomebrewLink` (modelled) |
| Keepalive | `peer.Last.*` timestamps | one scan per second | `HomebrewLink` (modelled) |
| Registry | `h.Peer`, `h.PeerID` | `Link`, `Unlink`, `getPeerByAddr`, `getPeers`, implicit incoming peers | `HomebrewEndpoint`, refining `RegistryAbstract` (modelled) |
| Listener and `Close` | `h.closed`, the socket | loop test, `ReadFromUDP`, `handle`, error exit, `Close` | `HomebrewEndpoint` (modelled) |
| DMR relay | `peer.TGID` | `handlePacket`, `SendTG` | `HomebrewEndpoint` (partly: `Send` and `WritePacketToPeer` only write) |
| DMRD codec | bytes | `buildData`, `parseData`, repeater ID packing | `HomebrewCodec` (modelled) |
| Config codec | bytes | `buildConfigData`, `parseConfigData` | abstracted to a flag in `HomebrewLink` (not modelled) |
| Talker alias | bytes | `ParseTalkerAliasHeaderPDU`, `TalkerAliasHeaderPDU.Bytes`, `movebit` | `TalkerAlias` (partly: the block PDU and the string formatters are left out) |

The hard behaviours are these. Datagrams are lost, duplicated and reordered
over UDP. Two independent state machines (the repeater's outgoing peer and
the master's incoming peer) must agree. Timeouts race late answers. The host's
`Link`, `Unlink` and `Close` run while the listener handles datagrams. Bytes are
packed bit by bit, at offsets where an off-by-one panics. `PROJECT.json` lists
each hazard at its source line, with the properties that cover it.

## `HomebrewLink`: one link, both ends

`HomebrewLink.tla` composes two endpoints that both run this code. **R** is
the repeater: its host has linked an outgoing peer for M. **M** is the master:
it has no peer for R until R's first `RPTL`.

* R's state is `rLinked` (the peer is in R's registry), `rStatus`,
  `rToken` (the nonce last given to `UpdateToken`) and `rAge`. `rAge` holds the
  age in seconds of each `Last` timestamp the keepalive compares with a
  timeout, and saturates at `Cap`. The zero `time.Time{}` that `Link` stores
  is older than any timeout, so it is age `Cap`.
* M's state is `mStatus` (`"Absent"` before the implicit peer exists),
  `mNonce` and `mConfig`.
* `net` is the set of datagrams in flight, and `losses` counts the losses so far.

A frame is a record with a destination, a verb and the 4-byte value after the
verb. For `RPTK` that value is the token, modelled as `<<key, nonce>>`, an
injective stand-in for sha256. Lengths are left out: every frame this code
sends has the length its receiver expects.

How actions correspond to the code:

* `Link` is `Homebrew.Link` followed by `handleAuth`. It resets the
  timestamps, registers the peer, and sends `RPTL` (AuthNone) or `RPTK`
  (AuthBegin).
* `HandleR(m)` is `handle` for the outgoing peer. There is one action per case
  of the status switch: `RecvNonce`, `RecvRefused` (with the
  `UnlinkOnAuthFailure` unlink), `RecvAccepted`, `RecvDoneAck`,
  `RecvDeauth`, `RecvPong` and `RecvIgnored`. `RecvLinked` is the
  `PacketReceived` stamp they share. `RecvUnlinked` is a frame for a peer that
  is no longer in the registry.
* `HandleM(m)` is `handle` for the incoming peer: `RecvLogin` (which creates
  the peer), `RecvLoginNonceFailed` (`rand.Read` error), `RecvKey`,
  `RecvBadKey`, `RecvPing`, `RecvConfig` and `RecvMIgnored`.
* `Keepalive` is one scan of R's peer: `KeepaliveRetry`,
  `KeepaliveAuthTimeout`, `KeepalivePingTimeout`, `KeepalivePing`,
  `KeepaliveIdle` and `KeepaliveUnlinked`. `Tick` is `time.After(time.Second)`.
  It ages the timestamps once the scan of the current second is done.
* `Lose(m)` is the network losing a datagram, at most `MaxLosses` times. With
  `Duplicating`, a read datagram may stay in flight.

Each handler call and each scan is one atomic step. The data race between them
is listed as a hazard and not yet modelled.

### Fairness

`FairSpec` assumes weak fairness of `Link` (the host links its peer), of
reading some datagram in flight (the listener loops on `ReadFromUDP`), of the
keepalive scan and of `Tick` (the goroutine and the clock never stop). Losses
are bounded by `MaxLosses`, so a network that loses everything forever is
excluded. With `Timely`, the clock does not tick while a datagram is in flight:
this models a link whose round trip is well under a second.

## `HomebrewEndpoint`: one master, several repeaters

`HomebrewEndpoint.tla` is one endpoint acting as master for repeaters at the
addresses `Addrs`. A `*Peer` is an object `1..nPeers`, so two map entries
denote the same peer exactly when the code's pointers are equal.

* `byAddr` and `byId` are `h.Peer` and `h.PeerID`: maps to a peer object or
  `Nil`. `peer[o]` holds the fields the code reads (`ID`, `Addr`, `Status`,
  `TGID`).
* `closed` is `h.closed` together with the socket, which `Close` closes at
  the same time.
* `lsn` is where `ListenAndServe` is (`check`, `reading`, `handle`) or what
  it returned (`nil`, `error`). `pending` is the datagram just read.
* `relay` records the origin, talk group and targets of the last `SendTG`.

A datagram is a record of the fields `handle` looks at: `RPTL` with the
claimed ID, `RPTK` with a right or wrong token, `DMRD` with group/private,
talk group and frame kind (`ok`, or `bad` for kind 0b11, which `parseData`
rejects). `Claims` is the set of (address, ID) pairs the repeaters log in
with.

How actions correspond to the code:

* `LoopCheck` is the loop test `for !h.closed` (206). `ReadDatagram` and
  `ReadClosed` are `ReadFromUDP` returning a datagram, or failing on the
  closed socket (207-211).
* `Handle` is `handle` on the pending datagram, one sub-action per branch
  for an incoming peer. `HandleUnknown` drops
  other verbs from unknown addresses. `HandleLogin` and `HandleKey` are the
  AuthNone and AuthBegin cases. `HandleData` is `DMRD` of an AuthDone peer,
  with `parseData` and `handlePacket` (488-493, 600-627). `HandleIgnored` is
  everything else. Each ends with `AfterHandle`, what `ListenAndServe` does
  with handle's result (212-222).
* The implicit login of an `RPTL` from an unknown address is two steps,
  because `handle` holds no lock. `ImplicitLink` creates the AuthNone peer and
  links it (`HandleNewLogin`, 329-345), and leaves `lsn = "linked"`.
  `ImplicitLookup` is `getPeerByAddr` at 347 and the rest of `handle`. Either
  the peer is found and the AuthNone login case runs (`HandleLogin`), or the
  address was unlinked in between and `peer.Last` at 359 dereferences nil
  (`HandleNilPeer`, `lsn = "panic"`).
* `HostLink`, `Unlink` and `Close` are the host's calls. `Link` is the map
  update shared by `HostLink` and the implicit login.

Between the read and `handle`, `HostLink` and `Unlink` wait (`lsn # "handle"`).
A read changes nothing but `lsn` and `pending`, so a host call between the
read and `handle` is the same as one before the read. The wait also keeps a
pending `RPTL` within the bound on peer objects. The host calls do not wait
between `ImplicitLink` and `ImplicitLookup`, and `Close` never waits. That
interleaving is the one the code can really meet.

`RegistryAbstract.tla` is what the registry promises: a set of linked
(address, ID) pairs. `Link(a, id)` replaces any pair with that address or that
ID, and `Unlink(id)` removes the pair with that ID. `HomebrewEndpoint` maps
onto it with `LinkedPairs`, the pairs of the peers the maps hold, and states
`RegistryRefinement == Abs!Spec`. `LinkedPairs` reads the pairs off the peer
objects held in either map, so a link that leaves a peer in one map only is
not a refinement failure in itself. `RegistryBijection` (run `endpoint_rebind`)
is the property that catches such half-links.

## `HomebrewCodec`: the DMRD frame

`HomebrewCodec.tla` is `buildData` and `parseData`. A byte is a natural in
0..255, and a frame is a function from the offsets of its fixed fields to
bytes. The 33-byte payload is copied unchanged by both, so it is an opaque
value. Byte 15 packs the timeslot, call type, frame kind and data type with
`&`, `|` and `shiftR` from `Bitwise`. `Build`, `Parse` and `NextPacket` send
packets one at a time.

## `TalkerAlias`: the talker alias header

`TalkerAlias.tla` is `ParseTalkerAliasHeaderPDU` and `Bytes`, with one step
per iteration of their bit loops through `movebit`. An index out of range is
a panic, the empty buffer. `Header(a)` is the reference packing from the data
model: 7 characters in the 49 bits from offset 7, most significant bit first.

## Runs

The `HomebrewLink` runs (`MCHomebrewLink.tla`) use the timeouts scaled from
15/5/15 s to 3/1/3 ticks. That keeps the order AuthTimeout = PingTimeout >
PingInterval, so every timer branch is reachable. They use model values for
nonces, IDs and keys.

| Run | Expect | What it shows |
|---|---|---|
| `safety` | pass | Matching keys, two nonces, `rand.Read` failures and 2 losses: `TypeOK`, the repeater is AuthDone only when the master is (`RepeaterDoneImpliesMasterDone`), and the master's token check never sends it back to AuthNone (`TokenNeverRejected`, an action property). |
| `sameid` | pass | `MID = RID`, so the AuthDone ID checks succeed and the deauth path is reached. The agreement still holds. |
| `wrongkey` | pass | R's key differs from M's, with 1 loss: the master never authenticates R (`MasterAuthRequiresKey`). |
| `timely` | pass | No losses, timely delivery, fairness: `LinkStaysUp`. Eventually both ends are AuthDone for good. |
| `badkey` | violation | Wrong key: R's retried `RPTL` gets a nonce `RPTACK`, which R in AuthBegin takes as acceptance. A duplicated nonce `RPTACK` does the same. |
| `lossy` | violation | One lost `RPTK` leaves M in AuthBegin forever. It ignores every retried `RPTL`, so `LinkRecovers` fails. |
| `codec_roundtrip` | pass | `parseData(buildData(p))` is `p` with the sender's repeater ID, for data types 0..15, 24-bit source IDs up to 2^24-1 and repeater ID 2^31-1 (`RoundTrip`). |
| `talkeralias_decode` | violation | A 7-bit header does not decode to its characters (`AliasDecoded`). |
| `talkeralias_roundtrip` | violation | `Bytes` of a parsed header panics instead of giving the header back (`HeaderRoundTrip`). |
| `endpoint_relay` | pass | Three repeaters with their own IDs, two talk groups, logins, group calls, host Link/Unlink and Close, 3 peer objects: `TypeOK`, `RelayToSubscribers` (a group frame reaches exactly the other registered subscribers) and `RegistryRefinement`. About 4.2M states. |
| `endpoint_rebind` | violation | The repeater with ID 1 appears at a second address: `RegistryBijection` fails. |
| `endpoint_listener` | violation | `ListenerEndsCleanly`: `ListenAndServe` returns an error after `Close` or on a bad DMRD frame, or `handle` panics on a nil peer when a host `Unlink` runs between the implicit `Link` and the lookup at 347. TLC's shortest trace is the read error after `Close`. With the invariant narrowed to one way out at a time, TLC reaches the other two under the same cfg. |

The bounds are large enough for the interesting cases to happen.
In HomebrewLink, Two nonces
are enough for a retried login to get a fresh nonce. Two losses are enough to
lose a frame of each direction. Ages up to `Cap` let every timeout fire and
not fire. Each property has a mutant in `HomebrewLink` that the run catches:
a nonce not stored by `UpdateToken` (which breaks `TypeOK`), `RPTL` accepted in every status, an unchecked token, and a
pong that is not stamped.

In `HomebrewEndpoint`, three addresses give a group frame two possible
targets: one in its talk group and one outside it. Three
peer objects let a peer be unlinked and a new one created after it. TLC ints are
32-bit, so the codec's repeater and stream IDs go up to 2^31-1 and not to
2^32-1. Every byte of these IDs is non-zero. Only the top bit of the
first byte is never set.

`CHECK_DEADLOCK FALSE` is set in the endpoint runs only. After `Close` and
the listener's return, the endpoint really stops, apart from the host's
bounded calls. In `endpoint_rebind` and `endpoint_listener`, a listener
that panicked or returned also stops.

The findings (`PROJECT.json`) are:

1. `homebrew.go:472`: any `RPTACK` in AuthBegin counts as acceptance, whether
   from a retried login or a duplicate (run `badkey`).
2. `homebrew.go:397` and `639`: the master never answers retries after one
   lost frame, although the comment at 389-392 relies on those retries
   (run `lossy`).
3. `talkeralias.go:43`: `movebit` writes a 0 bit as `dst &= 0 << bit`, which
   clears the whole byte (run `talkeralias_decode`).
4. `talkeralias.go:84` and `96`: `Bytes` writes `out[-1]` for the 7-bit
   format, and reads `out[5]` of a 5-byte slice for the others (run
   `talkeralias_roundtrip`).
5. `homebrew.go:176`: `Link` leaves the old peer in `h.Peer` when a
   repeater's ID reappears at a new address (run `endpoint_rebind`).
6. `homebrew.go:210` and `218`: `ListenAndServe` returns the read error
   after `Close`, and `parseData`'s error for one bad frame (run
   `endpoint_listener`).
7. `homebrew.go:345-359`: `handle` holds no lock, so a host `Unlink` between
   the implicit `Link` and `getPeerByAddr` leaves `peer` nil. `peer.Last` at
   359 then panics and ends the process (run `endpoint_listener`, property `ListenerEndsCleanly`).

## Liveness in the other modules

`FairSpec` of `HomebrewLink` is described above. The endpoint and codec runs
check safety only. A liveness property of the endpoint, that the listener
stops after `Close`, was tried and dropped. It holds by the model's shape (the
socket is closed), and no plausible change to the code breaks it.

## Proofs

`HomebrewLinkProofs.tla`:

* `TypeCorrect == Spec => []TypeOK`. `TypeOK` is not inductive on its own:
  `Link` in AuthBegin resends `RPTK` with `rToken`, so the proof strengthens it
  with `TokenSet` (in AuthBegin, `rToken` is a received value).
* `MasterAuthSound == Spec => []MasterAuthRequiresKey`. The inductive
  invariant `KeyInv` adds `KeysInFlight`: every `RPTK` in flight carries R's
  key, because only R sends `RPTK`. `RecvKey` compares the key of such a
  frame with `MKey`, so M reaches AuthDone only if `RKey = MKey`. The proof
  holds for every number of nonces and losses, with or without duplication.

`HomebrewLinkAgreement.tla` proves that the two ends agree. Both theorems
assume `RKey = MKey` and `~Duplicating`:

* `RepeaterAgreement == ... => (Spec => []RepeaterDoneImpliesMasterDone)`.
* `TokenAccepted == ... => (Spec => TokenNeverRejected)`. Once M's peer is in
  AuthBegin, its next status is AuthDone. It never goes back to AuthNone
  through `RecvBadKey`.

Both rest on one inductive invariant, `AgreeInv`. It is `TypeInv` plus two
facts about M's peer:

* `MasterFresh`: while M's peer is Absent or AuthNone, R is AuthNone or
  AuthFailed, and no `RPTK` or `RPTACK` is in flight.
* `MasterChallenged`: while M's peer is in AuthBegin, four things hold:
  * every `RPTK` in flight carries the token of M's current nonce;
  * every `RPTACK` in flight is that nonce;
  * R, if it is in AuthBegin, holds that nonce;
  * R is not AuthDone.

The step has three parts:

* one lemma for R's handlers, one for M's, one for `Link` and one for the
  keepalive;
* `QuietStep`, for the steps that send neither frame;
* `MasterDone`, for the moment M reaches AuthDone.

The keys must match for `RecvBadKey` to be impossible. Otherwise M would go
back to AuthNone with a nonce still in flight.

No duplication is needed as well. The network is a set of frames, so one
frame can be read only once (`AckUnique`, `RestNoDup`). With duplication, R
would read the nonce `RPTACK` a second time in AuthBegin and take it as the
acceptance. Run `badkey` shows the first case, and the duplicating scenario
of its finding shows the second. `TokenAccepted` holds because `AgreeInv`
makes `RecvBadKey` impossible, and only M's handlers move `mStatus`
(`MasterOnlyByHandleM`).

`HomebrewEndpointProofs.tla`:

* `EndpointTypeCorrect == Spec => []TypeOK`. The inductive invariant `TInv`
  adds two facts. A datagram is pending only while the listener handles it,
  including between the implicit Link and the lookup.
  An `RPTL` from a new address is read only when there is room for its peer
  object. The step has one lemma per group of actions, and `HandleType` has
  one case per branch of `handle`.
* `RegistryRefines == ClaimsInjective => (Spec => RegistryRefinement)`. When
  no address and no ID is claimed twice, the registry implements
  `RegistryAbstract`. The inductive invariant `IInv` adds two facts:
  * every peer object has a claimed pair;
  * `Consistent`: an entry of either map leads back to its peer through
    both maps.

  Under `Consistent`, `LinkedPairs` equals `Pairs(byAddr, byId)`, a set read
  off the maps alone (`PairsChar`). Linking a fresh object is then the
  abstract link (`PairsLink`). Unlink is the abstract unlink
  (`PairsUnlink`). Every other step keeps both maps. `ClaimsInjective` is
  what keeps `Consistent` true: with it, a claim's address and ID lead to the
  same old object or to none (`ClaimAligned`). Run `endpoint_rebind` shows
  the invariant failing once a claim breaks it.
* `RelaySound == ClaimsInjective => (Spec => []RelayToSubscribers)`. The
  inductive invariant `RInv` adds two facts to `IInv`. The relay record is
  cleared by every step but the one that handles a DMRD. It is also clear
  while the listener is between reading and handling, and between the
  implicit Link and the lookup. When a group frame is
  handled, two lemmas apply:
  * `RegisteredIsGetPeers`: under `Consistent`, the peers `SendTG` iterates
    over are exactly the registered ones.
  * `IdsDistinct`: no two registered peers share an ID, so the skip by ID
    in `SendTG` skips only the origin.

  The result needs `ClaimsInjective`: with a rebinding, a stale peer with
  the origin's ID would be skipped too.

The assumptions used are `TimeoutAssumption`, `LossAssumption`,
`FlagAssumption` and `EndpointAssumption`. TLC evaluates them in every run of
their modules.

What is only model-checked:

* Liveness (`LinkStaysUp`, `LinkRecovers`): TLAPS does not handle fairness or `ENABLED` here.
* The codec round trip and the talker alias properties. Their modules use
  `Bitwise`, which is recursive, and TLAPS cannot reason about the results
  of recursive operators.
* The properties that TLC finds violated: `RepeaterDoneImpliesMasterDone`
  under `badkey`, `RegistryBijection`, `LinkRecovers`,
  `ListenerEndsCleanly`. They are false, and their findings say why.

## Not modelled

* The configuration codec (`buildConfigData`, `parseConfigData`). It is
  fixed-width text formatting of the `RPTC` payload; only its effect (the
  master's peer has a config) is modelled.
* `Send`, `WritePacketToPeer` and the write half of `SendTG`. They only write
  to the socket.
* The `h.pf` and `PacketReceived` callbacks. They belong to the host
  program.
* The talker alias block PDU and the `String`/`DataAsString` formatters.
  They slice bytes and format text.
* The data race between the keepalive goroutine and the listener on `peer`.
  Each handler and each scan is one atomic step. The race is listed as a
  hazard.
