---------------------------- MODULE HomebrewLink ----------------------------
(***************************************************************************)
(* One Homebrew link: two endpoints that both run src/homebrew/homebrew.go.*)
(*                                                                         *)
(*  - R, the repeater endpoint.  Its host calls Link with an outgoing Peer *)
(*    for the master; R's listener runs Homebrew.handle on the frames the  *)
(*    master sends, and R's keepalive goroutine scans that peer once per   *)
(*    second.                                                              *)
(*  - M, the master endpoint.  It has no peer for R until R's first RPTL,  *)
(*    when handle creates one implicitly (Incoming, AuthNone, default key).*)
(*    The keepalive of an incoming peer is a no-op (its body is commented  *)
(*    out), so M has no timer action.                                      *)
(*                                                                         *)
(* The network is a set of datagrams in flight: it reorders; it loses a    *)
(* datagram, at most MaxLosses times, and delivers one more than once when Duplicating.  *)
(* When Timely, every datagram is delivered before the clock ticks.        *)
(*                                                                         *)
(* Time is abstracted to the age, in whole seconds, of each timestamp of   *)
(* R's peer, saturating at Cap: only "now.Sub(t) > Timeout" is ever asked  *)
(* of a timestamp, and the zero time.Time{} that Link stores is older than *)
(* any timeout, i.e. age Cap.                                              *)
(***************************************************************************)
EXTENDS Naturals

CONSTANTS
    Nonces,               \* the 4-byte nonces rand.Read may produce
    RID,                  \* R's own repeater ID (h.id of R, packed)
    MID,                  \* M's own repeater ID (h.id of M, packed)
    RKey,                 \* the AuthKey of R's peer for M
    MKey,                 \* the AuthKey M gives an implicit peer ("passw0rd")
    NoValue,              \* a token that has not been set
    AuthTimeout,          \* seconds
    PingInterval,         \* seconds
    PingTimeout,          \* seconds
    UnlinkOnAuthFailure,  \* the Peer field of R's peer for M
    RandCanFail,          \* crypto/rand.Read may return an error
    MaxLosses,            \* how many datagrams the network may lose
    Duplicating,          \* the network may deliver a datagram twice
    Timely                \* every datagram is delivered within the second

ASSUME NoncesAssumption == Nonces # {} /\ MID \notin Nonces
ASSUME NoValueAssumption == NoValue \notin Nonces \cup {MID}
ASSUME TimeoutAssumption ==
    /\ AuthTimeout \in Nat /\ PingInterval \in Nat /\ PingTimeout \in Nat
ASSUME FlagAssumption ==
    {UnlinkOnAuthFailure, RandCanFail, Duplicating, Timely} \subseteq BOOLEAN
ASSUME LossAssumption == MaxLosses \in Nat

VARIABLES
    rLinked,   \* R's peer for M is in R's registry (h.Peer / h.PeerID)
    rStatus,   \* R's peer.Status
    rToken,    \* the nonce R's peer.UpdateToken was last given
    rAge,      \* age of each of R's peer.Last timestamps that is ever read
    scanned,   \* R's keepalive has scanned its peers in the current second
    mStatus,   \* M's peer for R's address: "Absent" or its Status
    mNonce,    \* the nonce M's peer.UpdateToken was last given
    mConfig,   \* M's peer.Config has been set from an RPTC frame
    net,       \* datagrams in flight
    losses     \* datagrams the network has lost so far

vars == <<rLinked, rStatus, rToken, rAge, scanned, mStatus, mNonce, mConfig, net, losses>>

-----------------------------------------------------------------------------
(* AuthStatus, homebrew.go:39-44 *)
AuthStatus == {"AuthNone", "AuthBegin", "AuthDone", "AuthFailed"}

(* The timestamps of Peer.Last that keepalive compares with a timeout. *)
Timers == {"PacketReceived", "AuthSent", "PingSent", "PongReceived"}

Cap == AuthTimeout + PingInterval + PingTimeout + 1

Ages == 0..Cap

(* What an RPTACK or MSTACK may carry in bytes 6..9: a nonce or an ID. *)
AckValues == Nonces \cup {MID}

(* peer.UpdateToken: a deterministic function of the key and the nonce.  *)
Token(key, nonce) == <<key, nonce>>

Tokens == {RKey, MKey} \X AckValues

(* A frame: its destination, verb and the 4 bytes (or token) after it. *)
Frame(to, verb, val) == [to |-> to, verb |-> verb, val |-> val]

Frames ==
    [to : {"M"}, verb : {"RPTL", "RPTC", "RPTPING", "MSTPING", "RPTCL"},
     val : {RID}]
    \cup [to : {"M"}, verb : {"RPTK"}, val : Tokens]
    \cup [to : {"R"}, verb : {"RPTACK"}, val : AckValues]
    \cup [to : {"R"}, verb : {"MSTNAK"}, val : {MID}]
    \cup [to : {"R"}, verb : {"MSTPONG", "RPTPONG"}, val : {RID}]

(* Now(a) stamps each timer of a with time.Now(). *)
Stamp(ages, ts) == [t \in Timers |-> IF t \in ts THEN 0 ELSE ages[t]]

Expired(t, timeout) == rAge[t] > timeout

(* The datagrams left in flight once m has been read. *)
Rest(m) == IF Duplicating THEN {net \ {m}, net} ELSE {net \ {m}}

-----------------------------------------------------------------------------
Init ==
    /\ rLinked = FALSE
    /\ rStatus = "AuthNone"
    /\ rToken = NoValue
    /\ rAge = [t \in Timers |-> Cap]
    /\ scanned = FALSE
    /\ mStatus = "Absent"
    /\ mNonce = NoValue
    /\ mConfig = FALSE
    /\ net = {}
    /\ losses = 0

(* R's host calls Link(peer): reset the timestamps, register the peer and  *)
(* start authentication with handleAuth, which stamps PacketReceived and,  *)
(* in AuthNone, stamps AuthSent and sends RPTL, in AuthBegin sends RPTK.   *)
Link ==
    /\ ~rLinked
    /\ rLinked' = TRUE
    /\ LET reset == [t \in Timers |->
                       IF t = "AuthSent" THEN rAge[t] ELSE Cap]
       IN  CASE rStatus = "AuthNone" ->
                  /\ rAge' = Stamp(reset, {"PacketReceived", "AuthSent"})
                  /\ net' = net \cup {Frame("M", "RPTL", RID)}
             [] rStatus = "AuthBegin" ->
                  /\ rAge' = Stamp(reset, {"PacketReceived"})
                  /\ net' = net \cup {Frame("M", "RPTK", Token(RKey, rToken))}
             [] OTHER ->
                  /\ rAge' = Stamp(reset, {"PacketReceived"})
                  /\ UNCHANGED net
    /\ UNCHANGED <<rStatus, rToken, scanned, mStatus, mNonce, mConfig, losses>>

-----------------------------------------------------------------------------
(***************************************************************************)
(* R's listener: Homebrew.handle on a frame m from M, for an outgoing peer.*)
(***************************************************************************)

(* No peer for the address (R unlinked it) and not an RPTL: dropped. *)
RecvUnlinked(m) ==
    /\ m \in net /\ m.to = "R"
    /\ ~rLinked
    /\ net' \in Rest(m)
    /\ UNCHANGED <<rLinked, rStatus, rToken, rAge, scanned, mStatus, mNonce, mConfig, losses>>

(* A linked peer: PacketReceived is stamped, then the status switch runs.  *)
(* status', token', linked', the timers stamped and the frames sent.       *)
RecvLinked(m, status, token, linked, ts, out) ==
    /\ m \in net /\ m.to = "R"
    /\ rLinked
    /\ rStatus' = status
    /\ rToken' = token
    /\ rLinked' = linked
    /\ rAge' = Stamp(rAge, ts \cup {"PacketReceived"})
    /\ \E rest \in Rest(m) : net' = rest \cup out
    /\ UNCHANGED <<scanned, mStatus, mNonce, mConfig, losses>>

(* Mutant: the nonce is not passed to UpdateToken, so handleAuth sends an *)
(* RPTK made from the token the peer already had (none after Link).       *)
RecvNonceNoUpdateToken(m) ==
    /\ rStatus = "AuthNone" /\ m.verb = "RPTACK"
    /\ RecvLinked(m, "AuthBegin", rToken, TRUE, {},
                  {Frame("M", "RPTK", Token(RKey, rToken))})

(* AuthNone, RPTACK: the nonce; UpdateToken, AuthBegin, handleAuth sends RPTK. *)
RecvNonce(m) ==
    /\ rStatus = "AuthNone" /\ m.verb = "RPTACK"
    /\ RecvLinked(m, "AuthBegin", m.val, TRUE, {},
                  {Frame("M", "RPTK", Token(RKey, m.val))})

(* AuthNone or AuthBegin, MSTNAK: login refused; unlink if the policy says so. *)
RecvRefused(m) ==
    /\ rStatus \in {"AuthNone", "AuthBegin"} /\ m.verb = "MSTNAK"
    /\ RecvLinked(m, "AuthFailed", rToken, ~UnlinkOnAuthFailure, {}, {})

(* AuthBegin, RPTACK: login accepted; stamp the ping timers, send RPTC. *)
RecvAccepted(m) ==
    /\ rStatus = "AuthBegin" /\ m.verb = "RPTACK"
    /\ RecvLinked(m, "AuthDone", rToken, TRUE, {"PingSent", "PongReceived"},
                  {Frame("M", "RPTC", RID)})

(* AuthDone, RPTACK carrying R's own ID: stamp PingSent, send MSTPING. *)
RecvDoneAck(m) ==
    /\ rStatus = "AuthDone" /\ m.verb = "RPTACK" /\ m.val = RID
    /\ RecvLinked(m, "AuthDone", rToken, TRUE, {"PingSent"},
                  {Frame("M", "MSTPING", RID)})

(* AuthDone, MSTNAK carrying R's own ID: deauthenticated; AuthFailed, and  *)
(* handleAuth, which in AuthFailed only stamps PacketReceived.             *)
RecvDeauth(m) ==
    /\ rStatus = "AuthDone" /\ m.verb = "MSTNAK" /\ m.val = RID
    /\ RecvLinked(m, "AuthFailed", rToken, TRUE, {}, {})

(* Mutant: the pong is accepted but PongReceived is not stamped. *)
RecvPongUnstamped(m) ==
    /\ rStatus = "AuthDone" /\ m.verb \in {"MSTPONG", "RPTPONG"} /\ m.val = RID
    /\ RecvLinked(m, "AuthDone", rToken, TRUE, {}, {})

(* AuthDone, MSTPONG or RPTPONG carrying R's own ID: stamp PongReceived. *)
RecvPong(m) ==
    /\ rStatus = "AuthDone" /\ m.verb \in {"MSTPONG", "RPTPONG"} /\ m.val = RID
    /\ RecvLinked(m, "AuthDone", rToken, TRUE, {"PongReceived"}, {})

(* Every other frame: logged and dropped, PacketReceived still stamped.    *)
(* This includes the ACK/NAK/PONG of AuthDone whose ID check fails.        *)
RecvIgnored(m) ==
    /\ \/ rStatus = "AuthNone" /\ m.verb \notin {"RPTACK", "MSTNAK"}
       \/ rStatus = "AuthBegin" /\ m.verb \notin {"RPTACK", "MSTNAK"}
       \/ rStatus = "AuthFailed"
       \/ rStatus = "AuthDone" /\ m.verb \in {"RPTACK", "MSTNAK", "MSTPONG", "RPTPONG"}
                               /\ m.val # RID
    /\ RecvLinked(m, rStatus, rToken, TRUE, {}, {})

HandleR(m) ==
    \/ RecvUnlinked(m) \/ RecvNonce(m) \/ RecvRefused(m) \/ RecvAccepted(m)
    \/ RecvDoneAck(m) \/ RecvDeauth(m) \/ RecvPong(m) \/ RecvIgnored(m)

-----------------------------------------------------------------------------
(***************************************************************************)
(* M's listener: Homebrew.handle on a frame m from R's address, for the    *)
(* incoming peer it creates on R's first RPTL.                             *)
(***************************************************************************)

(* M's peer: mStatus', mNonce', mConfig' and the frames sent. *)
RecvM(m, status, nonce, config, out) ==
    /\ m \in net /\ m.to = "M"
    /\ mStatus' = status
    /\ mNonce' = nonce
    /\ mConfig' = config
    /\ \E rest \in Rest(m) : net' = rest \cup out
    /\ UNCHANGED <<rLinked, rStatus, rToken, rAge, scanned, losses>>

(* Mutant: RPTL restarts the handshake in every status (a dropped guard). *)
RecvLoginAnyStatus(m) ==
    /\ m.verb = "RPTL"
    /\ \E n \in Nonces :
          RecvM(m, "AuthBegin", n, mConfig, {Frame("R", "RPTACK", n)})

(* AuthNone (or no peer yet: Link a new incoming peer in AuthNone), RPTL:  *)
(* draw a nonce, UpdateToken, AuthBegin, reply RPTACK with the nonce.  The *)
(* repeater-ID check only logs.                                            *)
RecvLogin(m) ==
    /\ mStatus \in {"Absent", "AuthNone"} /\ m.verb = "RPTL"
    /\ \E n \in Nonces :
          RecvM(m, "AuthBegin", n, mConfig, {Frame("R", "RPTACK", n)})

(* The same, when rand.Read fails: reply MSTNAK, the peer stays AuthNone. *)
RecvLoginNonceFailed(m) ==
    /\ RandCanFail
    /\ mStatus \in {"Absent", "AuthNone"} /\ m.verb = "RPTL"
    /\ RecvM(m, "AuthNone", mNonce, mConfig, {Frame("R", "MSTNAK", MID)})

(* Mutant: the token of RPTK is not compared with peer.Token. *)
RecvKeyUnchecked(m) ==
    /\ mStatus = "AuthBegin" /\ m.verb = "RPTK"
    /\ RecvM(m, "AuthDone", mNonce, mConfig, {Frame("R", "RPTACK", MID)})

(* AuthBegin, RPTK with the token of the current nonce: AuthDone, RPTACK. *)
RecvKey(m) ==
    /\ mStatus = "AuthBegin" /\ m.verb = "RPTK"
    /\ m.val = Token(MKey, mNonce)
    /\ RecvM(m, "AuthDone", mNonce, mConfig, {Frame("R", "RPTACK", MID)})

(* AuthBegin, RPTK with any other token: back to AuthNone, MSTNAK. *)
RecvBadKey(m) ==
    /\ mStatus = "AuthBegin" /\ m.verb = "RPTK"
    /\ m.val # Token(MKey, mNonce)
    /\ RecvM(m, "AuthNone", mNonce, mConfig, {Frame("R", "MSTNAK", MID)})

(* AuthDone, MSTPING or RPTPING: reply RPTPONG or MSTPONG, echoing the ID. *)
RecvPing(m) ==
    /\ mStatus = "AuthDone" /\ m.verb \in {"MSTPING", "RPTPING"}
    /\ LET pong == IF m.verb = "MSTPING" THEN "RPTPONG" ELSE "MSTPONG"
       IN  RecvM(m, "AuthDone", mNonce, mConfig, {Frame("R", pong, m.val)})

(* AuthDone, RPTC: parse and store the configuration, reply RPTACK. *)
RecvConfig(m) ==
    /\ mStatus = "AuthDone" /\ m.verb = "RPTC"
    /\ RecvM(m, "AuthDone", mNonce, TRUE, {Frame("R", "RPTACK", MID)})

(* Everything else is dropped: a non-RPTL frame from an unknown address,   *)
(* any frame but RPTL in AuthNone or RPTK in AuthBegin, and in AuthDone    *)
(* RPTL, RPTK and RPTCL, for which the incoming switch has no case.        *)
RecvMIgnored(m) ==
    /\ \/ mStatus \in {"Absent", "AuthNone"} /\ m.verb # "RPTL"
       \/ mStatus = "AuthBegin" /\ m.verb # "RPTK"
       \/ mStatus = "AuthDone" /\ m.verb \in {"RPTL", "RPTK", "RPTCL"}
    /\ RecvM(m, mStatus, mNonce, mConfig, {})

HandleM(m) ==
    \/ RecvLogin(m) \/ RecvLoginNonceFailed(m) \/ RecvKey(m) \/ RecvBadKey(m)
    \/ RecvPing(m) \/ RecvConfig(m) \/ RecvMIgnored(m)

-----------------------------------------------------------------------------
(***************************************************************************)
(* R's keepalive goroutine: one scan of R's peers per second.             *)
(***************************************************************************)

(* The scan of a linked peer: status', the timers stamped, frames sent. *)
Scan(status, ts, out) ==
    /\ ~scanned /\ rLinked
    /\ scanned' = TRUE
    /\ rStatus' = status
    /\ rAge' = Stamp(rAge, ts)
    /\ net' = net \cup out
    /\ UNCHANGED <<rLinked, rToken, mStatus, mNonce, mConfig, losses>>

(* handleAuth from AuthNone: stamp PacketReceived and AuthSent, send RPTL. *)
Login == {"PacketReceived", "AuthSent"}

(* AuthFailed for longer than AuthTimeout since AuthSent: retry the login. *)
KeepaliveRetry ==
    /\ rStatus = "AuthFailed" /\ Expired("AuthSent", AuthTimeout)
    /\ Scan("AuthNone", Login, {Frame("M", "RPTL", RID)})

(* AuthNone or AuthBegin and nothing received for AuthTimeout: AuthFailed. *)
KeepaliveAuthTimeout ==
    /\ rStatus \in {"AuthNone", "AuthBegin"} /\ Expired("PacketReceived", AuthTimeout)
    /\ Scan("AuthFailed", {}, {})

(* AuthDone and no pong for PingTimeout: RPTCL, AuthNone, login again. *)
KeepalivePingTimeout ==
    /\ rStatus = "AuthDone" /\ Expired("PongReceived", PingTimeout)
    /\ Scan("AuthNone", Login, {Frame("M", "RPTCL", RID), Frame("M", "RPTL", RID)})

(* AuthDone, pong recent, no ping for PingInterval: stamp PingSent, RPTPING. *)
KeepalivePing ==
    /\ rStatus = "AuthDone" /\ ~Expired("PongReceived", PingTimeout)
    /\ Expired("PingSent", PingInterval)
    /\ Scan("AuthDone", {"PingSent"}, {Frame("M", "RPTPING", RID)})

(* No case of the switch applies. *)
KeepaliveIdle ==
    /\ \/ rStatus = "AuthFailed" /\ ~Expired("AuthSent", AuthTimeout)
       \/ rStatus \in {"AuthNone", "AuthBegin"} /\ ~Expired("PacketReceived", AuthTimeout)
       \/ rStatus = "AuthDone" /\ ~Expired("PongReceived", PingTimeout)
                               /\ ~Expired("PingSent", PingInterval)
    /\ Scan(rStatus, {}, {})

(* getPeers is empty when R's peer is unlinked: the scan does nothing. *)
KeepaliveUnlinked ==
    /\ ~scanned /\ ~rLinked
    /\ scanned' = TRUE
    /\ UNCHANGED <<rLinked, rStatus, rToken, rAge, mStatus, mNonce, mConfig, net, losses>>

Keepalive ==
    \/ KeepaliveRetry \/ KeepaliveAuthTimeout \/ KeepalivePingTimeout
    \/ KeepalivePing \/ KeepaliveIdle \/ KeepaliveUnlinked

-----------------------------------------------------------------------------
(* One second passes once the keepalive has scanned; with Timely, only     *)
(* once every datagram in flight has been read.                            *)
Tick ==
    /\ scanned
    /\ Timely => net = {}
    /\ scanned' = FALSE
    /\ rAge' = [t \in Timers |-> IF rAge[t] < Cap THEN rAge[t] + 1 ELSE Cap]
    /\ UNCHANGED <<rLinked, rStatus, rToken, mStatus, mNonce, mConfig, net, losses>>

(* The network loses a datagram. *)
Lose(m) ==
    /\ losses < MaxLosses /\ m \in net
    /\ net' = net \ {m}
    /\ losses' = losses + 1
    /\ UNCHANGED <<rLinked, rStatus, rToken, rAge, scanned, mStatus, mNonce, mConfig>>

Next ==
    \/ Link
    \/ \E m \in net : HandleR(m) \/ HandleM(m) \/ Lose(m)
    \/ Keepalive
    \/ Tick

Spec == Init /\ [][Next]_vars

(* The host links, both listeners read while datagrams are in flight, the  *)
(* keepalive scans and the clock advances.  Losses are finite (MaxLosses), *)
(* so nothing but the code can keep a datagram from being read.           *)
Fairness ==
    /\ WF_vars(Link)
    /\ WF_vars(\E m \in net : HandleR(m) \/ HandleM(m))
    /\ WF_vars(Keepalive)
    /\ WF_vars(Tick)

FairSpec == Spec /\ Fairness

-----------------------------------------------------------------------------
(* Every variable has the type the code gives it. *)
TypeOK ==
    /\ rLinked \in BOOLEAN
    /\ rStatus \in AuthStatus
    /\ rToken \in AckValues \cup {NoValue}
    /\ rAge \in [Timers -> Ages]
    /\ scanned \in BOOLEAN
    /\ mStatus \in {"Absent", "AuthNone", "AuthBegin", "AuthDone"}
    /\ mNonce \in Nonces \cup {NoValue}
    /\ mConfig \in BOOLEAN
    /\ net \subseteq Frames
    /\ losses \in 0..MaxLosses

(* The repeater believes it is logged in (R's peer in AuthDone, so R sends *)
(* RPTC, pings and DMR data) only when the master has authenticated it     *)
(* (M's peer in AuthDone).  The outgoing AuthBegin case takes any RPTACK   *)
(* as the login acceptance, so this rests on which RPTACKs can be in       *)
(* flight while M has not accepted R's key.                                *)
RepeaterDoneImpliesMasterDone ==
    rStatus = "AuthDone" => mStatus = "AuthDone"

(* The master authenticates the repeater (its peer reaches AuthDone) only *)
(* if the repeater holds the master's key: the RPTK token check of the     *)
(* incoming AuthBegin case is what keeps out a repeater with another key,  *)
(* whatever nonces, retries and stale RPTKs are in flight.                 *)
MasterAuthRequiresKey ==
    mStatus = "AuthDone" => RKey = MKey

(* Over a network that loses nothing and delivers within the second, the   *)
(* login of Link completes and the keepalive pings keep it up: eventually  *)
(* both peers are AuthDone for good.                                       *)
LinkStaysUp == <>[](rStatus = "AuthDone" /\ mStatus = "AuthDone")

(* Whatever (finitely many) datagrams are lost, the repeater gets logged in *)
(* again and again:                                                        *)
(* the comment of the incoming AuthNone case relies on the remote end's    *)
(* retries to recover from a missed frame.                                 *)
LinkRecovers == []<>(rStatus = "AuthDone")

(* The master's token check never turns the repeater away: once M's peer *)
(* has challenged R (AuthBegin), its next status change is to AuthDone,    *)
(* never back to AuthNone through RecvBadKey (homebrew.go:397-423), even   *)
(* though the network reorders and loses RPTK and RPTL frames and R        *)
(* retries its login.                                                      *)
ChallengeAnswered ==
    mStatus = "AuthBegin" => mStatus' \in {"AuthBegin", "AuthDone"}

TokenNeverRejected == [][ChallengeAnswered]_vars

=============================================================================
