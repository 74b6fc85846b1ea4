-------------------------- MODULE HomebrewEndpoint --------------------------
(***************************************************************************)
(* One Homebrew endpoint of src/homebrew/homebrew.go acting as master for  *)
(* several repeaters: the peer registry (h.Peer by address, h.PeerID by    *)
(* ID), the listener loop ListenAndServe -> handle for incoming peers, the *)
(* group relay handlePacket -> SendTG, and the host's Link, Unlink and     *)
(* Close.                                                                  *)
(*                                                                         *)
(* A *Peer is an object 1..nPeers; both maps hold objects, so that two    *)
(* entries denote the same peer exactly when the code's pointers are      *)
(* equal.  The handshake of an incoming peer is kept to its status steps  *)
(* (HomebrewLink models its messages); a token is right or wrong.  A       *)
(* datagram is a record of the fields handle looks at.  The outgoing      *)
(* branch of handle is HomebrewLink's and is not repeated here.           *)
(***************************************************************************)
EXTENDS Naturals

CONSTANTS
    Addrs,       \* remote UDP addresses
    IDs,         \* repeater IDs
    Claims,      \* the (address, ID) pairs repeaters log in with
    TGs,         \* talk groups the repeaters call
    DefaultTG,   \* the TGID handle gives an implicit peer (446)
    Kinds,       \* frame kinds sent in DMRD: "ok", or "bad" (kind 0b11)
    HostCloses,  \* whether the host calls Close
    MaxPeers     \* bound on the peers ever created

ASSUME EndpointAssumption ==
    /\ Claims \subseteq Addrs \X IDs
    /\ Kinds \subseteq {"ok", "bad"}
    /\ HostCloses \in BOOLEAN
    /\ MaxPeers \in Nat

VARIABLES
    byAddr,    \* h.Peer: address -> peer object, or Nil
    byId,      \* h.PeerID: ID -> peer object, or Nil
    peer,      \* peer object -> [id, addr, status, tg]
    nPeers,    \* the number of peer objects allocated so far
    closed,    \* h.closed (with the socket: Close closes both)
    lsn,       \* where ListenAndServe is, or what it returned
    pending,   \* the datagram the listener read, or NoDgram
    relay      \* the origin, talk group and targets of the SendTG just done

vars == <<byAddr, byId, peer, nPeers, closed, lsn, pending, relay>>

Nil == 0
Peers == 1..MaxPeers
NoDgram == [verb |-> "none"]
NoRelay == [tg |-> "none"]
Statuses == {"AuthNone", "AuthBegin", "AuthDone"}

(* The datagrams a repeater sends that change the master's state. *)
Dgrams ==
    [from : Addrs, verb : {"RPTL"}, id : IDs]
      \cup [from : Addrs, verb : {"RPTK"}, ok : BOOLEAN]
      \cup [from : Addrs, verb : {"DMRD"}, group : BOOLEAN, tg : TGs, kind : Kinds]

(* A repeater logs in with the ID it claims for its address. *)
Sent == {d \in Dgrams : d.verb = "RPTL" => <<d.from, d.id>> \in Claims}

-----------------------------------------------------------------------------
(* The objects some map holds. *)
Registered == ({byAddr[a] : a \in Addrs} \cup {byId[id] : id \in IDs}) \ {Nil}

(* getPeers: a snapshot of the values of h.Peer. *)
getPeers == {byAddr[a] : a \in Addrs} \ {Nil}

(* Mutant of Link: h.PeerID is not updated. *)
LinkAddrOnly(o, a, id) ==
    /\ byAddr' = [byAddr EXCEPT ![a] = o]
    /\ byId' = byId

(* Link, homebrew.go:153-183, for an incoming peer: both maps point to it. *)
Link(o, a, id) ==
    /\ byAddr' = [byAddr EXCEPT ![a] = o]
    /\ byId' = [byId EXCEPT ![id] = o]

(* A new peer object with the given fields. *)
NewPeer(a, id, status, tg) ==
    [o \in 1..nPeers + 1 |->
        IF o = nPeers + 1 THEN [id |-> id, addr |-> a, status |-> status, tg |-> tg]
        ELSE peer[o]]

(* Mutant of SendTG: the origin is not skipped. *)
SendTGNoSkip(o, tg) ==
    {q \in getPeers : peer[q].tg = tg}

(* SendTG, homebrew.go:244-259: every peer of the snapshot whose ID is not *)
(* the origin's and whose TGID is the destination.                        *)
SendTG(o, tg) ==
    {q \in getPeers : peer[q].id # peer[o].id /\ peer[q].tg = tg}

(* What ListenAndServe does with handle's result (homebrew.go:212-218 and *)
(* the loop test at 206): a failed write on a closed socket ends the loop *)
(* normally, any other error is returned; no error goes round again.      *)
AfterHandle(wrote, parseErr) ==
    lsn' = CASE parseErr -> "error"
             [] wrote /\ closed -> "nil"
             [] OTHER -> "check"

Init ==
    /\ byAddr = [a \in Addrs |-> Nil]
    /\ byId = [id \in IDs |-> Nil]
    /\ peer = <<>>
    /\ nPeers = 0
    /\ closed = FALSE
    /\ lsn = "check"
    /\ pending = NoDgram
    /\ relay = NoRelay

-----------------------------------------------------------------------------
(* The loop test `for !h.closed`, homebrew.go:206. *)
LoopCheck ==
    /\ lsn = "check"
    /\ lsn' = IF closed THEN "nil" ELSE "reading"
    /\ relay' = NoRelay
    /\ UNCHANGED <<byAddr, byId, peer, nPeers, closed, pending>>

(* A datagram that makes handle create a peer object. *)
NeedsPeer(d) == d.verb = "RPTL" /\ byAddr[d.from] = Nil

(* ReadFromUDP returns a datagram (homebrew.go:207). *)
ReadDatagram ==
    /\ lsn = "reading" /\ ~closed
    /\ \E d \in Sent :
          /\ NeedsPeer(d) => nPeers < MaxPeers
          /\ pending' = d
    /\ lsn' = "handle"
    /\ relay' = NoRelay
    /\ UNCHANGED <<byAddr, byId, peer, nPeers, closed>>

(* ReadFromUDP fails on the closed socket and the error is returned,      *)
(* homebrew.go:207-211.                                                    *)
ReadClosed ==
    /\ lsn = "reading" /\ closed
    /\ lsn' = "error"
    /\ relay' = NoRelay
    /\ UNCHANGED <<byAddr, byId, peer, nPeers, closed, pending>>

(* Mutant of HandleNewLogin: the maps get the last object allocated      *)
(* before the new one.                                                     *)
HandleNewLoginStale(d) ==
    /\ d.verb = "RPTL" /\ byAddr[d.from] = Nil
    /\ peer' = NewPeer(d.from, d.id, "AuthNone", DefaultTG)
    /\ nPeers' = nPeers + 1
    /\ Link(nPeers, d.from, d.id)
    /\ lsn' = "linked"
    /\ UNCHANGED relay

(* handle, homebrew.go:329-345: RPTL from an unknown address creates an   *)
(* incoming AuthNone peer with the claimed ID and the default TGID and     *)
(* links it.  handle holds no lock from here to the lookup at 347.         *)
HandleNewLogin(d) ==
    /\ d.verb = "RPTL" /\ byAddr[d.from] = Nil
    /\ peer' = NewPeer(d.from, d.id, "AuthNone", DefaultTG)
    /\ nPeers' = nPeers + 1
    /\ Link(nPeers + 1, d.from, d.id)
    /\ lsn' = "linked"
    /\ UNCHANGED relay

(* homebrew.go:347-359: the lookup by address finds nothing (the host has  *)
(* unlinked the peer since 345) and peer.Last dereferences nil: the        *)
(* listener goroutine panics and takes the process down.                   *)
HandleNilPeer(d) ==
    /\ byAddr[d.from] = Nil
    /\ lsn' = "panic"
    /\ UNCHANGED <<byAddr, byId, peer, nPeers, relay>>

(* Any other datagram from an unknown address is dropped, homebrew.go:345. *)
HandleUnknown(d) ==
    /\ d.verb # "RPTL" /\ byAddr[d.from] = Nil
    /\ AfterHandle(FALSE, FALSE)
    /\ UNCHANGED <<byAddr, byId, peer, nPeers, relay>>

(* RPTL to an AuthNone peer, homebrew.go:364-381: a nonce and AuthBegin,  *)
(* or a NAK if rand.Read fails.                                            *)
HandleLogin(d) ==
    LET o == byAddr[d.from] IN
    /\ o # Nil /\ d.verb = "RPTL" /\ peer[o].status = "AuthNone"
    /\ \E status \in {"AuthBegin", "AuthNone"} :
          peer' = [peer EXCEPT ![o].status = status]
    /\ AfterHandle(TRUE, FALSE)
    /\ UNCHANGED <<byAddr, byId, nPeers, relay>>

(* Mutant of HandleKey: a wrong token leaves the peer AuthFailed. *)
HandleKeyFailed(d) ==
    LET o == byAddr[d.from] IN
    /\ o # Nil /\ d.verb = "RPTK" /\ peer[o].status = "AuthBegin"
    /\ peer' = [peer EXCEPT ![o].status = IF d.ok THEN "AuthDone" ELSE "AuthFailed"]
    /\ AfterHandle(TRUE, FALSE)
    /\ UNCHANGED <<byAddr, byId, nPeers, relay>>

(* RPTK to an AuthBegin peer, homebrew.go:397-423: the right token gives  *)
(* AuthDone and an ACK, a wrong one (or length) AuthNone and a NAK.        *)
HandleKey(d) ==
    LET o == byAddr[d.from] IN
    /\ o # Nil /\ d.verb = "RPTK" /\ peer[o].status = "AuthBegin"
    /\ peer' = [peer EXCEPT ![o].status = IF d.ok THEN "AuthDone" ELSE "AuthNone"]
    /\ AfterHandle(TRUE, FALSE)
    /\ UNCHANGED <<byAddr, byId, nPeers, relay>>

(* DMRD of an authenticated incoming peer, homebrew.go:488-493 and the    *)
(* handlePacket it calls, homebrew.go:600-627, with no callback set.  A    *)
(* frame of kind 0b11 fails parseData and the error leaves handle; a       *)
(* group call sets the origin's TGID and is relayed by SendTG; a private   *)
(* call is dropped.                                                        *)
HandleData(d) ==
    LET o == byAddr[d.from] IN
    /\ o # Nil /\ d.verb = "DMRD" /\ peer[o].status = "AuthDone"
    /\ IF d.kind = "bad"
       THEN /\ AfterHandle(FALSE, TRUE)
            /\ UNCHANGED <<peer, relay>>
       ELSE IF d.group
       THEN LET targets == SendTG(o, d.tg) IN
            /\ peer' = [peer EXCEPT ![o].tg = d.tg]
            /\ relay' = [from |-> o, tg |-> d.tg, to |-> targets]
            /\ AfterHandle(targets # {}, FALSE)
       ELSE /\ AfterHandle(FALSE, FALSE)
            /\ UNCHANGED <<peer, relay>>
    /\ UNCHANGED <<byAddr, byId, nPeers>>

(* Everything else from a known peer is dropped: DMRD before AuthDone      *)
(* (homebrew.go:356-359), RPTL out of AuthNone, RPTK out of AuthBegin.     *)
HandleIgnored(d) ==
    LET o == byAddr[d.from] IN
    /\ o # Nil
    /\ \/ d.verb = "DMRD" /\ peer[o].status # "AuthDone"
       \/ d.verb = "RPTL" /\ peer[o].status # "AuthNone"
       \/ d.verb = "RPTK" /\ peer[o].status # "AuthBegin"
    /\ AfterHandle(FALSE, FALSE)
    /\ UNCHANGED <<byAddr, byId, peer, nPeers, relay>>

(* handle on a datagram from a known address, or one it drops. *)
Handle ==
    /\ lsn = "handle"
    /\ \/ HandleUnknown(pending)
       \/ HandleLogin(pending) \/ HandleKey(pending)
       \/ HandleData(pending) \/ HandleIgnored(pending)
    /\ pending' = NoDgram
    /\ UNCHANGED closed

(* handle on an RPTL from an unknown address, up to the implicit Link. *)
ImplicitLink ==
    /\ lsn = "handle"
    /\ HandleNewLogin(pending)
    /\ UNCHANGED <<closed, pending>>

(* The rest of that handle call on whatever peer getPeerByAddr returns     *)
(* now: the AuthNone RPTL branch (369-386), or the nil dereference.        *)
ImplicitLookup ==
    /\ lsn = "linked"
    /\ \/ HandleLogin(pending)
       \/ HandleNilPeer(pending)
    /\ pending' = NoDgram
    /\ UNCHANGED closed

-----------------------------------------------------------------------------
(* The host's calls.  ReadDatagram changes nothing but lsn and pending, so *)
(* a host call between it and Handle is the same as one before it; host    *)
(* calls wait while a datagram is pending, which keeps a pending RPTL      *)
(* within the bound on peer objects.                                       *)

(* The host links an incoming peer it expects, homebrew.go:153-183 (Link  *)
(* returns before handleAuth for an incoming peer).                        *)
HostLink ==
    /\ lsn # "handle" /\ nPeers < MaxPeers
    /\ \E c \in Claims, tg \in TGs :
          /\ peer' = NewPeer(c[1], c[2], "AuthNone", tg)
          /\ Link(nPeers + 1, c[1], c[2])
    /\ nPeers' = nPeers + 1
    /\ relay' = NoRelay
    /\ UNCHANGED <<closed, lsn, pending>>

(* Unlink, homebrew.go:185-197: the peer h.PeerID holds for the ID is      *)
(* removed from h.Peer under its address and from h.PeerID.                *)
Unlink ==
    /\ lsn # "handle"
    /\ \E id \in IDs :
          /\ byId[id] # Nil
          /\ byAddr' = [byAddr EXCEPT ![peer[byId[id]].addr] = Nil]
          /\ byId' = [byId EXCEPT ![id] = Nil]
    /\ relay' = NoRelay
    /\ UNCHANGED <<peer, nPeers, closed, lsn, pending>>

(* Close, homebrew.go:121-150: when active, RPTCL to AuthDone peers, the   *)
(* keepalive stopped, h.closed set and the socket closed.  The registry   *)
(* is left as it is.                                                       *)
Close ==
    /\ HostCloses /\ ~closed
    /\ closed' = TRUE
    /\ relay' = NoRelay
    /\ UNCHANGED <<byAddr, byId, peer, nPeers, lsn, pending>>

Next ==
    \/ LoopCheck \/ ReadDatagram \/ ReadClosed \/ Handle
    \/ ImplicitLink \/ ImplicitLookup
    \/ HostLink \/ Unlink \/ Close

Spec == Init /\ [][Next]_vars

-----------------------------------------------------------------------------
PeerRec == [id : IDs, addr : Addrs, status : Statuses, tg : TGs \cup {DefaultTG}]

TypeOK ==
    /\ nPeers \in 0..MaxPeers
    /\ peer \in [1..nPeers -> PeerRec]
    /\ byAddr \in [Addrs -> 0..nPeers]
    /\ byId \in [IDs -> 0..nPeers]
    /\ closed \in BOOLEAN
    /\ lsn \in {"check", "reading", "handle", "linked", "nil", "error", "panic"}
    /\ pending \in Sent \cup {NoDgram}

(* Registry bijection (spec §3, §8): a peer is in h.Peer exactly when it   *)
(* is in h.PeerID, whatever sequence of host Link/Unlink calls and        *)
(* implicit logins from repeaters led there.                               *)
RegistryBijection ==
    \A o \in 1..nPeers :
        (\E a \in Addrs : byAddr[a] = o) <=> (\E id \in IDs : byId[id] = o)

(* Group relay (spec §4.7, scenario 5): the frame a peer sends to a talk   *)
(* group reaches every other registered peer subscribed to that group and *)
(* no one else; SendTG recognises the origin by its ID.                    *)
RelayToSubscribers ==
    relay # NoRelay =>
        relay.to = {q \in Registered : q # relay.from /\ peer[q].tg = relay.tg}

(* The listener ends only normally (spec §4.5, §7): after Close, or never; *)
(* a per-datagram error is logged and the loop continues, and no datagram  *)
(* crashes the listener, whatever the host's Link and Unlink (run          *)
(* concurrently on a thread-safe registry, spec §5) do meanwhile.          *)
ListenerEndsCleanly == lsn \notin {"error", "panic"}

-----------------------------------------------------------------------------
(* The registry seen as the abstract one: the (address, ID) pairs of the   *)
(* peers the maps hold.                                                    *)
LinkedPairs == {<<peer[o].addr, peer[o].id>> : o \in Registered}

Abs == INSTANCE RegistryAbstract WITH linked <- LinkedPairs

(* The registry implements the abstract registry: every Link, Unlink and  *)
(* implicit login of the endpoint is a link or unlink of the abstract      *)
(* registry, and every other step leaves its pairs alone.                  *)
RegistryRefinement == Abs!Spec


=============================================================================
