----------------------- MODULE HomebrewEndpointProofs -----------------------
(***************************************************************************)
(* Proofs about HomebrewEndpoint: the type invariant, and that the peer    *)
(* registry implements RegistryAbstract whenever every address and every   *)
(* ID is claimed by at most one repeater.                                  *)
(***************************************************************************)
EXTENDS HomebrewEndpoint, TLAPS

(* Repeaters and host agree on one ID per address and one address per ID. *)
ClaimsInjective ==
    \A c, d \in Claims : (c[1] = d[1] \/ c[2] = d[2]) => c = d

(* A peer record with a claimed (address, ID) pair. *)
ClaimedPeers ==
    {r \in PeerRec : <<r.addr, r.id>> \in Claims}

(* The two maps agree: an entry of either map holds a peer whose address  *)
(* and ID lead back to it through both maps.  (Stated for any maps, so     *)
(* that it applies to primed states as well.)                               *)
Consistent(bA, bI, pr) ==
    /\ \A a \in Addrs : bA[a] # Nil =>
          pr[bA[a]].addr = a /\ bI[pr[bA[a]].id] = bA[a]
    /\ \A id \in IDs : bI[id] # Nil =>
          pr[bI[id]].id = id /\ bA[pr[bI[id]].addr] = bI[id]

(* TypeOK, strengthened: a datagram is pending while the listener handles *)
(* it (also between the implicit Link and the lookup), and an RPTL from a *)
(* new address is read only while there is room for its peer object (the  *)
(* host waits while a datagram is pending).                                *)
TInv ==
    /\ TypeOK
    /\ lsn \in {"handle", "linked"} => pending \in Sent
    /\ lsn = "handle" /\ NeedsPeer(pending) => nPeers < MaxPeers

(* The inductive invariant of the refinement. *)
IInv ==
    /\ TInv
    /\ peer \in [1..nPeers -> ClaimedPeers]
    /\ Consistent(byAddr, byId, peer)

-----------------------------------------------------------------------------
(* The fields a new peer object gets are typed. *)
LEMMA NewPeerType ==
    ASSUME TypeOK, nPeers < MaxPeers,
           NEW a \in Addrs, NEW id \in IDs, NEW st \in Statuses,
           NEW tg \in TGs \cup {DefaultTG}
    PROVE  NewPeer(a, id, st, tg) \in [1..nPeers + 1 -> PeerRec]
BY DEF NewPeer, TypeOK, PeerRec

LEMMA TInvInit == Init => TInv
<1> SUFFICES ASSUME Init PROVE TInv
  OBVIOUS
<1>1. MaxPeers \in Nat
  BY EndpointAssumption
<1>2. peer \in [1..nPeers -> PeerRec]
  <2>1. 1..nPeers = {}
    BY DEF Init
  <2>2. peer = [o \in {} |-> peer[o]]
    BY DEF Init
  <2>3. QED
    BY <2>1, <2>2
<1>3. byAddr \in [Addrs -> 0..nPeers] /\ byId \in [IDs -> 0..nPeers]
  BY DEF Init, Nil
<1>4. pending \in Sent \cup {NoDgram}
  BY DEF Init
<1>5. nPeers \in 0..MaxPeers
  BY <1>1 DEF Init
<1>7. /\ closed \in BOOLEAN
      /\ lsn \in {"check", "reading", "handle", "linked", "nil", "error", "panic"}
  BY DEF Init
<1>8. TypeOK
  BY <1>2, <1>3, <1>4, <1>5, <1>7 DEF TypeOK
<1>6. QED
  BY <1>8 DEF Init, TInv

(* The host's calls and the listener's loop steps keep TInv. *)
LEMMA HostLinkType == TInv /\ HostLink => TInv'
<1> SUFFICES ASSUME TInv, HostLink PROVE TInv'
  OBVIOUS
<1>1. PICK c \in Claims, tg \in TGs :
          /\ peer' = NewPeer(c[1], c[2], "AuthNone", tg)
          /\ Link(nPeers + 1, c[1], c[2])
  BY DEF HostLink
<1>2. c[1] \in Addrs /\ c[2] \in IDs
  BY EndpointAssumption
<1>3. peer' \in [1..nPeers + 1 -> PeerRec]
  BY <1>1, <1>2, NewPeerType DEF TInv, HostLink, Statuses
<1>4. byAddr' \in [Addrs -> 0..nPeers + 1] /\ byId' \in [IDs -> 0..nPeers + 1]
  BY <1>1, <1>2 DEF TInv, TypeOK, Link
<1>5. nPeers' \in 0..MaxPeers
  BY EndpointAssumption DEF TInv, TypeOK, HostLink
<1>6. TypeOK'
  BY <1>3, <1>4, <1>5 DEF TInv, TypeOK, HostLink
<1>7. QED
  BY <1>6 DEF TInv, HostLink

LEMMA UnlinkType == TInv /\ Unlink => TInv'
<1> SUFFICES ASSUME TInv, Unlink PROVE TInv'
  OBVIOUS
<1>1. PICK id \in IDs :
          /\ byId[id] # Nil
          /\ byAddr' = [byAddr EXCEPT ![peer[byId[id]].addr] = Nil]
          /\ byId' = [byId EXCEPT ![id] = Nil]
  BY DEF Unlink
<1>2. peer[byId[id]].addr \in Addrs
  BY <1>1 DEF TInv, TypeOK, PeerRec, Nil
<1>3. TypeOK'
  BY <1>1, <1>2 DEF TInv, TypeOK, Unlink, Nil
<1>4. QED
  BY <1>3 DEF TInv, Unlink

LEMMA LoopType == TInv /\ (LoopCheck \/ ReadDatagram \/ ReadClosed \/ Close) => TInv'
<1> SUFFICES ASSUME TInv, LoopCheck \/ ReadDatagram \/ ReadClosed \/ Close PROVE TInv'
  OBVIOUS
<1>1. CASE LoopCheck
  BY <1>1 DEF TInv, TypeOK, LoopCheck
<1>2. CASE ReadDatagram
  <2>1. PICK d \in Sent : (NeedsPeer(d) => nPeers < MaxPeers) /\ pending' = d
    BY <1>2 DEF ReadDatagram
  <2>2. NeedsPeer(d)' = NeedsPeer(d)
    BY <1>2 DEF ReadDatagram, NeedsPeer
  <2>3. QED
    BY <1>2, <2>1, <2>2 DEF TInv, TypeOK, ReadDatagram
<1>3. CASE ReadClosed
  BY <1>3 DEF TInv, TypeOK, ReadClosed
<1>4. CASE Close
  BY <1>4 DEF TInv, TypeOK, Close, NeedsPeer
<1>5. QED
  BY <1>1, <1>2, <1>3, <1>4

(* What a pending datagram carries. *)
LEMMA SentFields ==
    ASSUME NEW d \in Sent
    PROVE  /\ d.from \in Addrs
           /\ d.verb \in {"RPTL", "RPTK", "DMRD"}
           /\ d.verb = "RPTL" => d.id \in IDs
           /\ d.verb = "DMRD" => d.tg \in TGs
BY DEF Sent, Dgrams

(* Handle ends the listener's handling of the datagram. *)
LEMMA HandleEnds ==
    ASSUME Handle
    PROVE  lsn' \in {"check", "nil", "error"} /\ pending' = NoDgram
BY DEF Handle, HandleUnknown, HandleLogin, HandleKey,
       HandleData, HandleIgnored, AfterHandle

(* A handler that changes the status or the TGID of a registered peer    *)
(* keeps the types.                                                        *)
LEMMA PeerStatusType ==
    ASSUME TypeOK, NEW o \in 1..nPeers, NEW st \in Statuses
    PROVE  [peer EXCEPT ![o].status = st] \in [1..nPeers -> PeerRec]
BY DEF TypeOK, PeerRec

LEMMA PeerTgType ==
    ASSUME TypeOK, NEW o \in 1..nPeers, NEW tg \in TGs
    PROVE  [peer EXCEPT ![o].tg = tg] \in [1..nPeers -> PeerRec]
BY DEF TypeOK, PeerRec

(* The peer a known address leads to is an allocated object. *)
LEMMA KnownPeer ==
    ASSUME TypeOK, NEW d \in Sent, byAddr[d.from] # Nil
    PROVE  byAddr[d.from] \in 1..nPeers
BY SentFields DEF TypeOK, Nil

LEMMA HandleType == TInv /\ Handle => TInv'
<1> SUFFICES ASSUME TInv, Handle PROVE TInv'
  OBVIOUS
<1> DEFINE d == pending
<1>1. d \in Sent /\ TypeOK
  BY DEF Handle, TInv
<1>2. lsn' \in {"check", "nil", "error"} /\ pending' = NoDgram
  BY HandleEnds
<1>3. UNCHANGED closed
  BY DEF Handle
<1>5. CASE HandleLogin(d) \/ HandleKey(d)
  <2>1. PICK st \in Statuses : peer' = [peer EXCEPT ![byAddr[d.from]].status = st]
    BY <1>5 DEF HandleLogin, HandleKey, Statuses
  <2>2. byAddr[d.from] # Nil /\ byAddr' = byAddr /\ byId' = byId /\ nPeers' = nPeers
    BY <1>5 DEF HandleLogin, HandleKey
  <2>3. peer' \in [1..nPeers -> PeerRec]
    BY <1>1, <2>1, <2>2, KnownPeer, PeerStatusType
  <2>4. QED
    BY <1>1, <1>2, <1>3, <2>2, <2>3 DEF TInv, TypeOK, NeedsPeer
<1>6. CASE HandleData(d)
  <2>1. byAddr[d.from] # Nil /\ byAddr' = byAddr /\ byId' = byId /\ nPeers' = nPeers /\ d.verb = "DMRD"
    BY <1>6 DEF HandleData
  <2>2. peer' = peer \/ peer' = [peer EXCEPT ![byAddr[d.from]].tg = d.tg]
    BY <1>6 DEF HandleData
  <2>3. d.tg \in TGs
    BY <1>1, <2>1, SentFields
  <2>4. peer' \in [1..nPeers -> PeerRec]
    <3>1. byAddr[d.from] \in 1..nPeers
      BY <1>1, <2>1, KnownPeer
    <3>2. CASE peer' = peer
      BY <1>1, <3>2 DEF TypeOK
    <3>3. CASE peer' = [peer EXCEPT ![byAddr[d.from]].tg = d.tg]
      BY <1>1, <2>3, <3>1, <3>3, PeerTgType
    <3>4. QED
      BY <2>2, <3>2, <3>3
  <2>5. QED
    BY <1>1, <1>2, <1>3, <2>1, <2>4 DEF TInv, TypeOK, NeedsPeer
<1>7. CASE HandleUnknown(d) \/ HandleIgnored(d)
  BY <1>1, <1>2, <1>3, <1>7 DEF TInv, TypeOK, HandleUnknown, HandleIgnored, NeedsPeer
<1>8. QED
  BY <1>5, <1>6, <1>7 DEF Handle

(* The implicit Link of an RPTL from a new address keeps TInv. *)
LEMMA ImplicitLinkType == TInv /\ ImplicitLink => TInv'
<1> SUFFICES ASSUME TInv, ImplicitLink PROVE TInv'
  OBVIOUS
<1> DEFINE d == pending
<1>1. d \in Sent /\ TypeOK /\ HandleNewLogin(d)
  BY DEF ImplicitLink, TInv
<1>2. nPeers < MaxPeers /\ d.id \in IDs /\ d.from \in Addrs
  BY <1>1, SentFields DEF ImplicitLink, HandleNewLogin, TInv, NeedsPeer
<1>3. peer' \in [1..nPeers + 1 -> PeerRec]
  BY <1>1, <1>2, NewPeerType DEF HandleNewLogin, Statuses
<1>4. byAddr' \in [Addrs -> 0..nPeers + 1] /\ byId' \in [IDs -> 0..nPeers + 1]
  BY <1>1, <1>2 DEF HandleNewLogin, Link, TypeOK
<1>5. nPeers' \in 0..MaxPeers
  BY <1>1, <1>2, EndpointAssumption DEF HandleNewLogin, TypeOK
<1>6. lsn' = "linked" /\ pending' = d /\ closed' = closed
  BY <1>1 DEF ImplicitLink, HandleNewLogin
<1>7. QED
  BY <1>1, <1>3, <1>4, <1>5, <1>6 DEF TInv, TypeOK, HandleNewLogin

(* The rest of the implicit login keeps TInv, whether the lookup finds a *)
(* peer or nil.                                                            *)
LEMMA ImplicitLookupType == TInv /\ ImplicitLookup => TInv'
<1> SUFFICES ASSUME TInv, ImplicitLookup PROVE TInv'
  OBVIOUS
<1> DEFINE d == pending
<1>1. d \in Sent /\ TypeOK /\ pending' = NoDgram /\ closed' = closed
  BY DEF ImplicitLookup, TInv
<1>2. CASE HandleLogin(d)
  <2>1. PICK st \in Statuses : peer' = [peer EXCEPT ![byAddr[d.from]].status = st]
    BY <1>2 DEF HandleLogin, Statuses
  <2>2. byAddr[d.from] # Nil /\ byAddr' = byAddr /\ byId' = byId /\ nPeers' = nPeers
    BY <1>2 DEF HandleLogin
  <2>3. peer' \in [1..nPeers -> PeerRec]
    BY <1>1, <2>1, <2>2, KnownPeer, PeerStatusType
  <2>4. lsn' \in {"check", "nil", "error"}
    BY <1>2 DEF HandleLogin, AfterHandle
  <2>5. QED
    BY <1>1, <2>2, <2>3, <2>4 DEF TInv, TypeOK
<1>3. CASE HandleNilPeer(d)
  BY <1>1, <1>3 DEF TInv, TypeOK, HandleNilPeer
<1>4. QED
  BY <1>2, <1>3 DEF ImplicitLookup

(* TInv is inductive. *)
LEMMA TInvStep == TInv /\ [Next]_vars => TInv'
<1> SUFFICES ASSUME TInv, [Next]_vars PROVE TInv'
  OBVIOUS
<1>1. CASE UNCHANGED vars
  BY <1>1 DEF TInv, TypeOK, vars, NeedsPeer
<1>2. QED
  BY <1>1, HostLinkType, UnlinkType, LoopType, HandleType, ImplicitLinkType,
     ImplicitLookupType DEF Next

(* The endpoint's state always has the types TypeOK states, for any sets  *)
(* of addresses, IDs, claims and talk groups and any bound on peers.      *)
THEOREM EndpointTypeCorrect == Spec => []TypeOK
<1>1. Init => TInv
  BY TInvInit
<1>2. TInv /\ [][Next]_vars => []TInv
  BY TInvStep, PTL
<1>3. QED
  BY <1>1, <1>2, PTL DEF Spec, TInv

-----------------------------------------------------------------------------
(* With injective claims, the address and the ID of a claim lead to the   *)
(* same object, or both to none: a registered peer has a claimed pair.    *)
LEMMA ClaimAligned ==
    ASSUME ClaimsInjective, TypeOK, peer \in [1..nPeers -> ClaimedPeers],
           Consistent(byAddr, byId, peer), NEW c \in Claims
    PROVE  byAddr[c[1]] = byId[c[2]]
<1>1. c[1] \in Addrs /\ c[2] \in IDs /\ c = <<c[1], c[2]>>
  BY EndpointAssumption
<1>2. CASE byAddr[c[1]] # Nil
  <2> DEFINE o == byAddr[c[1]]
  <2>1. o \in 1..nPeers
    BY <1>1, <1>2 DEF TypeOK, Nil
  <2>2. peer[o].addr = c[1] /\ byId[peer[o].id] = o
    BY <1>1, <1>2 DEF Consistent
  <2>3. <<peer[o].addr, peer[o].id>> \in Claims
    BY <2>1 DEF ClaimedPeers
  <2>4. peer[o].id = c[2]
    BY <1>1, <2>2, <2>3 DEF ClaimsInjective
  <2>5. QED
    BY <2>2, <2>4
<1>3. CASE byId[c[2]] # Nil
  <2> DEFINE o == byId[c[2]]
  <2>1. o \in 1..nPeers
    BY <1>1, <1>3 DEF TypeOK, Nil
  <2>2. peer[o].id = c[2] /\ byAddr[peer[o].addr] = o
    BY <1>1, <1>3 DEF Consistent
  <2>3. <<peer[o].addr, peer[o].id>> \in Claims
    BY <2>1 DEF ClaimedPeers
  <2>4. peer[o].addr = c[1]
    BY <1>1, <2>2, <2>3 DEF ClaimsInjective
  <2>5. QED
    BY <2>2, <2>4
<1>4. QED
  BY <1>2, <1>3

(* Linking a new object under an address and an ID that led to the same  *)
(* object, or to none, keeps the maps consistent: the old object loses    *)
(* both entries at once.                                                   *)
LEMMA LinkConsistent ==
    ASSUME TypeOK, Consistent(byAddr, byId, peer),
           NEW a \in Addrs, NEW id \in IDs, NEW st, NEW tg,
           byAddr[a] = byId[id]
    PROVE  Consistent([byAddr EXCEPT ![a] = nPeers + 1],
                      [byId EXCEPT ![id] = nPeers + 1],
                      NewPeer(a, id, st, tg))
<1> DEFINE bA == [byAddr EXCEPT ![a] = nPeers + 1]
           bI == [byId EXCEPT ![id] = nPeers + 1]
           pr == NewPeer(a, id, st, tg)
<1>1. pr[nPeers + 1].addr = a /\ pr[nPeers + 1].id = id
  BY DEF NewPeer, TypeOK
<1>2. \A o \in 1..nPeers : pr[o] = peer[o]
  BY DEF NewPeer, TypeOK
<1>3. ASSUME NEW a2 \in Addrs, bA[a2] # Nil
      PROVE  pr[bA[a2]].addr = a2 /\ bI[pr[bA[a2]].id] = bA[a2]
  <2>1. CASE a2 = a
    BY <1>1, <2>1 DEF TypeOK
  <2>2. CASE a2 # a
    <3> DEFINE o == byAddr[a2]
    <3>1. o \in 1..nPeers /\ bA[a2] = o
      BY <1>3, <2>2 DEF TypeOK, Nil
    <3>2. peer[o].addr = a2 /\ byId[peer[o].id] = o /\ peer[o].id \in IDs
      BY <3>1 DEF Consistent, TypeOK, PeerRec, Nil
    <3>3. peer[o].id # id
      BY <2>2, <3>1, <3>2 DEF Consistent, Nil
    <3>4. QED
      BY <1>2, <3>1, <3>2, <3>3 DEF TypeOK
  <2>3. QED
    BY <2>1, <2>2
<1>4. ASSUME NEW id2 \in IDs, bI[id2] # Nil
      PROVE  pr[bI[id2]].id = id2 /\ bA[pr[bI[id2]].addr] = bI[id2]
  <2>1. CASE id2 = id
    BY <1>1, <2>1 DEF TypeOK
  <2>2. CASE id2 # id
    <3> DEFINE o == byId[id2]
    <3>1. o \in 1..nPeers /\ bI[id2] = o
      BY <1>4, <2>2 DEF TypeOK, Nil
    <3>2. peer[o].id = id2 /\ byAddr[peer[o].addr] = o /\ peer[o].addr \in Addrs
      BY <3>1 DEF Consistent, TypeOK, PeerRec, Nil
    <3>3. peer[o].addr # a
      BY <2>2, <3>1, <3>2 DEF Consistent, Nil
    <3>4. QED
      BY <1>2, <3>1, <3>2, <3>3 DEF TypeOK
  <2>3. QED
    BY <2>1, <2>2
<1>5. QED
  BY <1>3, <1>4 DEF Consistent

(* Unlink clears the entries of one object under both maps. *)
LEMMA UnlinkConsistent ==
    ASSUME TypeOK, Consistent(byAddr, byId, peer), NEW id \in IDs, byId[id] # Nil
    PROVE  Consistent([byAddr EXCEPT ![peer[byId[id]].addr] = Nil],
                      [byId EXCEPT ![id] = Nil], peer)
<1> DEFINE o == byId[id]
           a == peer[o].addr
           bA == [byAddr EXCEPT ![a] = Nil]
           bI == [byId EXCEPT ![id] = Nil]
<1>1. o \in 1..nPeers /\ a \in Addrs /\ byAddr[a] = o /\ peer[o].id = id
  BY DEF TypeOK, PeerRec, Consistent, Nil
<1>2. ASSUME NEW a2 \in Addrs, bA[a2] # Nil
      PROVE  peer[bA[a2]].addr = a2 /\ bI[peer[bA[a2]].id] = bA[a2]
  <2>1. a2 # a /\ bA[a2] = byAddr[a2] /\ byAddr[a2] # Nil
    BY <1>1, <1>2 DEF TypeOK
  <2>2. peer[byAddr[a2]].addr = a2 /\ byId[peer[byAddr[a2]].id] = byAddr[a2]
    BY <2>1 DEF Consistent
  <2>3. peer[byAddr[a2]].id # id
    BY <1>1, <2>1, <2>2
  <2>4. QED
    BY <2>1, <2>2, <2>3 DEF TypeOK
<1>3. ASSUME NEW id2 \in IDs, bI[id2] # Nil
      PROVE  peer[bI[id2]].id = id2 /\ bA[peer[bI[id2]].addr] = bI[id2]
  <2>1. id2 # id /\ bI[id2] = byId[id2] /\ byId[id2] # Nil
    BY <1>3 DEF TypeOK
  <2>2. peer[byId[id2]].id = id2 /\ byAddr[peer[byId[id2]].addr] = byId[id2]
    BY <2>1 DEF Consistent
  <2>3. peer[byId[id2]].addr # a
    BY <1>1, <2>1, <2>2
  <2>4. QED
    BY <2>1, <2>2, <2>3 DEF TypeOK
<1>4. QED
  BY <1>2, <1>3 DEF Consistent

-----------------------------------------------------------------------------
(* LinkedPairs for any maps and peer table, and, under consistent maps,  *)
(* the same set read off the two maps alone.                               *)
RegPairs(bA, bI, pr) ==
    {<<pr[o].addr, pr[o].id>> :
        o \in ({bA[a] : a \in Addrs} \cup {bI[id] : id \in IDs}) \ {Nil}}

Pairs(bA, bI) ==
    {p \in Addrs \X IDs : bA[p[1]] # Nil /\ bI[p[2]] = bA[p[1]]}

LEMMA PairsChar ==
    ASSUME NEW n \in Nat, NEW bA \in [Addrs -> 0..n], NEW bI \in [IDs -> 0..n],
           NEW pr \in [1..n -> PeerRec], Consistent(bA, bI, pr)
    PROVE  RegPairs(bA, bI, pr) = Pairs(bA, bI)
<1>1. ASSUME NEW o \in ({bA[a] : a \in Addrs} \cup {bI[id] : id \in IDs}) \ {Nil}
      PROVE  <<pr[o].addr, pr[o].id>> \in Pairs(bA, bI)
  <2>1. CASE \E a \in Addrs : bA[a] = o
    BY <1>1, <2>1 DEF Consistent, Pairs, PeerRec, Nil
  <2>2. CASE \E id \in IDs : bI[id] = o
    BY <1>1, <2>2 DEF Consistent, Pairs, PeerRec, Nil
  <2>3. QED
    BY <2>1, <2>2
<1>2. ASSUME NEW p \in Pairs(bA, bI)
      PROVE  p \in RegPairs(bA, bI, pr)
  <2> DEFINE o == bA[p[1]]
  <2>1. p[1] \in Addrs /\ p[2] \in IDs /\ p = <<p[1], p[2]>> /\ o # Nil /\ bI[p[2]] = o
    BY DEF Pairs
  <2>2. pr[o].addr = p[1] /\ pr[o].id = p[2]
    BY <2>1 DEF Consistent
  <2>3. QED
    BY <2>1, <2>2 DEF RegPairs
<1>3. QED
  BY <1>1, <1>2 DEF RegPairs

(* Linking a fresh object under a and id replaces every pair with a or   *)
(* with id by <<a, id>>: the abstract link.                                *)
LEMMA PairsLink ==
    ASSUME nPeers \in Nat, byAddr \in [Addrs -> 0..nPeers], byId \in [IDs -> 0..nPeers],
           NEW a \in Addrs, NEW id \in IDs
    PROVE  Pairs([byAddr EXCEPT ![a] = nPeers + 1], [byId EXCEPT ![id] = nPeers + 1])
             = {p \in Pairs(byAddr, byId) : p[1] # a /\ p[2] # id} \cup {<<a, id>>}
BY DEF Pairs, Nil

(* Unlink of a linked ID removes exactly the pairs with that ID: the     *)
(* abstract unlink, which finds a pair to remove.                          *)
LEMMA PairsUnlink ==
    ASSUME TypeOK, Consistent(byAddr, byId, peer), NEW id \in IDs, byId[id] # Nil
    PROVE  /\ Pairs([byAddr EXCEPT ![peer[byId[id]].addr] = Nil], [byId EXCEPT ![id] = Nil])
                = {p \in Pairs(byAddr, byId) : p[2] # id}
           /\ <<peer[byId[id]].addr, id>> \in Pairs(byAddr, byId)
<1> DEFINE o == byId[id]
           a == peer[o].addr
<1>1. o \in 1..nPeers /\ a \in Addrs /\ byAddr[a] = o /\ peer[o].id = id
  BY DEF TypeOK, PeerRec, Consistent, Nil
<1>2. \A p \in Pairs(byAddr, byId) : p[1] = a => p[2] = id
  BY <1>1 DEF Pairs, Consistent
<1>3. QED
  BY <1>1, <1>2 DEF Pairs, TypeOK, Nil

-----------------------------------------------------------------------------
LEMMA IInvInit == Init => IInv
<1> SUFFICES ASSUME Init PROVE IInv
  OBVIOUS
<1>1. TInv
  BY TInvInit
<1>2. peer \in [1..nPeers -> ClaimedPeers]
  <2>1. 1..nPeers = {}
    BY DEF Init
  <2>2. peer = [o \in {} |-> peer[o]]
    BY DEF Init
  <2>3. QED
    BY <2>1, <2>2
<1>3. Consistent(byAddr, byId, peer)
  BY DEF Init, Consistent, Nil
<1>4. QED
  BY <1>1, <1>2, <1>3 DEF IInv

(* A step that keeps the maps and the address and ID of every peer keeps *)
(* IInv.                                                                   *)
LEMMA KeysKeptIInv ==
    ASSUME IInv, TInv', byAddr' = byAddr, byId' = byId, nPeers' = nPeers,
           \A o \in 1..nPeers : peer'[o].addr = peer[o].addr /\ peer'[o].id = peer[o].id
    PROVE  IInv'
<1>1. peer' \in [1..nPeers -> ClaimedPeers]
  BY DEF IInv, TInv, TypeOK, ClaimedPeers
<1>2. Consistent(byAddr, byId, peer')
  BY DEF IInv, TInv, TypeOK, Consistent, Nil
<1>3. QED
  BY <1>1, <1>2 DEF IInv

(* Linking a new peer object with a claimed pair keeps IInv. *)
LEMMA LinkIInv ==
    ASSUME ClaimsInjective, IInv, TInv', NEW c \in Claims, NEW st, NEW tg,
           peer' = NewPeer(c[1], c[2], st, tg),
           byAddr' = [byAddr EXCEPT ![c[1]] = nPeers + 1],
           byId' = [byId EXCEPT ![c[2]] = nPeers + 1],
           nPeers' = nPeers + 1
    PROVE  IInv'
<1>1. c[1] \in Addrs /\ c[2] \in IDs /\ c = <<c[1], c[2]>>
  BY EndpointAssumption
<1>2. byAddr[c[1]] = byId[c[2]]
  BY ClaimAligned DEF IInv, TInv
<1>3. Consistent(byAddr', byId', peer')
  BY <1>1, <1>2, LinkConsistent DEF IInv, TInv
<1>4. peer' \in [1..nPeers' -> PeerRec]
  BY DEF TInv, TypeOK
<1>5. ASSUME NEW o \in 1..nPeers' PROVE <<peer'[o].addr, peer'[o].id>> \in Claims
  <2>1. CASE o = nPeers + 1
    BY <1>1, <2>1 DEF NewPeer
  <2>2. CASE o \in 1..nPeers
    BY <2>2 DEF NewPeer, IInv, TInv, TypeOK, ClaimedPeers
  <2>3. QED
    BY <2>1, <2>2 DEF IInv, TInv, TypeOK
<1>6. QED
  BY <1>3, <1>4, <1>5 DEF IInv, ClaimedPeers

LEMMA UnlinkIInv == IInv /\ Unlink /\ TInv' => IInv'
<1> SUFFICES ASSUME IInv, Unlink, TInv' PROVE IInv'
  OBVIOUS
<1>1. PICK id \in IDs :
          /\ byId[id] # Nil
          /\ byAddr' = [byAddr EXCEPT ![peer[byId[id]].addr] = Nil]
          /\ byId' = [byId EXCEPT ![id] = Nil]
  BY DEF Unlink
<1>2. Consistent(byAddr', byId', peer')
  BY <1>1, UnlinkConsistent DEF IInv, TInv, Unlink
<1>3. QED
  BY <1>2 DEF IInv, Unlink

(* IInv is inductive when claims are injective. *)
LEMMA IInvStep == ClaimsInjective /\ IInv /\ [Next]_vars => IInv'
<1> SUFFICES ASSUME ClaimsInjective, IInv, [Next]_vars PROVE IInv'
  OBVIOUS
<1>1. TInv'
  BY TInvStep DEF IInv
<1> DEFINE d == pending
           o == byAddr[d.from]
<1>2. CASE UNCHANGED vars
  BY <1>1, <1>2, KeysKeptIInv DEF vars
<1>3. CASE LoopCheck \/ ReadDatagram \/ ReadClosed \/ Close
  BY <1>1, <1>3, KeysKeptIInv DEF LoopCheck, ReadDatagram, ReadClosed, Close
<1>4. CASE HostLink
  <2>1. PICK c \in Claims, tg \in TGs :
            /\ peer' = NewPeer(c[1], c[2], "AuthNone", tg)
            /\ Link(nPeers + 1, c[1], c[2])
    BY <1>4 DEF HostLink
  <2>2. QED
    BY <1>1, <1>4, <2>1, LinkIInv DEF HostLink, Link
<1>5. CASE Unlink
  BY <1>1, <1>5, UnlinkIInv
<1>6. CASE ImplicitLink
  <2>1. d \in Sent /\ d.verb = "RPTL" /\ HandleNewLogin(d)
    BY <1>6 DEF IInv, TInv, ImplicitLink, HandleNewLogin
  <2>2. <<d.from, d.id>> \in Claims
    BY <2>1 DEF Sent
  <2>3. peer' = NewPeer(d.from, d.id, "AuthNone", DefaultTG)
    BY <2>1 DEF HandleNewLogin
  <2>4. QED
    BY <1>1, <2>1, <2>2, <2>3, LinkIInv DEF HandleNewLogin, Link
<1>7. CASE Handle /\ (HandleLogin(d) \/ HandleKey(d) \/ HandleData(d))
  <2>1. o \in 1..nPeers
    BY <1>7, KnownPeer DEF IInv, TInv, Handle, HandleLogin, HandleKey, HandleData
  <2>2. byAddr' = byAddr /\ byId' = byId /\ nPeers' = nPeers
    BY <1>7 DEF HandleLogin, HandleKey, HandleData
  <2>3. peer \in [1..nPeers -> PeerRec]
    BY DEF IInv, TInv, TypeOK
  <2>4. \A k \in 1..nPeers : peer'[k].addr = peer[k].addr /\ peer'[k].id = peer[k].id
    <3>1. CASE HandleLogin(d) \/ HandleKey(d)
      <4>1. PICK st \in Statuses : peer' = [peer EXCEPT ![o].status = st]
        BY <3>1 DEF HandleLogin, HandleKey, Statuses
      <4>2. QED
        BY <2>1, <2>3, <4>1 DEF PeerRec
    <3>2. CASE HandleData(d)
      <4>1. peer' = peer \/ peer' = [peer EXCEPT ![o].tg = d.tg]
        BY <3>2 DEF HandleData
      <4>2. CASE peer' = peer
        BY <4>2
      <4>3. CASE peer' = [peer EXCEPT ![o].tg = d.tg]
        BY <2>1, <2>3, <4>3 DEF PeerRec
      <4>4. QED
        BY <4>1, <4>2, <4>3
    <3>3. QED
      BY <1>7, <3>1, <3>2
  <2>5. QED
    BY <1>1, <2>2, <2>4, KeysKeptIInv
<1>8. CASE Handle /\ (HandleUnknown(d) \/ HandleIgnored(d))
  BY <1>1, <1>8, KeysKeptIInv DEF HandleUnknown, HandleIgnored
<1>10. CASE ImplicitLookup /\ HandleLogin(d)
  <2>1. o \in 1..nPeers
    BY <1>10, KnownPeer DEF IInv, TInv, ImplicitLookup, HandleLogin
  <2>2. byAddr' = byAddr /\ byId' = byId /\ nPeers' = nPeers
    BY <1>10 DEF HandleLogin
  <2>3. PICK st \in Statuses : peer' = [peer EXCEPT ![o].status = st]
    BY <1>10 DEF HandleLogin, Statuses
  <2>4. \A k \in 1..nPeers : peer'[k].addr = peer[k].addr /\ peer'[k].id = peer[k].id
    BY <2>1, <2>3 DEF IInv, TInv, TypeOK, PeerRec
  <2>5. QED
    BY <1>1, <2>2, <2>4, KeysKeptIInv
<1>11. CASE ImplicitLookup /\ HandleNilPeer(d)
  BY <1>1, <1>11, KeysKeptIInv DEF HandleNilPeer
<1>9. QED
  BY <1>2, <1>3, <1>4, <1>5, <1>6, <1>7, <1>8, <1>10, <1>11
     DEF Next, Handle, ImplicitLookup

-----------------------------------------------------------------------------
(* Under IInv, the abstract registry is read off the two maps. *)
LEMMA LinkedPairsIs == IInv => LinkedPairs = Pairs(byAddr, byId)
<1> SUFFICES ASSUME IInv PROVE LinkedPairs = Pairs(byAddr, byId)
  OBVIOUS
<1>1. LinkedPairs = RegPairs(byAddr, byId, peer)
  BY DEF LinkedPairs, Registered, RegPairs
<1>2. nPeers \in Nat
  BY EndpointAssumption DEF IInv, TInv, TypeOK
<1>3. QED
  BY <1>1, <1>2, PairsChar DEF IInv, TInv, TypeOK

LEMMA LinkedPairsIsPrimed == IInv' => LinkedPairs' = Pairs(byAddr', byId')
<1> SUFFICES ASSUME IInv' PROVE LinkedPairs' = Pairs(byAddr', byId')
  OBVIOUS
<1>1. LinkedPairs' = RegPairs(byAddr', byId', peer')
  BY DEF LinkedPairs, Registered, RegPairs
<1>2. nPeers' \in Nat
  BY EndpointAssumption DEF IInv, TInv, TypeOK
<1>3. QED
  BY <1>1, <1>2, PairsChar DEF IInv, TInv, TypeOK

(* Every step of the endpoint is a step of the abstract registry or      *)
(* leaves its pairs alone.                                                 *)
LEMMA RefineStep == IInv /\ IInv' /\ [Next]_vars => [Abs!Next]_LinkedPairs
<1> SUFFICES ASSUME IInv, IInv', [Next]_vars PROVE [Abs!Next]_LinkedPairs
  OBVIOUS
<1>1. LinkedPairs = Pairs(byAddr, byId) /\ LinkedPairs' = Pairs(byAddr', byId')
  BY LinkedPairsIs, LinkedPairsIsPrimed
<1>2. nPeers \in Nat /\ byAddr \in [Addrs -> 0..nPeers] /\ byId \in [IDs -> 0..nPeers]
  BY EndpointAssumption DEF IInv, TInv, TypeOK
<1>3. CASE byAddr' = byAddr /\ byId' = byId
  BY <1>1, <1>3
<1>4. ASSUME NEW a \in Addrs, NEW id \in IDs, Link(nPeers + 1, a, id)
      PROVE  Abs!Next
  <2>0. byAddr' = [byAddr EXCEPT ![a] = nPeers + 1] /\ byId' = [byId EXCEPT ![id] = nPeers + 1]
    BY <1>4 DEF Link
  <2>1. Pairs([byAddr EXCEPT ![a] = nPeers + 1], [byId EXCEPT ![id] = nPeers + 1])
          = {p \in Pairs(byAddr, byId) : p[1] # a /\ p[2] # id} \cup {<<a, id>>}
    BY <1>2, PairsLink
  <2>2. Pairs(byAddr', byId') = {p \in Pairs(byAddr, byId) : p[1] # a /\ p[2] # id} \cup {<<a, id>>}
    BY <2>0, <2>1
  <2>3. Abs!Link(a, id)
    BY <1>1, <2>2 DEF Abs!Link
  <2>4. QED
    BY <2>3 DEF Abs!Next
<1>5. CASE HostLink
  <2>1. PICK c \in Claims : Link(nPeers + 1, c[1], c[2])
    BY <1>5 DEF HostLink
  <2>2. QED
    BY <1>4, <2>1, EndpointAssumption
<1>6. CASE ImplicitLink
  <2>1. pending.from \in Addrs /\ pending.id \in IDs /\ HandleNewLogin(pending)
    BY <1>6, SentFields DEF IInv, TInv, ImplicitLink, HandleNewLogin
  <2>2. QED
    BY <1>4, <2>1 DEF HandleNewLogin
<1>7. CASE Unlink
  <2>1. PICK id \in IDs :
            /\ byId[id] # Nil
            /\ byAddr' = [byAddr EXCEPT ![peer[byId[id]].addr] = Nil]
            /\ byId' = [byId EXCEPT ![id] = Nil]
    BY <1>7 DEF Unlink
  <2>2. /\ Pairs(byAddr', byId') = {p \in Pairs(byAddr, byId) : p[2] # id}
        /\ <<peer[byId[id]].addr, id>> \in Pairs(byAddr, byId)
    BY <2>1, PairsUnlink DEF IInv, TInv
  <2>3. peer[byId[id]].addr \in Addrs
    BY <2>2 DEF Pairs
  <2>4. Abs!Unlink(id)
    BY <1>1, <2>2 DEF Abs!Unlink
  <2>5. QED
    BY <2>3, <2>4 DEF Abs!Next
<1>8. CASE Handle
  BY <1>3, <1>8 DEF Handle, HandleUnknown, HandleLogin, HandleKey, HandleData, HandleIgnored
<1>10. CASE ImplicitLookup
  BY <1>3, <1>10 DEF ImplicitLookup, HandleLogin, HandleNilPeer
<1>9. QED
  BY <1>3, <1>5, <1>6, <1>7, <1>8, <1>10
     DEF Next, vars, LoopCheck, ReadDatagram, ReadClosed, Close

(* The peer registry of homebrew.go (h.Peer, h.PeerID, with Link, Unlink  *)
(* and the implicit login in handle) implements the abstract registry of  *)
(* linked (address, ID) pairs, for any sets of addresses, IDs and talk     *)
(* groups and any bound on peers, as long as no address and no ID is       *)
(* claimed by two repeaters.                                               *)
THEOREM RegistryRefines == ClaimsInjective => (Spec => RegistryRefinement)
<1> SUFFICES ASSUME ClaimsInjective PROVE Spec => RegistryRefinement
  OBVIOUS
<1>1. Init => Abs!Init
  BY DEF Init, Abs!Init, LinkedPairs, Registered, Nil
<1>2. Init => IInv
  BY IInvInit
<1>3. IInv /\ [Next]_vars => IInv'
  BY IInvStep
<1>4. IInv /\ IInv' /\ [Next]_vars => [Abs!Next]_LinkedPairs
  BY RefineStep
<1>5. QED
  BY <1>1, <1>2, <1>3, <1>4, PTL DEF Spec, RegistryRefinement, Abs!Spec
-----------------------------------------------------------------------------
(* The inductive invariant of the relay: a relay is recorded only by the  *)
(* handle that did it, and every other step clears it.                     *)
RInv ==
    /\ IInv
    /\ lsn \in {"handle", "linked"} => relay = NoRelay
    /\ RelayToSubscribers

(* Under consistent maps every registered peer is a value of h.Peer, so *)
(* the snapshot getPeers is the whole registry.                            *)
LEMMA RegisteredIsGetPeers ==
    ASSUME TypeOK, Consistent(byAddr, byId, peer)
    PROVE  Registered = getPeers
<1>1. ASSUME NEW id \in IDs, byId[id] # Nil
      PROVE  byId[id] \in getPeers
  <2>1. byId[id] \in 1..nPeers
    BY <1>1 DEF TypeOK, Nil
  <2>2. peer[byId[id]].addr \in Addrs
    BY <2>1 DEF TypeOK, PeerRec
  <2>3. byAddr[peer[byId[id]].addr] = byId[id]
    BY <1>1 DEF Consistent
  <2>4. QED
    BY <1>1, <2>2, <2>3 DEF getPeers
<1>2. QED
  BY <1>1 DEF Registered, getPeers

(* Two peers of the snapshot with the same ID are the same peer: h.PeerID *)
(* leads from the ID back to each of them.                                 *)
LEMMA IdsDistinct ==
    ASSUME TypeOK, Consistent(byAddr, byId, peer),
           NEW q \in getPeers, NEW o \in getPeers, peer[q].id = peer[o].id
    PROVE  q = o
<1>1. byId[peer[q].id] = q /\ byId[peer[o].id] = o
  BY DEF getPeers, Consistent
<1>2. QED
  BY <1>1

(* The group relay of HandleData reaches exactly the other registered     *)
(* subscribers of the talk group.                                          *)
LEMMA HandleDataRelay ==
    ASSUME IInv, lsn = "handle", HandleData(pending), pending.kind # "bad", pending.group
    PROVE  RelayToSubscribers'
<1> DEFINE d == pending
           o == byAddr[d.from]
           targets == SendTG(o, d.tg)
<1>1. /\ peer' = [peer EXCEPT ![o].tg = d.tg]
      /\ relay' = [from |-> o, tg |-> d.tg, to |-> targets]
      /\ byAddr' = byAddr /\ byId' = byId
  BY DEF HandleData
<1>2. TypeOK /\ Consistent(byAddr, byId, peer)
  BY DEF IInv, TInv
<1>3. o \in getPeers /\ o \in 1..nPeers /\ d.from \in Addrs
  <2>1. d \in Sent
    BY DEF IInv, TInv
  <2>2. d.from \in Addrs /\ o # Nil
    BY <2>1, SentFields DEF HandleData
  <2>3. QED
    BY <1>2, <2>2 DEF getPeers, TypeOK, Nil
<1>4. Registered' = getPeers
  BY <1>1, <1>2, RegisteredIsGetPeers DEF Registered
<1>5. \A q \in getPeers : q \in 1..nPeers
  BY <1>2 DEF getPeers, TypeOK, Nil
<1>6. \A q \in getPeers : peer[q].id # peer[o].id <=> q # o
  BY <1>2, <1>3, IdsDistinct
<1>7. \A q \in getPeers : q # o => peer'[q].tg = peer[q].tg
  BY <1>1, <1>2, <1>5 DEF TypeOK
<1>8. targets = {q \in getPeers : q # o /\ peer'[q].tg = d.tg}
  <2>1. peer'[o].tg = d.tg
    BY <1>1, <1>2, <1>3 DEF TypeOK
  <2>2. QED
    BY <1>6, <1>7, <2>1 DEF SendTG
<1>9. QED
  BY <1>1, <1>4, <1>8 DEF RelayToSubscribers

(* Every step but a group relay clears the relay or keeps it cleared.    *)
LEMMA RInvStep == ClaimsInjective /\ RInv /\ [Next]_vars => RInv'
<1> SUFFICES ASSUME ClaimsInjective, RInv, [Next]_vars PROVE RInv'
  OBVIOUS
<1>1. IInv'
  BY IInvStep DEF RInv
<1>2. ASSUME relay' = NoRelay PROVE RInv'
  BY <1>1, <1>2 DEF RInv, RelayToSubscribers
<1>3. CASE UNCHANGED vars
  BY <1>1, <1>3 DEF RInv, RelayToSubscribers, Registered, vars
<1>4. CASE LoopCheck \/ ReadDatagram \/ ReadClosed \/ HostLink \/ Unlink \/ Close
  BY <1>2, <1>4 DEF LoopCheck, ReadDatagram, ReadClosed, HostLink, Unlink, Close
<1>5. CASE Handle
  <2> DEFINE d == pending
  <2>1. lsn = "handle" /\ relay = NoRelay /\ lsn' \notin {"handle", "linked"}
    BY <1>5, HandleEnds DEF Handle, RInv
  <2>2. CASE HandleData(d) /\ d.kind # "bad" /\ d.group
    BY <1>1, <2>1, <2>2, HandleDataRelay DEF RInv
  <2>3. CASE ~(HandleData(d) /\ d.kind # "bad" /\ d.group)
    <3>1. relay' = relay
      BY <1>5, <2>3 DEF Handle, HandleUnknown, HandleLogin, HandleKey,
                        HandleData, HandleIgnored
    <3>2. QED
      BY <1>2, <2>1, <3>1
  <2>4. QED
    BY <2>2, <2>3
<1>7. CASE ImplicitLink \/ ImplicitLookup
  <2>1. lsn \in {"handle", "linked"} /\ relay' = relay
    BY <1>7 DEF ImplicitLink, HandleNewLogin, ImplicitLookup, HandleLogin,
                HandleNilPeer
  <2>2. QED
    BY <1>2, <2>1 DEF RInv
<1>6. QED
  BY <1>3, <1>4, <1>5, <1>7 DEF Next

(* The group relay of handlePacket and SendTG (homebrew.go:242-259,       *)
(* 600-627) sends a frame to every other registered peer subscribed to    *)
(* its talk group and to no one else, for any sets of addresses, IDs and  *)
(* talk groups and any bound on peers, as long as no address and no ID is *)
(* claimed by two repeaters: SendTG recognises the origin by its ID, which *)
(* only the origin has (RelayToSubscribers, checked by the relay run).     *)
THEOREM RelaySound == ClaimsInjective => (Spec => []RelayToSubscribers)
<1> SUFFICES ASSUME ClaimsInjective PROVE Spec => []RelayToSubscribers
  OBVIOUS
<1>1. Init => RInv
  BY IInvInit DEF Init, RInv, RelayToSubscribers
<1>2. RInv /\ [Next]_vars => RInv'
  BY RInvStep
<1>3. QED
  BY <1>1, <1>2, PTL DEF Spec, RInv

=============================================================================
