------------------------- MODULE HomebrewLinkProofs -------------------------
(***************************************************************************)
(* Proofs about HomebrewLink that hold for every value of the constants.   *)
(***************************************************************************)
EXTENDS HomebrewLink, TLAPS

(* TypeOK is not inductive by itself: the RPTK that Link sends again in    *)
(* AuthBegin carries rToken, so rToken must be a received value there.     *)
TokenSet == rStatus = "AuthBegin" => rToken \in AckValues

TypeInv == TypeOK /\ TokenSet

-----------------------------------------------------------------------------
(* What the verb of a frame in flight says about the value it carries. *)
LEMMA FrameValues ==
    ASSUME NEW f \in Frames
    PROVE  /\ f.verb = "RPTACK" => f.val \in AckValues
           /\ f.verb \in {"MSTPING", "RPTPING"} => f.val = RID
           /\ f.verb = "RPTK" => f.val \in Tokens
           /\ f.to \in {"R", "M"}
BY DEF Frames

LEMMA StampType ==
    ASSUME NEW a \in [Timers -> Ages], NEW ts \in SUBSET Timers
    PROVE  Stamp(a, ts) \in [Timers -> Ages]
BY TimeoutAssumption DEF Stamp, Ages, Cap

(* Every reception by R preserves TypeInv when its arguments are typed. *)
LEMMA RecvLinkedType ==
    ASSUME TypeInv, NEW m \in net,
           NEW status \in AuthStatus, NEW token \in AckValues \cup {NoValue},
           NEW linked \in BOOLEAN, NEW ts \in SUBSET Timers,
           NEW out \in SUBSET Frames,
           status = "AuthBegin" => token \in AckValues,
           RecvLinked(m, status, token, linked, ts, out)
    PROVE  TypeInv'
<1>1. rAge' \in [Timers -> Ages]
  <2>1. ts \cup {"PacketReceived"} \in SUBSET Timers
    BY DEF Timers
  <2>. QED
    BY <2>1, StampType DEF RecvLinked, TypeInv, TypeOK
<1>2. net' \subseteq Frames
  BY DEF RecvLinked, Rest, TypeInv, TypeOK
<1>. QED
  BY <1>1, <1>2 DEF RecvLinked, TypeInv, TypeOK, TokenSet

(* Every reception by M preserves TypeInv when its arguments are typed. *)
LEMMA RecvMType ==
    ASSUME TypeInv, NEW m \in net,
           NEW status \in {"Absent", "AuthNone", "AuthBegin", "AuthDone"},
           NEW nonce \in Nonces \cup {NoValue}, NEW config \in BOOLEAN,
           NEW out \in SUBSET Frames,
           RecvM(m, status, nonce, config, out)
    PROVE  TypeInv'
<1>1. net' \subseteq Frames
  BY DEF RecvM, Rest, TypeInv, TypeOK
<1>. QED
  BY <1>1 DEF RecvM, TypeInv, TypeOK, TokenSet

(* Every scan of a linked peer preserves TypeInv when typed. *)
LEMMA ScanType ==
    ASSUME TypeInv, NEW status \in AuthStatus, status # "AuthBegin",
           NEW ts \in SUBSET Timers, NEW out \in SUBSET Frames,
           Scan(status, ts, out)
    PROVE  TypeInv'
<1>1. rAge' \in [Timers -> Ages]
  BY StampType DEF Scan, TypeInv, TypeOK
<1>. QED
  BY <1>1 DEF Scan, TypeInv, TypeOK, TokenSet

-----------------------------------------------------------------------------
LEMMA InitTypeInv == Init => TypeInv
<1> SUFFICES ASSUME Init PROVE TypeInv
  OBVIOUS
<1>1. rAge \in [Timers -> Ages]
  BY TimeoutAssumption DEF Init, Ages, Cap
<1>2. net \subseteq Frames /\ losses \in 0..MaxLosses
  BY LossAssumption DEF Init
<1>3. rStatus \in AuthStatus /\ rStatus # "AuthBegin"
  BY DEF Init, AuthStatus
<1>. QED
  BY <1>1, <1>2, <1>3 DEF Init, TypeInv, TypeOK, TokenSet

LEMMA LinkType == TypeInv /\ Link => TypeInv'
<1> SUFFICES ASSUME TypeInv, Link PROVE TypeInv'
  OBVIOUS
<1>1. [t \in Timers |-> IF t = "AuthSent" THEN rAge[t] ELSE Cap] \in [Timers -> Ages]
  BY TimeoutAssumption DEF TypeInv, TypeOK, Ages, Cap
<1>2. rAge' \in [Timers -> Ages]
  <2>1. {"PacketReceived", "AuthSent"} \in SUBSET Timers /\ {"PacketReceived"} \in SUBSET Timers
    BY DEF Timers
  <2>. QED
    BY <1>1, <2>1, StampType DEF Link
<1>3. net' \subseteq Frames
  <2>1. CASE rStatus = "AuthBegin"
    BY <2>1 DEF Link, TypeInv, TypeOK, TokenSet, Frame, Frames, Token, Tokens
  <2>2. CASE rStatus # "AuthBegin"
    BY <2>2 DEF Link, TypeInv, TypeOK, Frame, Frames
  <2>. QED
    BY <2>1, <2>2
<1>. QED
  BY <1>2, <1>3 DEF Link, TypeInv, TypeOK, TokenSet

LEMMA HandleRType ==
    ASSUME TypeInv, NEW m \in net, HandleR(m)
    PROVE  TypeInv'
<1>. m \in Frames
  BY DEF TypeInv, TypeOK
<1>1. CASE RecvUnlinked(m)
  BY <1>1 DEF RecvUnlinked, Rest, TypeInv, TypeOK, TokenSet
<1>2. CASE RecvNonce(m)
  <2>1. m.val \in AckValues
    BY <1>2, FrameValues DEF RecvNonce
  <2>2. {Frame("M", "RPTK", Token(RKey, m.val))} \subseteq Frames
    BY <2>1 DEF Frame, Frames, Token, Tokens
  <2>3. RecvLinked(m, "AuthBegin", m.val, TRUE, {},
                   {Frame("M", "RPTK", Token(RKey, m.val))})
    BY <1>2 DEF RecvNonce
  <2>4. /\ "AuthBegin" \in AuthStatus /\ TRUE \in BOOLEAN
        /\ m.val \in AckValues \cup {NoValue}
        /\ {} \in SUBSET Timers
    BY <2>1 DEF AuthStatus
  <2>. QED
    BY <2>1, <2>2, <2>3, <2>4, RecvLinkedType
<1>3. CASE RecvRefused(m)
  <2>1. RecvLinked(m, "AuthFailed", rToken, ~UnlinkOnAuthFailure, {}, {})
    BY <1>3 DEF RecvRefused
  <2>2. /\ (~UnlinkOnAuthFailure) \in BOOLEAN
        /\ "AuthFailed" \in AuthStatus
        /\ rToken \in AckValues \cup {NoValue}
        /\ {} \in SUBSET Timers /\ {} \in SUBSET Frames
        /\ "AuthFailed" # "AuthBegin"
    BY FlagAssumption DEF AuthStatus, TypeInv, TypeOK
  <2>. QED
    BY <2>1, <2>2, RecvLinkedType
<1>4. CASE RecvAccepted(m)
  <2>1. {Frame("M", "RPTC", RID)} \subseteq Frames
    BY DEF Frame, Frames
  <2>. QED
    BY <1>4, <2>1, RecvLinkedType DEF RecvAccepted, AuthStatus, TypeInv, TypeOK, Timers
<1>5. CASE RecvDoneAck(m)
  <2>1. {Frame("M", "MSTPING", RID)} \subseteq Frames
    BY DEF Frame, Frames
  <2>. QED
    BY <1>5, <2>1, RecvLinkedType DEF RecvDoneAck, AuthStatus, TypeInv, TypeOK, Timers
<1>6. CASE RecvDeauth(m)
  <2>1. RecvLinked(m, "AuthFailed", rToken, TRUE, {}, {})
    BY <1>6 DEF RecvDeauth
  <2>2. /\ "AuthFailed" \in AuthStatus /\ rToken \in AckValues \cup {NoValue}
        /\ TRUE \in BOOLEAN /\ {} \in SUBSET Timers /\ {} \in SUBSET Frames
        /\ "AuthFailed" # "AuthBegin"
    BY DEF AuthStatus, TypeInv, TypeOK
  <2>. QED
    BY <2>1, <2>2, RecvLinkedType
<1>7. CASE RecvPong(m)
  <2>1. RecvLinked(m, "AuthDone", rToken, TRUE, {"PongReceived"}, {})
    BY <1>7 DEF RecvPong
  <2>2. /\ "AuthDone" \in AuthStatus /\ rToken \in AckValues \cup {NoValue}
        /\ {"PongReceived"} \in SUBSET Timers
        /\ TRUE \in BOOLEAN /\ {} \in SUBSET Frames /\ "AuthDone" # "AuthBegin"
    BY DEF AuthStatus, TypeInv, TypeOK, Timers
  <2>. QED
    BY <2>1, <2>2, RecvLinkedType
<1>8. CASE RecvIgnored(m)
  <2>1. RecvLinked(m, rStatus, rToken, TRUE, {}, {})
    BY <1>8 DEF RecvIgnored
  <2>2. /\ rStatus \in AuthStatus /\ rToken \in AckValues \cup {NoValue}
        /\ rStatus = "AuthBegin" => rToken \in AckValues
        /\ TRUE \in BOOLEAN /\ {} \in SUBSET Timers /\ {} \in SUBSET Frames
    BY DEF TypeInv, TypeOK, TokenSet
  <2>. QED
    BY <2>1, <2>2, RecvLinkedType
<1>. QED
  BY <1>1, <1>2, <1>3, <1>4, <1>5, <1>6, <1>7, <1>8 DEF HandleR

LEMMA HandleMType ==
    ASSUME TypeInv, NEW m \in net, HandleM(m)
    PROVE  TypeInv'
<1>. m \in Frames
  BY DEF TypeInv, TypeOK
<1>1. CASE RecvLogin(m)
  <2>1. PICK n \in Nonces :
          RecvM(m, "AuthBegin", n, mConfig, {Frame("R", "RPTACK", n)})
    BY <1>1 DEF RecvLogin
  <2>2. {Frame("R", "RPTACK", n)} \subseteq Frames
    BY DEF Frame, Frames, AckValues
  <2>. QED
    BY <2>1, <2>2, RecvMType DEF TypeInv, TypeOK
<1>2. CASE RecvLoginNonceFailed(m)
  <2>1. {Frame("R", "MSTNAK", MID)} \subseteq Frames
    BY DEF Frame, Frames
  <2>. QED
    BY <1>2, <2>1, RecvMType DEF RecvLoginNonceFailed, TypeInv, TypeOK
<1>3. CASE RecvKey(m)
  <2>1. {Frame("R", "RPTACK", MID)} \subseteq Frames
    BY DEF Frame, Frames, AckValues
  <2>. QED
    BY <1>3, <2>1, RecvMType DEF RecvKey, TypeInv, TypeOK
<1>4. CASE RecvBadKey(m)
  <2>1. {Frame("R", "MSTNAK", MID)} \subseteq Frames
    BY DEF Frame, Frames
  <2>. QED
    BY <1>4, <2>1, RecvMType DEF RecvBadKey, TypeInv, TypeOK
<1>5. CASE RecvPing(m)
  <2>1. m.val = RID
    BY <1>5, FrameValues DEF RecvPing
  <2>2. \A v \in {"RPTPONG", "MSTPONG"} : {Frame("R", v, m.val)} \subseteq Frames
    BY <2>1 DEF Frame, Frames
  <2>. QED
    BY <1>5, <2>2, RecvMType DEF RecvPing, TypeInv, TypeOK
<1>6. CASE RecvConfig(m)
  <2>1. {Frame("R", "RPTACK", MID)} \subseteq Frames
    BY DEF Frame, Frames, AckValues
  <2>2. RecvM(m, "AuthDone", mNonce, TRUE, {Frame("R", "RPTACK", MID)})
    BY <1>6 DEF RecvConfig
  <2>3. /\ mNonce \in Nonces \cup {NoValue} /\ TRUE \in BOOLEAN
        /\ "AuthDone" \in {"Absent", "AuthNone", "AuthBegin", "AuthDone"}
        /\ {Frame("R", "RPTACK", MID)} \in SUBSET Frames
    BY <2>1 DEF TypeInv, TypeOK
  <2>. QED
    BY <2>1, <2>2, <2>3, RecvMType
<1>7. CASE RecvMIgnored(m)
  BY <1>7, RecvMType DEF RecvMIgnored, TypeInv, TypeOK
<1>. QED
  BY <1>1, <1>2, <1>3, <1>4, <1>5, <1>6, <1>7 DEF HandleM

LEMMA KeepaliveType == TypeInv /\ Keepalive => TypeInv'
<1> SUFFICES ASSUME TypeInv, Keepalive PROVE TypeInv'
  OBVIOUS
<1>. Login \subseteq Timers
  BY DEF Login, Timers
<1>1. CASE KeepaliveRetry
  <2>1. {Frame("M", "RPTL", RID)} \subseteq Frames
    BY DEF Frame, Frames
  <2>. QED
    BY <1>1, <2>1, ScanType DEF KeepaliveRetry, AuthStatus
<1>2. CASE KeepaliveAuthTimeout
  BY <1>2, ScanType DEF KeepaliveAuthTimeout, AuthStatus
<1>3. CASE KeepalivePingTimeout
  <2>1. {Frame("M", "RPTCL", RID), Frame("M", "RPTL", RID)} \subseteq Frames
    BY DEF Frame, Frames
  <2>. QED
    BY <1>3, <2>1, ScanType DEF KeepalivePingTimeout, AuthStatus
<1>4. CASE KeepalivePing
  <2>1. {Frame("M", "RPTPING", RID)} \subseteq Frames
    BY DEF Frame, Frames
  <2>. QED
    BY <1>4, <2>1, ScanType DEF KeepalivePing, AuthStatus, Timers
<1>5. CASE KeepaliveIdle
  <2>1. rAge' = rAge /\ UNCHANGED <<rStatus, rToken, net>>
    BY <1>5 DEF KeepaliveIdle, Scan, Stamp, TypeInv, TypeOK
  <2>. QED
    BY <1>5, <2>1 DEF KeepaliveIdle, Scan, TypeInv, TypeOK, TokenSet
<1>6. CASE KeepaliveUnlinked
  BY <1>6 DEF KeepaliveUnlinked, TypeInv, TypeOK, TokenSet
<1>. QED
  BY <1>1, <1>2, <1>3, <1>4, <1>5, <1>6 DEF Keepalive

LEMMA TickType == TypeInv /\ Tick => TypeInv'
<1> SUFFICES ASSUME TypeInv, Tick PROVE TypeInv'
  OBVIOUS
<1>1. rAge' \in [Timers -> Ages]
  BY TimeoutAssumption DEF Tick, TypeInv, TypeOK, Ages, Cap
<1>. QED
  BY <1>1 DEF Tick, TypeInv, TypeOK, TokenSet

LEMMA LoseType == ASSUME TypeInv, NEW m \in net, Lose(m) PROVE TypeInv'
BY LossAssumption DEF Lose, TypeInv, TypeOK, TokenSet

LEMMA TypeInvStep == TypeInv /\ [Next]_vars => TypeInv'
<1> SUFFICES ASSUME TypeInv, [Next]_vars PROVE TypeInv'
  OBVIOUS
<1>1. CASE Link
  BY <1>1, LinkType
<1>2. CASE \E m \in net : HandleR(m) \/ HandleM(m) \/ Lose(m)
  BY <1>2, HandleRType, HandleMType, LoseType
<1>3. CASE Keepalive
  BY <1>3, KeepaliveType
<1>4. CASE Tick
  BY <1>4, TickType
<1>5. CASE UNCHANGED vars
  BY <1>5 DEF vars, TypeInv, TypeOK, TokenSet
<1>. QED
  BY <1>1, <1>2, <1>3, <1>4, <1>5 DEF Next

(* Every reachable state has the types of TypeOK. *)
THEOREM TypeCorrect == Spec => []TypeOK
<1>1. Spec => []TypeInv
  BY InitTypeInv, TypeInvStep, PTL DEF Spec
<1>. QED
  BY <1>1, PTL DEF TypeInv

-----------------------------------------------------------------------------
(* Every RPTK of a set of frames carries a token made with R's key: only R *)
(* sends RPTK (outgoing AuthNone case and handleAuth in AuthBegin).        *)
FromR(S) == \A f \in S : f.verb = "RPTK" => f.val[1] = RKey

KeysInFlight == FromR(net)

(* MasterAuthRequiresKey is inductive once every RPTK in flight is known  *)
(* to carry R's key.                                                      *)
KeyInv == TypeInv /\ KeysInFlight /\ MasterAuthRequiresKey

LEMMA FromRUnion ==
    ASSUME NEW S, NEW T, NEW U, FromR(S), FromR(T), U \subseteq S \cup T
    PROVE  FromR(U)
BY DEF FromR

LEMMA RestSub ==
    ASSUME NEW m, NEW rest \in Rest(m)
    PROVE  rest \subseteq net
BY DEF Rest

(* A frame that is not an RPTK says nothing about keys. *)
LEMMA FromROther ==
    ASSUME NEW to, NEW verb, NEW val, verb # "RPTK"
    PROVE  FromR({Frame(to, verb, val)})
BY DEF FromR, Frame

LEMMA RecvLinkedKeys ==
    ASSUME KeysInFlight, MasterAuthRequiresKey,
           NEW m, NEW status, NEW token, NEW linked, NEW ts, NEW out,
           FromR(out), RecvLinked(m, status, token, linked, ts, out)
    PROVE  KeysInFlight' /\ MasterAuthRequiresKey'
<1>1. PICK rest \in Rest(m) : net' = rest \cup out
  BY DEF RecvLinked
<1>2. rest \subseteq net
  BY RestSub
<1>3. FromR(net')
  BY <1>1, <1>2, FromRUnion DEF KeysInFlight
<1>. QED
  BY <1>3 DEF KeysInFlight, RecvLinked, MasterAuthRequiresKey

LEMMA RecvMKeys ==
    ASSUME KeysInFlight, NEW m, NEW status, NEW nonce, NEW config, NEW out,
           FromR(out), RecvM(m, status, nonce, config, out)
    PROVE  KeysInFlight'
<1>1. PICK rest \in Rest(m) : net' = rest \cup out
  BY DEF RecvM
<1>2. rest \subseteq net
  BY RestSub
<1>. QED
  BY <1>1, <1>2, FromRUnion DEF KeysInFlight

LEMMA ScanKeys ==
    ASSUME KeysInFlight, MasterAuthRequiresKey, NEW status, NEW ts, NEW out,
           FromR(out), Scan(status, ts, out)
    PROVE  KeysInFlight' /\ MasterAuthRequiresKey'
BY FromRUnion DEF KeysInFlight, Scan, MasterAuthRequiresKey

LEMMA LinkKeys ==
    ASSUME TypeInv, KeysInFlight, MasterAuthRequiresKey, Link
    PROVE  KeysInFlight' /\ MasterAuthRequiresKey'
<1>1. FromR({Frame("M", "RPTL", RID)}) /\ FromR({Frame("M", "RPTK", Token(RKey, rToken))})
  BY FromROther DEF FromR, Frame, Token
<1>2. FromR(net')
  BY <1>1, FromRUnion DEF Link, KeysInFlight
<1>. QED
  BY <1>2 DEF KeysInFlight, Link, MasterAuthRequiresKey

LEMMA HandleRKeys ==
    ASSUME KeysInFlight, MasterAuthRequiresKey, NEW m \in net, HandleR(m)
    PROVE  KeysInFlight' /\ MasterAuthRequiresKey'
<1>. FromR({})
  BY DEF FromR
<1>1. CASE RecvUnlinked(m)
  BY <1>1, RestSub, FromRUnion DEF RecvUnlinked, KeysInFlight, MasterAuthRequiresKey
<1>2. CASE RecvNonce(m)
  <2>1. FromR({Frame("M", "RPTK", Token(RKey, m.val))})
    BY DEF FromR, Frame, Token
  <2>. QED
    BY <1>2, <2>1, RecvLinkedKeys DEF RecvNonce
<1>3. CASE RecvRefused(m)
  BY <1>3, RecvLinkedKeys DEF RecvRefused
<1>4. CASE RecvAccepted(m)
  BY <1>4, RecvLinkedKeys, FromROther DEF RecvAccepted
<1>5. CASE RecvDoneAck(m)
  BY <1>5, RecvLinkedKeys, FromROther DEF RecvDoneAck
<1>6. CASE RecvDeauth(m)
  BY <1>6, RecvLinkedKeys DEF RecvDeauth
<1>7. CASE RecvPong(m)
  BY <1>7, RecvLinkedKeys DEF RecvPong
<1>8. CASE RecvIgnored(m)
  BY <1>8, RecvLinkedKeys DEF RecvIgnored
<1>. QED
  BY <1>1, <1>2, <1>3, <1>4, <1>5, <1>6, <1>7, <1>8 DEF HandleR

(* The heart of the argument: the token check of RecvKey compares the key *)
(* of an RPTK, which R made, with MKey.                                    *)
LEMMA HandleMKeys ==
    ASSUME KeysInFlight, MasterAuthRequiresKey, NEW m \in net, HandleM(m)
    PROVE  KeysInFlight' /\ MasterAuthRequiresKey'
<1>. FromR({})
  BY DEF FromR
<1>1. CASE RecvLogin(m)
  <2>1. PICK n \in Nonces :
          RecvM(m, "AuthBegin", n, mConfig, {Frame("R", "RPTACK", n)})
    BY <1>1 DEF RecvLogin
  <2>2. KeysInFlight'
    BY <2>1, RecvMKeys, FromROther
  <2>. QED
    BY <2>1, <2>2 DEF RecvM, MasterAuthRequiresKey
<1>2. CASE RecvLoginNonceFailed(m)
  BY <1>2, RecvMKeys, FromROther DEF RecvLoginNonceFailed, RecvM, MasterAuthRequiresKey
<1>3. CASE RecvKey(m)
  <2>1. KeysInFlight'
    BY <1>3, RecvMKeys, FromROther DEF RecvKey
  <2>2. m.val[1] = RKey
    BY <1>3 DEF RecvKey, KeysInFlight, FromR
  <2>3. RKey = MKey
    BY <1>3, <2>2 DEF RecvKey, Token
  <2>. QED
    BY <2>1, <2>3 DEF MasterAuthRequiresKey
<1>4. CASE RecvBadKey(m)
  BY <1>4, RecvMKeys, FromROther DEF RecvBadKey, RecvM, MasterAuthRequiresKey
<1>5. CASE RecvPing(m)
  <2>1. \A v \in {"RPTPONG", "MSTPONG"} : FromR({Frame("R", v, m.val)})
    BY FromROther
  <2>. QED
    BY <1>5, <2>1, RecvMKeys DEF RecvPing, RecvM, MasterAuthRequiresKey
<1>6. CASE RecvConfig(m)
  BY <1>6, RecvMKeys, FromROther DEF RecvConfig, RecvM, MasterAuthRequiresKey
<1>7. CASE RecvMIgnored(m)
  BY <1>7, RecvMKeys DEF RecvMIgnored, RecvM, MasterAuthRequiresKey
<1>. QED
  BY <1>1, <1>2, <1>3, <1>4, <1>5, <1>6, <1>7 DEF HandleM

LEMMA KeepaliveKeys ==
    ASSUME KeysInFlight, MasterAuthRequiresKey, Keepalive
    PROVE  KeysInFlight' /\ MasterAuthRequiresKey'
<1>. /\ FromR({})
     /\ FromR({Frame("M", "RPTL", RID)})
     /\ FromR({Frame("M", "RPTPING", RID)})
     /\ FromR({Frame("M", "RPTCL", RID), Frame("M", "RPTL", RID)})
  BY DEF FromR, Frame
<1>1. CASE KeepaliveRetry
  BY <1>1, ScanKeys DEF KeepaliveRetry
<1>2. CASE KeepaliveAuthTimeout
  BY <1>2, ScanKeys DEF KeepaliveAuthTimeout
<1>3. CASE KeepalivePingTimeout
  BY <1>3, ScanKeys DEF KeepalivePingTimeout
<1>4. CASE KeepalivePing
  BY <1>4, ScanKeys DEF KeepalivePing
<1>5. CASE KeepaliveIdle
  BY <1>5, ScanKeys DEF KeepaliveIdle
<1>6. CASE KeepaliveUnlinked
  BY <1>6 DEF KeepaliveUnlinked, KeysInFlight, MasterAuthRequiresKey
<1>. QED
  BY <1>1, <1>2, <1>3, <1>4, <1>5, <1>6 DEF Keepalive

LEMMA KeyInvStep == KeyInv /\ [Next]_vars => KeyInv'
<1> SUFFICES ASSUME KeyInv, [Next]_vars PROVE KeyInv'
  OBVIOUS
<1>. TypeInv /\ KeysInFlight /\ MasterAuthRequiresKey
  BY DEF KeyInv
<1>1. TypeInv'
  BY TypeInvStep
<1>2. CASE Link
  BY <1>1, <1>2, LinkKeys DEF KeyInv
<1>3. CASE \E m \in net : HandleR(m) \/ HandleM(m) \/ Lose(m)
  <2>1. PICK m \in net : HandleR(m) \/ HandleM(m) \/ Lose(m)
    BY <1>3
  <2>2. CASE Lose(m)
    BY <1>1, <2>2 DEF Lose, KeyInv, KeysInFlight, FromR, MasterAuthRequiresKey
  <2>. QED
    BY <1>1, <2>1, <2>2, HandleRKeys, HandleMKeys DEF KeyInv
<1>4. CASE Keepalive
  BY <1>1, <1>4, KeepaliveKeys DEF KeyInv
<1>5. CASE Tick
  BY <1>1, <1>5 DEF Tick, KeyInv, KeysInFlight, MasterAuthRequiresKey
<1>6. CASE UNCHANGED vars
  BY <1>1, <1>6 DEF vars, KeyInv, KeysInFlight, MasterAuthRequiresKey
<1>. QED
  BY <1>2, <1>3, <1>4, <1>5, <1>6 DEF Next

(* The master's token check keeps out every repeater without its key: in *)
(* every reachable state, M's incoming peer is AuthDone only if R's key is *)
(* MKey, whatever is lost, duplicated or reordered (MasterAuthRequiresKey,  *)
(* checked by the wrongkey run).                                           *)
THEOREM MasterAuthSound == Spec => []MasterAuthRequiresKey
<1>1. Init => KeyInv
  BY InitTypeInv DEF Init, KeyInv, KeysInFlight, FromR, MasterAuthRequiresKey
<1>2. Spec => []KeyInv
  BY <1>1, KeyInvStep, PTL DEF Spec
<1>. QED
  BY <1>2, PTL DEF KeyInv

=============================================================================
