---------------------- MODULE HomebrewLinkAgreement ----------------------
(***************************************************************************)
(* The two ends of a link agree on the login: when the repeater holds the *)
(* master's key and the network does not duplicate, R's outgoing peer is  *)
(* AuthDone only if M's incoming peer is.  The outgoing AuthBegin case    *)
(* (homebrew.go:464-472) takes any RPTACK as acceptance, so the argument   *)
(* is about which RPTACKs can be in flight while M has not accepted R.    *)
(***************************************************************************)
EXTENDS HomebrewLinkProofs

(* Before M has challenged R (no peer, or AuthNone): nothing R could take  *)
(* as a nonce or an acceptance is in flight, no RPTK either, and R has not *)
(* got past AuthNone.                                                      *)
MasterFresh ==
    mStatus \in {"Absent", "AuthNone"} =>
        /\ rStatus \in {"AuthNone", "AuthFailed"}
        /\ \A f \in net : f.verb \notin {"RPTK", "RPTACK"}

(* While M waits for the token (AuthBegin): every RPTK carries the token   *)
(* of M's nonce, the only RPTACK is the nonce one and it is never in      *)
(* flight while R is in AuthBegin, R's token is M's nonce, and R is not   *)
(* AuthDone.                                                               *)
MasterChallenged ==
    mStatus = "AuthBegin" =>
        /\ \A f \in net : f.verb = "RPTK" => f.val = Token(RKey, mNonce)
        /\ \A f \in net : f.verb = "RPTACK" => f.val = mNonce /\ rStatus # "AuthBegin"
        /\ rStatus = "AuthBegin" => rToken = mNonce
        /\ rStatus # "AuthDone"

AgreeInv == TypeInv /\ MasterFresh /\ MasterChallenged

Agree == MasterFresh /\ MasterChallenged

Quiet(Q) == \A f \in Q : f.verb \notin {"RPTK", "RPTACK"}

-----------------------------------------------------------------------------
(* Without duplication, reading a datagram removes it from the network. *)
LEMMA RestNoDup ==
    ASSUME ~Duplicating, NEW m, NEW rest \in Rest(m)
    PROVE  rest = net \ {m}
BY DEF Rest

(* A step that leaves M alone, sends nothing R could take as a nonce, an  *)
(* acceptance or a token, and keeps R's status or drops it back to         *)
(* AuthNone or AuthFailed keeps the agreement invariant.                   *)
LEMMA QuietStep ==
    ASSUME Agree, NEW Q, Quiet(Q), net' \subseteq net \cup Q,
           mStatus' = mStatus, mNonce' = mNonce,
           \/ rStatus' = rStatus /\ rToken' = rToken
           \/ rStatus' \in {"AuthNone", "AuthFailed"}
    PROVE  Agree'
BY DEF Agree, MasterFresh, MasterChallenged, Quiet

(* Once M's peer is AuthDone there is nothing left to agree on. *)
LEMMA MasterDone ==
    ASSUME mStatus' = "AuthDone"
    PROVE  Agree'
BY DEF Agree, MasterFresh, MasterChallenged

(* While M waits in AuthBegin, at most one RPTACK is in flight: a frame is *)
(* determined by its destination, verb and value.                          *)
LEMMA AckUnique ==
    ASSUME TypeOK, MasterChallenged, mStatus = "AuthBegin",
           NEW f \in net, NEW g \in net, f.verb = "RPTACK", g.verb = "RPTACK"
    PROVE  f = g
<1>1. f \in [to : {"R"}, verb : {"RPTACK"}, val : AckValues]
      /\ g \in [to : {"R"}, verb : {"RPTACK"}, val : AckValues]
  BY DEF TypeOK, Frames
<1>2. f.val = mNonce /\ g.val = mNonce
  BY DEF MasterChallenged
<1>3. QED
  BY <1>1, <1>2

(* What a reception by R does to the network and to M. *)
LEMMA RecvLinkedNet ==
    ASSUME ~Duplicating, NEW m, NEW status, NEW token, NEW linked, NEW ts, NEW out,
           RecvLinked(m, status, token, linked, ts, out)
    PROVE  /\ net' = (net \ {m}) \cup out
           /\ mStatus' = mStatus /\ mNonce' = mNonce
           /\ rStatus' = status /\ rToken' = token
BY RestNoDup DEF RecvLinked

(* The repeater's listener keeps the agreement.  The two cases that matter *)
(* are the RPTACK of a nonce, which R answers with the token of M's nonce *)
(* and which is then the only RPTACK there was, and the RPTACK R takes as *)
(* acceptance, which cannot be in flight while M waits in AuthBegin.      *)
LEMMA HandleRAgree ==
    ASSUME TypeInv, Agree, ~Duplicating, NEW m \in net, HandleR(m)
    PROVE  Agree'
<1>. Quiet({}) /\ Quiet({Frame("M", "RPTC", RID)}) /\ Quiet({Frame("M", "MSTPING", RID)})
  BY DEF Quiet, Frame
<1>1. CASE RecvUnlinked(m)
  BY <1>1, RestNoDup, QuietStep DEF RecvUnlinked
<1>2. CASE RecvNonce(m)
  <2>0. m.verb = "RPTACK"
    BY <1>2 DEF RecvNonce
  <2>1. /\ net' = (net \ {m}) \cup {Frame("M", "RPTK", Token(RKey, m.val))}
        /\ mStatus' = mStatus /\ mNonce' = mNonce
        /\ rStatus' = "AuthBegin" /\ rToken' = m.val
    <3>1. RecvLinked(m, "AuthBegin", m.val, TRUE, {},
                     {Frame("M", "RPTK", Token(RKey, m.val))})
      BY <1>2 DEF RecvNonce
    <3>2. QED
      BY <3>1, RecvLinkedNet
  <2>2. mStatus \notin {"Absent", "AuthNone"}
    BY <2>0 DEF Agree, MasterFresh
  <2>3. CASE mStatus = "AuthBegin"
    <3>1. m.val = mNonce
      BY <2>0, <2>3 DEF Agree, MasterChallenged
    <3>2. \A f \in net \ {m} : f.verb # "RPTACK"
      BY <2>0, <2>3, AckUnique DEF Agree, TypeInv
    <3>3. MasterChallenged'
      BY <2>1, <2>3, <3>1, <3>2 DEF Agree, MasterChallenged, Frame, Token
    <3>4. MasterFresh'
      BY <2>1, <2>3 DEF MasterFresh
    <3>5. QED
      BY <3>3, <3>4 DEF Agree
  <2>4. CASE mStatus = "AuthDone"
    BY <2>1, <2>4, MasterDone
  <2>5. QED
    BY <2>2, <2>3, <2>4 DEF TypeInv, TypeOK
<1>3. CASE RecvRefused(m)
  BY <1>3, RecvLinkedNet, QuietStep DEF RecvRefused
<1>4. CASE RecvAccepted(m)
  <2>1. rStatus = "AuthBegin" /\ m.verb = "RPTACK" /\ mStatus' = mStatus
    BY <1>4, RecvLinkedNet DEF RecvAccepted
  <2>2. mStatus = "AuthDone"
    BY <2>1 DEF Agree, MasterFresh, MasterChallenged, TypeInv, TypeOK
  <2>3. QED
    BY <2>1, <2>2, MasterDone
<1>5. ASSUME rStatus = "AuthDone", mStatus' = mStatus
      PROVE  Agree'
  <2>1. mStatus = "AuthDone"
    BY <1>5 DEF Agree, MasterFresh, MasterChallenged, TypeInv, TypeOK
  <2>2. QED
    BY <1>5, <2>1, MasterDone
<1>6. CASE RecvDoneAck(m) \/ RecvDeauth(m) \/ RecvPong(m)
  BY <1>5, <1>6, RecvLinkedNet DEF RecvDoneAck, RecvDeauth, RecvPong
<1>7. CASE RecvIgnored(m)
  BY <1>7, RecvLinkedNet, QuietStep DEF RecvIgnored
<1>8. QED
  BY <1>1, <1>2, <1>3, <1>4, <1>6, <1>7 DEF HandleR

(* What a reception by M does to the network and to R. *)
LEMMA RecvMNet ==
    ASSUME ~Duplicating, NEW m, NEW status, NEW nonce, NEW config, NEW out,
           RecvM(m, status, nonce, config, out)
    PROVE  /\ net' = (net \ {m}) \cup out
           /\ mStatus' = status /\ mNonce' = nonce
           /\ rStatus' = rStatus /\ rToken' = rToken
BY RestNoDup DEF RecvM

(* The master's listener keeps the agreement.  RecvLogin sends the one   *)
(* nonce RPTACK into a network that holds none, while R is not in         *)
(* AuthBegin; and the token check of RecvKey cannot fail, because every   *)
(* RPTK in flight carries the token of M's nonce made with R's key, which *)
(* is M's key.                                                             *)
LEMMA HandleMAgree ==
    ASSUME RKey = MKey, TypeInv, Agree, ~Duplicating, NEW m \in net, HandleM(m)
    PROVE  Agree'
<1>1. CASE RecvLogin(m)
  <2>1. PICK n \in Nonces :
            RecvM(m, "AuthBegin", n, mConfig, {Frame("R", "RPTACK", n)})
    BY <1>1 DEF RecvLogin
  <2>2. /\ net' = (net \ {m}) \cup {Frame("R", "RPTACK", n)}
        /\ mStatus' = "AuthBegin" /\ mNonce' = n
        /\ rStatus' = rStatus /\ rToken' = rToken
    BY <2>1, RecvMNet
  <2>3. /\ rStatus \in {"AuthNone", "AuthFailed"}
        /\ \A f \in net : f.verb \notin {"RPTK", "RPTACK"}
    BY <1>1 DEF RecvLogin, Agree, MasterFresh
  <2>4. MasterChallenged'
    BY <2>2, <2>3 DEF MasterChallenged, Frame
  <2>5. QED
    BY <2>2, <2>4 DEF Agree, MasterFresh
<1>2. CASE RecvLoginNonceFailed(m)
  <2>1. Quiet({Frame("R", "MSTNAK", MID)})
    BY DEF Quiet, Frame
  <2>2. RecvM(m, "AuthNone", mNonce, mConfig, {Frame("R", "MSTNAK", MID)})
        /\ mStatus \in {"Absent", "AuthNone"}
    BY <1>2 DEF RecvLoginNonceFailed
  <2>3. /\ net' = (net \ {m}) \cup {Frame("R", "MSTNAK", MID)}
        /\ mStatus' = "AuthNone" /\ mNonce' = mNonce
        /\ rStatus' = rStatus /\ rToken' = rToken
    BY <2>2, RecvMNet
  <2>4. MasterFresh'
    BY <2>1, <2>2, <2>3 DEF Agree, MasterFresh, Quiet
  <2>5. QED
    BY <2>3, <2>4 DEF Agree, MasterChallenged
<1>3. CASE RecvKey(m) \/ RecvPing(m) \/ RecvConfig(m)
  BY <1>3, MasterDone DEF RecvKey, RecvPing, RecvConfig, RecvM
<1>4. CASE RecvBadKey(m)
  <2>1. mStatus = "AuthBegin" /\ m.verb = "RPTK" /\ m.val # Token(MKey, mNonce)
    BY <1>4 DEF RecvBadKey
  <2>2. m.val = Token(RKey, mNonce)
    BY <2>1 DEF Agree, MasterChallenged
  <2>3. QED
    BY <2>1, <2>2
<1>5. CASE RecvMIgnored(m)
  <2>1. RecvM(m, mStatus, mNonce, mConfig, {})
    BY <1>5 DEF RecvMIgnored
  <2>2. Quiet({})
    BY DEF Quiet
  <2>3. QED
    BY <2>1, <2>2, RecvMNet, QuietStep
<1>6. QED
  BY <1>1, <1>2, <1>3, <1>4, <1>5 DEF HandleM

(* Link resends RPTK only in AuthBegin, with R's token, which is M's nonce *)
(* while M waits.                                                          *)
LEMMA LinkAgree ==
    ASSUME TypeInv, Agree, Link
    PROVE  Agree'
<1>. mStatus' = mStatus /\ mNonce' = mNonce /\ rStatus' = rStatus /\ rToken' = rToken
  BY DEF Link
<1>1. CASE rStatus = "AuthNone"
  <2>1. Quiet({Frame("M", "RPTL", RID)})
    BY DEF Quiet, Frame
  <2>2. QED
    BY <1>1, <2>1, QuietStep DEF Link
<1>2. CASE rStatus = "AuthBegin"
  <2>1. net' = net \cup {Frame("M", "RPTK", Token(RKey, rToken))}
    BY <1>2 DEF Link
  <2>2. mStatus \in {"AuthBegin", "AuthDone"}
    BY <1>2 DEF Agree, MasterFresh, TypeInv, TypeOK
  <2>3. CASE mStatus = "AuthBegin"
    BY <1>2, <2>1, <2>3 DEF Agree, MasterFresh, MasterChallenged, Frame
  <2>4. CASE mStatus = "AuthDone"
    BY <2>4, MasterDone
  <2>5. QED
    BY <2>2, <2>3, <2>4
<1>3. CASE rStatus \notin {"AuthNone", "AuthBegin"}
  <2>1. Quiet({})
    BY DEF Quiet
  <2>2. QED
    BY <1>3, <2>1, QuietStep DEF Link
<1>4. QED
  BY <1>1, <1>2, <1>3

(* A scan of the keepalive only falls back to AuthNone or AuthFailed, or  *)
(* acts in AuthDone, and sends RPTL, RPTCL or RPTPING.                      *)
LEMMA KeepaliveAgree ==
    ASSUME TypeInv, Agree, Keepalive
    PROVE  Agree'
<1>. /\ Quiet({}) /\ Quiet({Frame("M", "RPTL", RID)})
     /\ Quiet({Frame("M", "RPTCL", RID), Frame("M", "RPTL", RID)})
     /\ Quiet({Frame("M", "RPTPING", RID)})
  BY DEF Quiet, Frame
<1>1. CASE KeepaliveRetry \/ KeepaliveAuthTimeout \/ KeepaliveIdle
  BY <1>1, QuietStep DEF KeepaliveRetry, KeepaliveAuthTimeout, KeepaliveIdle, Scan
<1>2. CASE KeepalivePingTimeout \/ KeepalivePing
  <2>1. rStatus = "AuthDone" /\ mStatus' = mStatus
    BY <1>2 DEF KeepalivePingTimeout, KeepalivePing, Scan
  <2>2. mStatus = "AuthDone"
    BY <2>1 DEF Agree, MasterFresh, MasterChallenged, TypeInv, TypeOK
  <2>3. QED
    BY <2>1, <2>2, MasterDone
<1>3. CASE KeepaliveUnlinked
  BY <1>3, QuietStep DEF KeepaliveUnlinked
<1>4. QED
  BY <1>1, <1>2, <1>3 DEF Keepalive

LEMMA AgreeStep ==
    ASSUME RKey = MKey, ~Duplicating, TypeInv, Agree, [Next]_vars
    PROVE  Agree'
<1>. Quiet({})
  BY DEF Quiet
<1>1. CASE Link
  BY <1>1, LinkAgree
<1>2. CASE \E m \in net : HandleR(m) \/ HandleM(m) \/ Lose(m)
  <2>1. PICK m \in net : HandleR(m) \/ HandleM(m) \/ Lose(m)
    BY <1>2
  <2>2. CASE Lose(m)
    BY <2>2, QuietStep DEF Lose
  <2>3. QED
    BY <2>1, <2>2, HandleRAgree, HandleMAgree
<1>3. CASE Keepalive
  BY <1>3, KeepaliveAgree
<1>4. CASE Tick
  BY <1>4, QuietStep DEF Tick
<1>5. CASE UNCHANGED vars
  BY <1>5, QuietStep DEF vars
<1>6. QED
  BY <1>1, <1>2, <1>3, <1>4, <1>5 DEF Next

(* When the repeater's key is the master's and no datagram is delivered   *)
(* twice, R's outgoing peer is AuthDone only if M's incoming peer is:     *)
(* R's AuthBegin case (homebrew.go:464-472) never sees an RPTACK that M   *)
(* did not send as its acceptance, whatever is lost or reordered and for *)
(* every number of nonces, losses and timeouts (RepeaterDoneImpliesMasterDone, *)
(* checked by the safety and sameid runs; runs badkey shows both          *)
(* hypotheses are needed).                                                 *)
THEOREM RepeaterAgreement ==
    RKey = MKey /\ ~Duplicating => (Spec => []RepeaterDoneImpliesMasterDone)
<1> SUFFICES ASSUME RKey = MKey, ~Duplicating
             PROVE  Spec => []RepeaterDoneImpliesMasterDone
  OBVIOUS
<1>1. Init => AgreeInv
  BY InitTypeInv DEF Init, AgreeInv, MasterFresh, MasterChallenged
<1>2. AgreeInv /\ [Next]_vars => AgreeInv'
  BY TypeInvStep, AgreeStep DEF AgreeInv, Agree
<1>3. AgreeInv => RepeaterDoneImpliesMasterDone
  BY DEF AgreeInv, MasterFresh, MasterChallenged, TypeInv, TypeOK,
         RepeaterDoneImpliesMasterDone
<1>4. QED
  BY <1>1, <1>2, <1>3, PTL DEF Spec

(* Only M's listener moves M's peer: the repeater's steps, the keepalive,  *)
(* the clock and a loss leave mStatus alone.                               *)
LEMMA MasterOnlyByHandleM ==
    ASSUME [Next]_vars, ~\E m \in net : HandleM(m)
    PROVE  mStatus' = mStatus
<1>1. CASE Link
  BY <1>1 DEF Link
<1>2. CASE \E m \in net : HandleR(m) \/ Lose(m)
  BY <1>2 DEF HandleR, RecvUnlinked, RecvLinked, RecvNonce, RecvRefused,
              RecvAccepted, RecvDoneAck, RecvDeauth, RecvPong, RecvIgnored, Lose
<1>3. CASE Keepalive
  BY <1>3 DEF Keepalive, KeepaliveRetry, KeepaliveAuthTimeout,
              KeepalivePingTimeout, KeepalivePing, KeepaliveIdle,
              KeepaliveUnlinked, Scan
<1>4. CASE Tick
  BY <1>4 DEF Tick
<1>5. CASE UNCHANGED vars
  BY <1>5 DEF vars
<1>6. QED
  BY <1>1, <1>2, <1>3, <1>4, <1>5 DEF Next

(* Under the agreement invariant M's token check never fails: the RPTK it *)
(* reads in AuthBegin carries the token of its current nonce.              *)
LEMMA ChallengeStep ==
    ASSUME RKey = MKey, Agree, [Next]_vars
    PROVE  ChallengeAnswered
<1>1. CASE \E m \in net : HandleM(m)
  <2>1. PICK m \in net : HandleM(m)
    BY <1>1
  <2>2. CASE RecvBadKey(m)
    <3>1. mStatus = "AuthBegin" /\ m.verb = "RPTK" /\ m.val # Token(MKey, mNonce)
      BY <2>2 DEF RecvBadKey
    <3>2. m.val = Token(RKey, mNonce)
      BY <3>1 DEF Agree, MasterChallenged
    <3>3. QED
      BY <3>1, <3>2
  <2>3. CASE RecvLogin(m) \/ RecvLoginNonceFailed(m)
    BY <2>3 DEF RecvLogin, RecvLoginNonceFailed, ChallengeAnswered
  <2>4. CASE RecvKey(m) \/ RecvPing(m) \/ RecvConfig(m) \/ RecvMIgnored(m)
    BY <2>4 DEF RecvKey, RecvPing, RecvConfig, RecvMIgnored, RecvM,
                ChallengeAnswered
  <2>5. QED
    BY <2>1, <2>2, <2>3, <2>4 DEF HandleM
<1>2. CASE ~\E m \in net : HandleM(m)
  BY <1>2, MasterOnlyByHandleM DEF ChallengeAnswered
<1>3. QED
  BY <1>1, <1>2

(* When the repeater's key is the master's and no datagram is delivered   *)
(* twice, M's incoming peer, once it has sent its nonce (AuthBegin), never *)
(* takes the RecvBadKey branch of homebrew.go:397-423: its next status is  *)
(* AuthDone, whatever RPTK or RPTL frames are lost, reordered or resent by *)
(* R's retries (TokenNeverRejected, checked by the safety run).            *)
THEOREM TokenAccepted ==
    RKey = MKey /\ ~Duplicating => (Spec => TokenNeverRejected)
<1> SUFFICES ASSUME RKey = MKey, ~Duplicating
             PROVE  Spec => [][ChallengeAnswered]_vars
  BY DEF TokenNeverRejected
<1>1. Init => AgreeInv
  BY InitTypeInv DEF Init, AgreeInv, MasterFresh, MasterChallenged
<1>2. AgreeInv /\ [Next]_vars => AgreeInv'
  BY TypeInvStep, AgreeStep DEF AgreeInv, Agree
<1>3. AgreeInv /\ [Next]_vars => [ChallengeAnswered]_vars
  <2> SUFFICES ASSUME AgreeInv, [Next]_vars
               PROVE  ChallengeAnswered
    OBVIOUS
  <2>1. Agree
    BY DEF AgreeInv, Agree
  <2>2. QED
    BY <2>1, ChallengeStep
<1>4. QED
  BY <1>1, <1>2, <1>3, PTL DEF Spec


=============================================================================
