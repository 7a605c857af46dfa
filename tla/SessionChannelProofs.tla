------------------------- MODULE SessionChannelProofs -------------------------
(***************************************************************************)
(* Proofs about SessionChannel for every set of devices, accounts and      *)
(* turns and every value of the bounds.                                    *)
(***************************************************************************)
EXTENDS SessionChannel, TLAPS

(***************************************************************************)
(* From the moment it posts its WMK a client holds the SK of its own       *)
(* current ephemeral key.                                                  *)
(***************************************************************************)
KeyHeld ==
    \A d \in Devices : dev[d].phase \in {"establishing", "ready"} =>
        dev[d].sk \in SKs /\ dev[d].sk.eph = <<d, dev[d].eph>>

(***************************************************************************)
(* A running reply belongs to an account that has a session: nothing but a *)
(* restart, which also ends the reply, ever removes one.                   *)
(***************************************************************************)
Running ==
    \A t \in Turns : gw[t].st = "running" =>
        gw[t].acct \in Accounts /\ sessions[gw[t].acct] # NoSession

LEMMA InitType == Init => TypeOK /\ KeyHeld /\ Running
<1> SUFFICES ASSUME Init PROVE TypeOK /\ KeyHeld /\ Running
    OBVIOUS
<1>1. SessionsType /\ AttestType /\ SessionNetType /\ ChatNetType
      BY DEF Init, SessionsType, AttestType, SessionNetType, ChatNetType
<1>2. DevType /\ ClType /\ KeyHeld
      BY DEF Init, DevType, ClType, KeyHeld, Phases, TurnStates
<1>3. GwType /\ StreamType /\ Running
      BY DEF Init, GwType, StreamType, Running
<1> QED BY <1>1, <1>2, <1>3 DEF TypeOK

\* An event other than a delta carries no key.
LEMMA ControlEvent ==
    \A k \in {"done", "error", "refused"} : [kind |-> k, sk |-> NoKey] \in Events
  BY DEF Events

\* The events of a stream that one more event was appended to.
LEMMA AppendEvent ==
    ASSUME NEW s \in Seq(Events), NEW e \in Events
    PROVE  \A i \in 1..Len(Append(s, e)) :
               (i \in 1..Len(s) /\ Append(s, e)[i] = s[i]) \/ Append(s, e)[i] = e
  OBVIOUS

LEMMA StepType == TypeOK /\ KeyHeld /\ Running /\ [Next]_vars => TypeOK' /\ KeyHeld' /\ Running'
<1> SUFFICES ASSUME TypeOK, KeyHeld, Running, [Next]_vars PROVE TypeOK' /\ KeyHeld' /\ Running'
    OBVIOUS
<1> USE DEF handshakeVars, turnVars
<1>1. ASSUME NEW d \in Devices, StartHandshake(d) PROVE TypeOK' /\ KeyHeld' /\ Running'
  <2>1. DevType' /\ KeyHeld'
        BY <1>1 DEF TypeOK, StartHandshake, DevType, Phases, KeyHeld
  <2>2. AttestType'
        BY <1>1 DEF TypeOK, StartHandshake, DevType, AttestType, Ephs
  <2> QED BY <1>1, <2>1, <2>2 DEF StartHandshake, TypeOK, Running, SessionsType, SessionNetType,
                                  ChatNetType, ClType, GwType, StreamType
<1>2. ASSUME NEW d \in Devices, NEW e \in evidence, EstablishSession(d, e)
      PROVE TypeOK' /\ KeyHeld' /\ Running'
  <2> DEFINE sk == DeriveSessionKey(e.eph, e.pub)
  <2>1. sk \in SKs
        BY DEF TypeOK, AttestType, DeriveSessionKey, SKs
  <2>2. Owner[d] \in Accounts
        BY OwnerAssumption
  <2>3. Seal(sk, Owner[d], "wmk-delivery", Wmk(Owner[d])) \in Envelopes
        BY <2>1, <2>2 DEF Seal, Envelopes, Wmk, Kinds
  <2> HIDE DEF sk
  <2>4. DevType' /\ KeyHeld'
    <3>1. sk.eph = <<d, dev[d].eph>>
          BY <1>2 DEF EstablishSession, DeriveSessionKey, sk
    <3>2. dev' = [dev EXCEPT ![d].phase = "establishing", ![d].sk = sk]
          BY <1>2 DEF EstablishSession, sk
    <3>3. DevType'
          BY <2>1, <3>2 DEF TypeOK, DevType, Phases
    <3>4. dev'[d].sk = sk /\ dev'[d].eph = dev[d].eph
          BY <3>2 DEF TypeOK, DevType
    <3>5. \A x \in Devices : x # d => dev'[x] = dev[x]
          BY <3>2 DEF TypeOK, DevType
    <3> QED BY <2>1, <3>1, <3>3, <3>4, <3>5 DEF KeyHeld
  <2>5. AttestType' /\ SessionNetType'
        BY <1>2, <2>2, <2>3 DEF TypeOK, EstablishSession, AttestType, SessionNetType, sk
  <2> QED BY <1>2, <2>4, <2>5 DEF EstablishSession, TypeOK, Running, SessionsType,
                                  ChatNetType, ClType, GwType, StreamType
<1>3. ASSUME NEW d \in Devices, NEW r \in sessionR, SessionEstablished(d, r)
      PROVE TypeOK' /\ KeyHeld' /\ Running'
  <2>1. DevType' /\ KeyHeld'
        BY <1>3 DEF TypeOK, SessionEstablished, DevType, Phases, KeyHeld
  <2>2. SessionNetType'
        BY <1>3 DEF TypeOK, SessionEstablished, SessionNetType
  <2> QED BY <1>3, <2>1, <2>2 DEF SessionEstablished, TypeOK, Running, SessionsType, AttestType,
                                  ChatNetType, ClType, GwType, StreamType
<1>4. ASSUME NEW d \in Devices, Abandon(d) PROVE TypeOK' /\ KeyHeld' /\ Running'
  <2>1. DevType' /\ KeyHeld'
        BY <1>4 DEF TypeOK, Abandon, DevType, Phases, KeyHeld
  <2>2. ClType'
        BY <1>4 DEF TypeOK, Abandon, ClType, TurnStates
  <2> QED BY <1>4, <2>1, <2>2 DEF Abandon, TypeOK, Running, SessionsType, AttestType,
                                  SessionNetType, ChatNetType, GwType, StreamType
<1>5. ASSUME NEW d \in Devices, NEW t \in Turns, Submit(d, t) PROVE TypeOK' /\ KeyHeld' /\ Running'
  <2>1. Owner[d] \in Accounts
        BY OwnerAssumption
  <2>2. ClType'
        BY <1>5 DEF TypeOK, Submit, DevType, ClType, TurnStates
  <2>3. ChatNetType'
    <3>1. Seal(dev[d].sk, Owner[d], "chat", Prompt(Owner[d])) \in Envelopes
          BY <1>5, <2>1 DEF Submit, KeyHeld, Seal, Envelopes, Prompt, Kinds
    <3> QED BY <1>5, <2>1, <3>1 DEF TypeOK, Submit, ChatNetType
  <2> QED BY <1>5, <2>2, <2>3 DEF Submit, TypeOK, KeyHeld, Running, SessionsType, DevType,
                                  AttestType, SessionNetType, GwType, StreamType
<1>6. ASSUME NEW t \in Turns, Receive(t) PROVE TypeOK' /\ KeyHeld' /\ Running'
  <2>1. StreamType'
        BY <1>6 DEF TypeOK, Receive, StreamType
  <2>2. Head(stream[t]) \in Events
        BY <1>6 DEF TypeOK, Receive, StreamType
  <2>3. ClType'
    <3> DEFINE ev == Head(stream[t])
               st == CASE ev.kind = "token" -> "open"
                       [] ev.kind = "done"  -> "done"
                       [] ev.kind = "error" -> "failed"
                       [] ev.kind = "refused" -> "refused"
               lost == cl[t].lost \/ (ev.kind = "token" /\ ev.sk # cl[t].sk)
    <3>1. st \in TurnStates
          BY <2>2 DEF Events, TurnStates
    <3>2. lost \in BOOLEAN
          BY DEF TypeOK, ClType
    <3>3. cl' = [cl EXCEPT ![t].st = st, ![t].lost = lost]
          BY <1>6 DEF Receive, TypeOK, ClType
    <3> HIDE DEF st, lost
    <3> QED BY <3>1, <3>2, <3>3 DEF TypeOK, ClType
  <2> QED BY <1>6, <2>1, <2>3 DEF Receive, TypeOK, KeyHeld, Running, SessionsType, DevType,
                                  AttestType, SessionNetType, ChatNetType, GwType
<1>7. ASSUME NEW eph \in attestQ, Attest(eph) PROVE TypeOK' /\ KeyHeld' /\ Running'
  <2>1. AttestType'
        BY <1>7 DEF TypeOK, Attest, AttestType, SessionsType
  <2> QED BY <1>7, <2>1 DEF Attest, TypeOK, KeyHeld, Running, SessionsType, DevType,
                            SessionNetType, ChatNetType, ClType, GwType, StreamType
<1>8. ASSUME NEW m \in sessionQ, NEW b \in sessionQ, Establish(m, b)
      PROVE TypeOK' /\ KeyHeld' /\ Running'
  <2>1. /\ m.acct \in Accounts /\ m.eph \in Ephs
        /\ b.eph \in Ephs /\ b.env.body \in Kinds \X Accounts
        BY DEF TypeOK, SessionNetType, Envelopes
  <2>2. [sk |-> DeriveSessionKey(b.eph, cvm), wmk |-> b.env.body]
            \in [sk : SKs, wmk : Kinds \X Accounts]
        BY <2>1 DEF TypeOK, SessionsType, DeriveSessionKey, SKs
  <2>3. SessionsType'
        BY <1>8, <2>1, <2>2 DEF TypeOK, Establish, SessionsType
  <2>4. SessionNetType'
    <3>1. Opens(DeriveSessionKey(b.eph, cvm), m.acct, "wmk-delivery", b.env) \in BOOLEAN
          BY DEF Opens
    <3> QED BY <1>8, <2>1, <3>1 DEF TypeOK, Establish, SessionNetType
  <2>5. Running'
        BY <1>8, <2>1, <2>2, NoKeyAssumption DEF TypeOK, Establish, SessionsType, Running
  <2> QED BY <1>8, <2>3, <2>4, <2>5 DEF Establish, TypeOK, KeyHeld, DevType, AttestType,
                                        ChatNetType, ClType, GwType, StreamType
<1>9. ASSUME NEW m \in chatQ, NEW env \in Envelopes, Chat(m, env)
      PROVE TypeOK' /\ KeyHeld' /\ Running'
  <2>1. m.turn \in Turns /\ m.acct \in Accounts /\ env.body \in Kinds \X Accounts
        BY DEF TypeOK, ChatNetType, Envelopes
  <2>2. ChatNetType'
        BY <1>9 DEF TypeOK, Chat, ChatNetType
  <2>3. GwType' /\ Running'
        BY <1>9, <2>1 DEF TypeOK, Chat, GwType, Running
  <2>4. StreamType'
        BY <1>9, <2>1, ControlEvent DEF TypeOK, Chat, StreamType
  <2> QED BY <1>9, <2>2, <2>3, <2>4 DEF Chat, TypeOK, KeyHeld, SessionsType, DevType, AttestType,
                                        SessionNetType, ClType
<1>10. ASSUME NEW t \in Turns, SealDelta(t) PROVE TypeOK' /\ KeyHeld' /\ Running'
  <2>1. [kind |-> "token", sk |-> sessions[gw[t].acct].sk] \in Events
        BY <1>10 DEF TypeOK, SealDelta, SessionsType, Running, Events
  <2>2. StreamType'
        BY <1>10, <2>1 DEF TypeOK, SealDelta, StreamType
  <2>3. GwType'
    <3>1. gw' = [gw EXCEPT ![t].sealed = gw[t].sealed + 1]
          BY <1>10 DEF SealDelta, TypeOK, GwType
    <3>2. gw[t].sealed + 1 \in Nat
          BY DEF TypeOK, GwType
    <3> QED BY <3>1, <3>2 DEF TypeOK, GwType
  <2>4. \A x \in Turns : gw'[x].st = gw[x].st /\ gw'[x].acct = gw[x].acct
        BY <1>10 DEF TypeOK, SealDelta, GwType
  <2>5. Running'
        BY <1>10, <2>4 DEF SealDelta, Running
  <2> QED BY <1>10, <2>2, <2>3, <2>5 DEF SealDelta, TypeOK, KeyHeld, SessionsType, DevType, AttestType,
                                   SessionNetType, ChatNetType, ClType
<1>11. ASSUME NEW t \in Turns, NEW k \in {"done", "error"}, EndReply(t, k)
       PROVE TypeOK' /\ KeyHeld' /\ Running'
  <2>1. StreamType'
        BY <1>11, ControlEvent DEF TypeOK, EndReply, StreamType
  <2>2. GwType' /\ Running'
        BY <1>11 DEF TypeOK, EndReply, GwType, Running
  <2> QED BY <1>11, <2>1, <2>2 DEF EndReply, TypeOK, KeyHeld, SessionsType, DevType, AttestType,
                                   SessionNetType, ChatNetType, ClType
<1>12. CASE Restart
  <2>1. SessionsType'
        BY <1>12 DEF TypeOK, Restart, SessionsType
  <2>2. GwType' /\ Running'
        BY <1>12 DEF TypeOK, Restart, GwType, Running
  <2>3. StreamType'
        BY <1>12, ControlEvent DEF TypeOK, Restart, StreamType
  <2> QED BY <1>12, <2>1, <2>2, <2>3 DEF Restart, TypeOK, KeyHeld, DevType, AttestType,
                                         SessionNetType, ChatNetType, ClType
<1>13. CASE UNCHANGED vars
       BY <1>13 DEF vars, TypeOK, KeyHeld, Running, SessionsType, DevType, AttestType,
                    SessionNetType, ChatNetType, ClType, GwType, StreamType
<1>14. ASSUME NEW m \in sessionQ, NEW b \in SessionBodies(m) PROVE b \in sessionQ
       BY <1>14 DEF SessionBodies
<1>15. ASSUME NEW m \in chatQ, NEW env \in ChatBodies(m) PROVE env \in Envelopes
       BY <1>15 DEF ChatBodies, TypeOK, ChatNetType, SessionNetType
<1> QED
    BY <1>1, <1>2, <1>3, <1>4, <1>5, <1>6, <1>7, <1>8, <1>9, <1>10, <1>11, <1>12, <1>13,
       <1>14, <1>15
    DEF Next, ClientHandshake, ServeAttest, ServeSession, ServeChat, GatewayStep

(***************************************************************************)
(* Every variable of the channel always has its type.                      *)
(***************************************************************************)
THEOREM TypeCorrect == Spec => []TypeOK
<1>1. Init => TypeOK /\ KeyHeld /\ Running
      BY InitType
<1>2. TypeOK /\ KeyHeld /\ Running /\ [Next]_vars => (TypeOK /\ KeyHeld /\ Running)'
      BY StepType
<1> QED BY <1>1, <1>2, PTL DEF Spec
-----------------------------------------------------------------------------
\* What a client seals names its own account, under a key of that account.
Honest(env) ==
    Owner[env.sk.eph[1]] = env.acct /\ env.body = <<env.purpose, env.acct>>

NetHonest ==
    /\ \A m \in sessionQ : Honest(m.env)
    /\ \A m \in chatQ : Honest(m.env)

\* A turn is posted once, and nothing is streamed before its request is served.
PostedOnce ==
    /\ \A m \in chatQ : gw[m.turn].st = "idle" /\ cl[m.turn].st # "idle"
    /\ \A m1, m2 \in chatQ : m1.turn = m2.turn => m1 = m2
    /\ \A t \in Turns : cl[t].st = "idle" => gw[t].st = "idle"
    /\ \A t \in Turns : gw[t].st = "idle" => stream[t] = <<>>

OwnInv == NetHonest /\ PostedOnce /\ SessionOwnership /\ TurnConfidential

LEMMA InitOwn == Init => OwnInv
  BY DEF Init, OwnInv, NetHonest, PostedOnce, SessionOwnership, TurnConfidential

LEMMA StepOwn == TypeOK /\ KeyHeld /\ Running /\ OwnInv /\ [Next]_vars => OwnInv'
<1> SUFFICES ASSUME TypeOK, KeyHeld, Running, OwnInv, [Next]_vars PROVE OwnInv'
    OBVIOUS
<1> USE DEF handshakeVars, turnVars
<1>1. ASSUME NEW d \in Devices, StartHandshake(d) PROVE OwnInv'
      BY <1>1 DEF StartHandshake, OwnInv, NetHonest, PostedOnce, SessionOwnership, TurnConfidential
<1>2. ASSUME NEW d \in Devices, NEW e \in evidence, EstablishSession(d, e) PROVE OwnInv'
  <2>1. NetHonest'
        BY <1>2 DEF EstablishSession, OwnInv, NetHonest, Honest, Seal, DeriveSessionKey, Wmk
  <2> QED BY <1>2, <2>1 DEF EstablishSession, OwnInv, PostedOnce, SessionOwnership, TurnConfidential
<1>3. ASSUME NEW d \in Devices, NEW r \in sessionR, SessionEstablished(d, r) PROVE OwnInv'
      BY <1>3 DEF SessionEstablished, OwnInv, NetHonest, PostedOnce, SessionOwnership,
                  TurnConfidential
<1>4. ASSUME NEW d \in Devices, Abandon(d) PROVE OwnInv'
  <2>1. \A t \in Turns : cl'[t].st = "idle" <=> cl[t].st = "idle"
        BY <1>4 DEF Abandon, TypeOK, ClType
  <2>2. PostedOnce'
        BY <1>4, <2>1 DEF Abandon, TypeOK, ChatNetType, OwnInv, PostedOnce
  <2> QED BY <1>4, <2>2 DEF Abandon, OwnInv, NetHonest, SessionOwnership, TurnConfidential
<1>5. ASSUME NEW d \in Devices, NEW t \in Turns, Submit(d, t) PROVE OwnInv'
  <2>1. NetHonest'
        BY <1>5 DEF Submit, KeyHeld, OwnInv, NetHonest, Honest, Seal, Prompt
  <2>2. PostedOnce'
        BY <1>5 DEF Submit, TypeOK, ClType, ChatNetType, OwnInv, PostedOnce
  <2> QED BY <1>5, <2>1, <2>2 DEF Submit, OwnInv, SessionOwnership, TurnConfidential
<1>6. ASSUME NEW t \in Turns, Receive(t) PROVE OwnInv'
  <2>1. \A x \in Turns : cl'[x].st = "idle" <=> cl[x].st = "idle"
    <3>1. Head(stream[t]) \in Events
          BY <1>6 DEF TypeOK, Receive, StreamType
    <3>2. cl[t].st = "open" /\ cl'[t].st # "idle"
          BY <1>6, <3>1 DEF Receive, TypeOK, ClType, Events
    <3>3. \A x \in Turns : x # t => cl'[x] = cl[x]
          BY <1>6 DEF Receive, TypeOK, ClType
    <3> QED BY <3>2, <3>3
  <2>2. PostedOnce'
    <3>1. \A x \in Turns : stream[x] = <<>> => stream'[x] = <<>>
          BY <1>6 DEF Receive, TypeOK, StreamType
    <3> QED BY <1>6, <2>1, <3>1 DEF Receive, TypeOK, ChatNetType, OwnInv, PostedOnce
  <2>3. TurnConfidential'
    <3>1. \A x \in Turns : \A i \in 1..Len(stream'[x]) :
             \E j \in 1..Len(stream[x]) : stream'[x][i] = stream[x][j]
      <4>1. \A x \in Turns : x # t => stream'[x] = stream[x]
            BY <1>6 DEF Receive, TypeOK, StreamType
      <4>2. stream'[t] = Tail(stream[t]) /\ stream[t] \in Seq(Events) /\ stream[t] # <<>>
            BY <1>6 DEF Receive, TypeOK, StreamType
      <4>3. \A i \in 1..Len(stream'[t]) :
               i + 1 \in 1..Len(stream[t]) /\ stream'[t][i] = stream[t][i + 1]
            BY <4>2
      <4> QED BY <4>1, <4>3
    <3> QED BY <1>6, <3>1 DEF Receive, OwnInv, TurnConfidential
  <2> QED BY <1>6, <2>2, <2>3 DEF Receive, OwnInv, NetHonest, SessionOwnership
<1>7. ASSUME NEW eph \in attestQ, Attest(eph) PROVE OwnInv'
      BY <1>7 DEF Attest, OwnInv, NetHonest, PostedOnce, SessionOwnership, TurnConfidential
<1>8. ASSUME NEW m \in sessionQ, NEW b \in sessionQ, Establish(m, b) PROVE OwnInv'
  <2>1. SessionOwnership'
    <3> DEFINE sk == DeriveSessionKey(b.eph, cvm)
    <3>1. CASE ~Opens(sk, m.acct, "wmk-delivery", b.env)
          BY <1>8, <3>1 DEF Establish, OwnInv, SessionOwnership
    <3>2. CASE Opens(sk, m.acct, "wmk-delivery", b.env)
      <4>1. b.env.body = Wmk(m.acct) /\ Owner[sk.eph[1]] = m.acct /\ sk.cvm = cvm
            BY <3>2 DEF OwnInv, NetHonest, Honest, Opens, Wmk, DeriveSessionKey
      <4>2. sessions' = [sessions EXCEPT ![m.acct] = [sk |-> sk, wmk |-> b.env.body]] /\ cvm' = cvm
            BY <1>8, <3>2 DEF Establish
      <4> HIDE DEF sk
      <4> QED BY <4>1, <4>2 DEF TypeOK, SessionsType, OwnInv, SessionOwnership
    <3> QED BY <3>1, <3>2
  <2> QED BY <1>8, <2>1 DEF Establish, OwnInv, NetHonest, PostedOnce, TurnConfidential
<1>9. ASSUME NEW m \in chatQ, NEW env \in Envelopes, Honest(env), Chat(m, env) PROVE OwnInv'
  <2>1. m.turn \in Turns /\ gw[m.turn].st = "idle" /\ stream[m.turn] = <<>>
        BY DEF TypeOK, ChatNetType, OwnInv, PostedOnce
  <2>2. \A x \in Turns : x # m.turn => gw'[x] = gw[x] /\ stream'[x] = stream[x]
        BY <1>9, <2>1 DEF Chat, TypeOK, GwType, StreamType
  <2>3. gw'[m.turn].st # "idle"
        BY <1>9, <2>1 DEF Chat, TypeOK, GwType
  <2>4. PostedOnce'
        BY <1>9, <2>1, <2>2, <2>3 DEF Chat, TypeOK, ChatNetType, OwnInv, PostedOnce
  <2>5. gw'[m.turn].st = "running" => gw'[m.turn].prompt = Prompt(gw'[m.turn].acct)
        BY <1>9, <2>1 DEF Chat, TypeOK, GwType, Opens, Honest, Prompt
  <2>6. \A i \in 1..Len(stream'[m.turn]) : stream'[m.turn][i].kind # "token"
        BY <1>9, <2>1 DEF Chat, TypeOK, StreamType
  <2>7. TurnConfidential'
        BY <2>1, <2>2, <2>5, <2>6 DEF OwnInv, TurnConfidential
  <2> QED BY <1>9, <2>4, <2>7 DEF Chat, OwnInv, NetHonest, SessionOwnership
<1>10. ASSUME NEW t \in Turns, SealDelta(t) PROVE OwnInv'
  <2>1. \A x \in Turns : /\ gw'[x].st = gw[x].st /\ gw'[x].acct = gw[x].acct
                         /\ gw'[x].prompt = gw[x].prompt
        BY <1>10 DEF TypeOK, SealDelta, GwType
  <2>2. \A x \in Turns : x # t => stream'[x] = stream[x]
        BY <1>10 DEF TypeOK, SealDelta, StreamType
  <2>3. stream'[t] = Append(stream[t], [kind |-> "token", sk |-> sessions[gw[t].acct].sk])
        BY <1>10 DEF TypeOK, SealDelta, StreamType
  <2>4. Owner[sessions[gw[t].acct].sk.eph[1]] = gw[t].acct
        BY <1>10 DEF SealDelta, Running, OwnInv, SessionOwnership
  <2>5. TurnConfidential'
    <3>1. stream[t] \in Seq(Events)
             /\ [kind |-> "token", sk |-> sessions[gw[t].acct].sk] \in Events
          BY <1>10 DEF TypeOK, SealDelta, SessionsType, Running, Events, StreamType
    <3>2. \A i \in 1..Len(stream'[t]) :
              \/ i \in 1..Len(stream[t]) /\ stream'[t][i] = stream[t][i]
              \/ stream'[t][i].sk = sessions[gw[t].acct].sk
          BY <2>3, <3>1, AppendEvent
    <3> QED BY <2>1, <2>2, <2>4, <3>2 DEF OwnInv, TurnConfidential
  <2>6. PostedOnce'
        BY <1>10, <2>1, <2>2 DEF SealDelta, TypeOK, ChatNetType, OwnInv, PostedOnce
  <2> QED BY <1>10, <2>5, <2>6 DEF SealDelta, OwnInv, NetHonest, SessionOwnership
<1>11. ASSUME NEW t \in Turns, NEW k \in {"done", "error"}, EndReply(t, k) PROVE OwnInv'
  <2>1. \A x \in Turns : /\ gw'[x].acct = gw[x].acct /\ gw'[x].prompt = gw[x].prompt
                         /\ gw'[x].st = "running" => gw[x].st = "running"
                         /\ gw'[x].st = "idle" => gw[x].st = "idle"
                         /\ gw[x].st = "idle" => gw'[x].st = "idle"
        BY <1>11 DEF TypeOK, EndReply, GwType
  <2>2. \A x \in Turns : x # t => stream'[x] = stream[x]
        BY <1>11 DEF TypeOK, EndReply, StreamType
  <2>3. stream'[t] = Append(stream[t], [kind |-> k, sk |-> NoKey])
        BY <1>11 DEF TypeOK, EndReply, StreamType
  <2>4. TurnConfidential'
    <3>1. stream[t] \in Seq(Events) /\ [kind |-> k, sk |-> NoKey] \in Events
          BY ControlEvent DEF TypeOK, StreamType
    <3>2. \A i \in 1..Len(stream'[t]) :
              \/ i \in 1..Len(stream[t]) /\ stream'[t][i] = stream[t][i]
              \/ stream'[t][i].kind # "token"
          BY <2>3, <3>1, AppendEvent
    <3>3. \A x \in Turns : gw'[x].st = "running" => gw'[x].prompt = Prompt(gw'[x].acct)
          BY <2>1 DEF OwnInv, TurnConfidential
    <3>4. \A x \in Turns : \A i \in 1..Len(stream'[x]) :
              \/ i \in 1..Len(stream[x]) /\ stream'[x][i] = stream[x][i]
              \/ stream'[x][i].kind # "token"
          BY <2>2, <3>2
    <3>5. \A x \in Turns : \A i \in 1..Len(stream'[x]) :
              stream'[x][i].kind = "token" => Owner[stream'[x][i].sk.eph[1]] = gw[x].acct
          BY <3>4 DEF OwnInv, TurnConfidential
    <3>6. \A x \in Turns : gw'[x].acct = gw[x].acct
          BY <2>1
    <3> QED BY <3>3, <3>5, <3>6 DEF TurnConfidential
  <2>5. PostedOnce'
        BY <1>11, <2>1, <2>2 DEF EndReply, TypeOK, ChatNetType, OwnInv, PostedOnce
  <2> QED BY <1>11, <2>4, <2>5 DEF EndReply, OwnInv, NetHonest, SessionOwnership
<1>12. CASE Restart
  <2>1. \A x \in Turns : /\ gw'[x].acct = gw[x].acct
                         /\ gw'[x].st # "running"
                         /\ gw'[x].st = "idle" => gw[x].st = "idle"
                         /\ gw[x].st = "idle" => gw'[x].st = "idle"
        BY <1>12 DEF TypeOK, Restart, GwType
  <2>2. \A x \in Turns : \/ stream'[x] = stream[x]
                         \/ /\ gw[x].st = "running"
                            /\ stream'[x] = Append(stream[x], [kind |-> "error", sk |-> NoKey])
        BY <1>12 DEF TypeOK, Restart, StreamType
  <2>3. TurnConfidential'
    <3>1. \A x \in Turns : stream[x] \in Seq(Events)
          BY DEF TypeOK, StreamType
    <3>2. [kind |-> "error", sk |-> NoKey] \in Events
          BY ControlEvent
    <3>3. \A x \in Turns : \A i \in 1..Len(stream'[x]) :
              \/ i \in 1..Len(stream[x]) /\ stream'[x][i] = stream[x][i]
              \/ stream'[x][i].kind # "token"
      <4>1. SUFFICES ASSUME NEW x \in Turns, stream'[x] # stream[x]
                     PROVE  \A i \in 1..Len(stream'[x]) :
                                \/ i \in 1..Len(stream[x]) /\ stream'[x][i] = stream[x][i]
                                \/ stream'[x][i].kind # "token"
            OBVIOUS
      <4>2. stream'[x] = Append(stream[x], [kind |-> "error", sk |-> NoKey])
            BY <2>2, <4>1
      <4> QED BY <3>1, <3>2, <4>2, AppendEvent
    <3>5. \A x \in Turns : \A i \in 1..Len(stream'[x]) :
              stream'[x][i].kind = "token" => Owner[stream'[x][i].sk.eph[1]] = gw[x].acct
          BY <3>3 DEF OwnInv, TurnConfidential
    <3>6. \A x \in Turns : gw'[x].acct = gw[x].acct /\ gw'[x].st # "running"
          BY <2>1
    <3> QED BY <3>5, <3>6 DEF TurnConfidential
  <2>4. PostedOnce'
        BY <1>12, <2>1, <2>2 DEF Restart, TypeOK, ChatNetType, OwnInv, PostedOnce
  <2>5. SessionOwnership'
        BY <1>12 DEF Restart, SessionOwnership
  <2> QED BY <1>12, <2>3, <2>4, <2>5 DEF Restart, OwnInv, NetHonest
<1>13. CASE UNCHANGED vars
       BY <1>13 DEF vars, OwnInv, NetHonest, PostedOnce, SessionOwnership, TurnConfidential
<1>14. ASSUME NEW m \in sessionQ, NEW b \in SessionBodies(m) PROVE b \in sessionQ
       BY <1>14 DEF SessionBodies
<1>15. ASSUME NEW m \in chatQ, NEW env \in ChatBodies(m) PROVE env \in Envelopes /\ Honest(env)
       BY <1>15 DEF ChatBodies, TypeOK, ChatNetType, SessionNetType, OwnInv, NetHonest
<1> QED
    BY <1>1, <1>2, <1>3, <1>4, <1>5, <1>6, <1>7, <1>8, <1>9, <1>10, <1>11, <1>12, <1>13,
       <1>14, <1>15
    DEF Next, ClientHandshake, ServeAttest, ServeSession, ServeChat, GatewayStep

(***************************************************************************)
(* Whatever the relay pairs, an account's session holds its own WMK under a*)
(* key agreed with one of its own devices by the running process.          *)
(***************************************************************************)
THEOREM SessionsOwned == Spec => []SessionOwnership
<1>1. Init => TypeOK /\ KeyHeld /\ Running /\ OwnInv
      BY InitType, InitOwn
<1>2. TypeOK /\ KeyHeld /\ Running /\ OwnInv /\ [Next]_vars
        => (TypeOK /\ KeyHeld /\ Running /\ OwnInv)'
      BY StepType, StepOwn
<1>3. OwnInv => SessionOwnership
      BY DEF OwnInv
<1> QED BY <1>1, <1>2, <1>3, PTL DEF Spec

(***************************************************************************)
(* A turn hands the provider only a prompt of the account it is charged to,*)
(* and streams back only deltas sealed to that account's keys.             *)
(***************************************************************************)
THEOREM TurnsConfidential == Spec => []TurnConfidential
<1>1. Init => TypeOK /\ KeyHeld /\ Running /\ OwnInv
      BY InitType, InitOwn
<1>2. TypeOK /\ KeyHeld /\ Running /\ OwnInv /\ [Next]_vars
        => (TypeOK /\ KeyHeld /\ Running /\ OwnInv)'
      BY StepType, StepOwn
<1>3. OwnInv => TurnConfidential
      BY DEF OwnInv
<1> QED BY <1>1, <1>2, <1>3, PTL DEF Spec

-----------------------------------------------------------------------------
(***************************************************************************)
(* The life of an ephemeral key: challenged (attestQ), attested (evidence),*)
(* posted (sessionQ), known (answered, installed, or in use).  A key is in *)
(* one of these at a time and never goes back.                             *)
(***************************************************************************)
Attested(k) == \E e \in evidence : e.eph = k
Posted(k) == \E m \in sessionQ : m.eph = k
Known(k) ==
    \/ \E r \in sessionR : r.eph = k
    \/ \E a \in Accounts : sessions[a] # NoSession /\ sessions[a].sk.eph = k
    \/ \E d \in Devices : dev[d].phase = "ready" /\ k = <<d, dev[d].eph>>
    \/ \E t \in Turns : cl[t].sk # NoKey /\ cl[t].sk.eph = k

KeyLife ==
    /\ \A k \in attestQ : ~Attested(k) /\ ~Posted(k) /\ ~Known(k)
    /\ \A e \in evidence : ~Posted(e.eph) /\ ~Known(e.eph)
    /\ \A m \in sessionQ : ~Known(m.eph)
    /\ \A e1, e2 \in evidence : e1.eph = e2.eph => e1 = e2
    /\ \A m1, m2 \in sessionQ : m1.eph = m2.eph => m1 = m2
    /\ \A m \in sessionQ : m.env.sk.eph = m.eph
    /\ \A k \in Ephs : k \in attestQ \/ Attested(k) \/ Posted(k) \/ Known(k) =>
            k[2] <= dev[k[1]].eph

\* A request in flight and a running reply belong to the account and key of the
\* turn they serve.
TurnBound ==
    /\ \A t \in Turns : cl[t].st # "idle" => cl[t].sk \in SKs
    /\ \A t \in Turns : cl[t].st = "idle" => ~cl[t].lost
    /\ \A m \in chatQ : /\ m.acct = Account(m.turn)
                        /\ m.env.acct = m.acct
                        /\ m.env.purpose = "chat"
                        /\ m.env.sk = cl[m.turn].sk
    /\ \A t \in Turns : gw[t].st = "running" => gw[t].acct = Account(t)

\* Whatever makes, or will make, turn t refused or truncated.
Lossy(t) ==
    \/ cl[t].lost
    \/ cl[t].st = "refused"
    \/ \E i \in 1..Len(stream[t]) :
          \/ stream[t][i].kind = "refused"
          \/ stream[t][i].kind = "token" /\ stream[t][i].sk # cl[t].sk

\* Each such thing is evidence that the turn's session key was replaced.
LossInv == \A t \in Turns : Lossy(t) => Replaced(t)

FaithInv == RelayFaithful => KeyLife /\ TurnBound /\ LossInv

LEMMA InitFaith == Init => KeyLife /\ TurnBound /\ LossInv
<1> SUFFICES ASSUME Init PROVE KeyLife /\ TurnBound /\ LossInv
    OBVIOUS
<1>1. \A k : ~Attested(k) /\ ~Posted(k) /\ ~Known(k)
      BY DEF Init, Attested, Posted, Known
<1>2. KeyLife
      BY <1>1 DEF Init, KeyLife
<1>3. TurnBound
      BY DEF Init, TurnBound
<1>4. LossInv
      BY DEF Init, LossInv, Lossy
<1> QED BY <1>2, <1>3, <1>4

LEMMA StepLife ==
    TypeOK /\ KeyHeld /\ RelayFaithful /\ KeyLife /\ [Next]_vars => KeyLife'
<1> SUFFICES ASSUME TypeOK, KeyHeld, RelayFaithful, KeyLife, [Next]_vars PROVE KeyLife'
    OBVIOUS
<1> USE DEF handshakeVars, turnVars
<1>1. ASSUME NEW d \in Devices, StartHandshake(d) PROVE KeyLife'
  <2> DEFINE new == <<d, dev[d].eph + 1>>
  <2>1. \A k : (Attested(k)' <=> Attested(k)) /\ (Posted(k)' <=> Posted(k))
        BY <1>1 DEF StartHandshake, Attested, Posted
  <2>2. /\ dev[d].eph \in Nat /\ dev'[d].eph = dev[d].eph + 1 /\ dev'[d].phase = "attesting"
        /\ \A x \in Devices : x # d => dev'[x] = dev[x]
        BY <1>1 DEF StartHandshake, TypeOK, DevType
  <2>3. \A k : Known(k)' => Known(k)
        BY <1>1, <2>2 DEF StartHandshake, Known
  <2>4. new \in Ephs /\ new[1] = d /\ new[2] = dev[d].eph + 1
        BY <2>2 DEF Ephs
  <2>5. ~Attested(new) /\ ~Posted(new) /\ ~Known(new)
        BY <2>2, <2>4 DEF KeyLife
  <2>6. attestQ' = attestQ \cup {new} /\ evidence' = evidence /\ sessionQ' = sessionQ
        BY <1>1 DEF StartHandshake
  <2>7. \A k \in Ephs : k[2] <= dev[k[1]].eph => k[2] <= dev'[k[1]].eph
        BY <2>2 DEF Ephs, TypeOK, DevType
  <2>8. new[2] <= dev'[new[1]].eph
        BY <2>2, <2>4
  <2> HIDE DEF new
  <2> QED BY <2>1, <2>3, <2>5, <2>6, <2>7, <2>8 DEF KeyLife
<1>2. ASSUME NEW d \in Devices, NEW e \in evidence, EstablishSession(d, e) PROVE KeyLife'
  <2> DEFINE m == [acct |-> Owner[d], eph |-> e.eph,
                   env |-> Seal(DeriveSessionKey(e.eph, e.pub), Owner[d], "wmk-delivery",
                                Wmk(Owner[d]))]
  <2>1. sessionQ' = sessionQ \cup {m} /\ m.eph = e.eph /\ m.env.sk.eph = e.eph
        BY <1>2 DEF EstablishSession, Seal, DeriveSessionKey
  <2> HIDE DEF m
  <2>2. evidence' = evidence \ {e} /\ attestQ' = attestQ
        BY <1>2 DEF EstablishSession
  <2>3. \A k : Known(k)' => Known(k)
    <3>1. /\ dev'[d].phase = "establishing"
          /\ \A x \in Devices : x # d => dev'[x] = dev[x]
          BY <1>2 DEF EstablishSession, TypeOK, DevType
    <3> QED BY <1>2, <3>1 DEF EstablishSession, Known
  <2>4. \A k : Posted(k)' => Posted(k) \/ k = e.eph
        BY <2>1 DEF Posted
  <2>5. \A k : Attested(k)' => Attested(k) /\ k # e.eph
        BY <2>2 DEF Attested, KeyLife
  <2>6. Attested(e.eph)
        BY DEF Attested
  <2>7. \A x \in Devices : dev'[x].eph = dev[x].eph
        BY <1>2 DEF EstablishSession, TypeOK, DevType
  <2>8. \A k \in Ephs : dev'[k[1]].eph = dev[k[1]].eph
        BY <2>7 DEF Ephs
  <2> QED BY <2>1, <2>2, <2>3, <2>4, <2>5, <2>6, <2>8 DEF KeyLife, Posted, Attested
<1>3. ASSUME NEW d \in Devices, NEW r \in sessionR, SessionEstablished(d, r) PROVE KeyLife'
  <2>1. \A x \in Devices : dev'[x].eph = dev[x].eph /\ (x # d => dev'[x] = dev[x])
        BY <1>3 DEF SessionEstablished, TypeOK, DevType
  <2>2. r.eph = <<d, dev[d].eph>> /\ Known(r.eph)
        BY <1>3 DEF SessionEstablished, Known
  <2>3. \A k : Known(k)' => Known(k)
        BY <1>3, <2>1, <2>2 DEF SessionEstablished, Known
  <2>4. \A k : (Attested(k)' <=> Attested(k)) /\ (Posted(k)' <=> Posted(k))
        BY <1>3 DEF SessionEstablished, Attested, Posted
  <2>5. \A k \in Ephs : dev'[k[1]].eph = dev[k[1]].eph
        BY <2>1 DEF Ephs
  <2> QED BY <1>3, <2>3, <2>4, <2>5 DEF SessionEstablished, KeyLife
<1>4. ASSUME NEW d \in Devices, Abandon(d) PROVE KeyLife'
  <2>1. /\ dev'[d].phase = "locked"
        /\ \A x \in Devices : dev'[x].eph = dev[x].eph /\ (x # d => dev'[x] = dev[x])
        BY <1>4 DEF Abandon, TypeOK, DevType
  <2>2. \A t \in Turns : cl'[t].sk = cl[t].sk
        BY <1>4 DEF Abandon, TypeOK, ClType
  <2>3. \A k : Known(k)' => Known(k)
        BY <1>4, <2>1, <2>2 DEF Abandon, Known
  <2>4. \A k : (Attested(k)' <=> Attested(k)) /\ (Posted(k)' <=> Posted(k))
        BY <1>4 DEF Abandon, Attested, Posted
  <2>5. \A k \in Ephs : dev'[k[1]].eph = dev[k[1]].eph
        BY <2>1 DEF Ephs
  <2> QED BY <1>4, <2>3, <2>4, <2>5 DEF Abandon, KeyLife
<1>5. ASSUME NEW d \in Devices, NEW t \in Turns, Submit(d, t) PROVE KeyLife'
  <2>1. /\ cl'[t].sk = dev[d].sk
        /\ \A x \in Turns : x # t => cl'[x] = cl[x]
        BY <1>5 DEF Submit, TypeOK, ClType
  <2>2. dev[d].sk.eph = <<d, dev[d].eph>> /\ dev[d].phase = "ready"
        BY <1>5 DEF Submit, KeyHeld
  <2>3. \A k : Known(k)' => Known(k)
    <3>1. cl'[t].sk.eph = <<d, dev[d].eph>>
          BY <2>1, <2>2
    <3>2. ASSUME NEW k, NEW x \in Turns, cl'[x].sk # NoKey, cl'[x].sk.eph = k PROVE Known(k)
      <4>1. CASE x = t
            BY <2>2, <3>1, <3>2, <4>1 DEF Known
      <4>2. CASE x # t
            BY <2>1, <3>2, <4>2 DEF Known
      <4> QED BY <4>1, <4>2
    <3>3. sessionR' = sessionR /\ sessions' = sessions /\ dev' = dev
          BY <1>5 DEF Submit
    <3> QED BY <3>2, <3>3 DEF Known
  <2>4. \A k : (Attested(k)' <=> Attested(k)) /\ (Posted(k)' <=> Posted(k))
        BY <1>5 DEF Submit, Attested, Posted
  <2> QED BY <1>5, <2>3, <2>4 DEF Submit, KeyLife
<1>6. ASSUME NEW t \in Turns, Receive(t) PROVE KeyLife'
  <2>1. \A x \in Turns : cl'[x].sk = cl[x].sk
        BY <1>6 DEF Receive, TypeOK, ClType
  <2>2. \A k : Known(k)' => Known(k)
        BY <1>6, <2>1 DEF Receive, Known
  <2>3. \A k : (Attested(k)' <=> Attested(k)) /\ (Posted(k)' <=> Posted(k))
        BY <1>6 DEF Receive, Attested, Posted
  <2> QED BY <1>6, <2>2, <2>3 DEF Receive, KeyLife
<1>7. ASSUME NEW eph \in attestQ, Attest(eph) PROVE KeyLife'
  <2> DEFINE e == [eph |-> eph, pub |-> cvm]
  <2>1. evidence' = evidence \cup {e} /\ e.eph = eph
        BY <1>7 DEF Attest
  <2> HIDE DEF e
  <2>2. \A k : Attested(k)' => Attested(k) \/ k = eph
        BY <2>1 DEF Attested
  <2>3. \A k : (Known(k)' <=> Known(k)) /\ (Posted(k)' <=> Posted(k))
        BY <1>7 DEF Attest, Known, Posted
  <2>4. attestQ' = attestQ \ {eph} /\ sessionQ' = sessionQ /\ dev' = dev
        BY <1>7 DEF Attest
  <2> QED BY <2>1, <2>2, <2>3, <2>4 DEF KeyLife, Attested
<1>8. ASSUME NEW m \in sessionQ, Establish(m, m) PROVE KeyLife'
  <2>1. \A k : Known(k)' => Known(k) \/ k = m.eph
    <3>1. \A r \in sessionR' : r \in sessionR \/ r.eph = m.eph
          BY <1>8 DEF Establish
    <3>2. \A a \in Accounts : sessions'[a] = sessions[a] \/ sessions'[a].sk.eph = m.eph
          BY <1>8 DEF Establish, DeriveSessionKey, TypeOK, SessionsType
    <3> QED BY <1>8, <3>1, <3>2 DEF Establish, Known
  <2>2. sessionQ' = sessionQ \ {m} /\ attestQ' = attestQ /\ evidence' = evidence /\ dev' = dev
        BY <1>8 DEF Establish
  <2>3. \A k : Posted(k)' => Posted(k) /\ k # m.eph
        BY <2>2 DEF Posted, KeyLife
  <2>4. \A k : Attested(k)' <=> Attested(k)
        BY <2>2 DEF Attested
  <2>5. Posted(m.eph)
        BY DEF Posted
  <2> QED BY <2>1, <2>2, <2>3, <2>4, <2>5 DEF KeyLife, Posted
<1>9. ASSUME NEW m \in chatQ, NEW env \in Envelopes, Chat(m, env) PROVE KeyLife'
      BY <1>9 DEF Chat, KeyLife, Attested, Posted, Known
<1>10. ASSUME NEW t \in Turns, SealDelta(t) PROVE KeyLife'
       BY <1>10 DEF SealDelta, KeyLife, Attested, Posted, Known
<1>11. ASSUME NEW t \in Turns, NEW k \in {"done", "error"}, EndReply(t, k) PROVE KeyLife'
       BY <1>11 DEF EndReply, KeyLife, Attested, Posted, Known
<1>12. CASE Restart
  <2>1. \A k : Known(k)' => Known(k)
        BY <1>12 DEF Restart, Known
  <2>2. \A k : (Attested(k)' <=> Attested(k)) /\ (Posted(k)' <=> Posted(k))
        BY <1>12 DEF Restart, Attested, Posted
  <2> QED BY <1>12, <2>1, <2>2 DEF Restart, KeyLife
<1>13. CASE UNCHANGED vars
       BY <1>13 DEF vars, KeyLife, Attested, Posted, Known
<1>14. ASSUME NEW m \in sessionQ, NEW b \in SessionBodies(m) PROVE b = m
       BY <1>14 DEF SessionBodies
<1>15. ASSUME NEW m \in chatQ, NEW env \in ChatBodies(m) PROVE env \in Envelopes
       BY <1>15 DEF ChatBodies, TypeOK, ChatNetType
<1> QED
    BY <1>1, <1>2, <1>3, <1>4, <1>5, <1>6, <1>7, <1>8, <1>9, <1>10, <1>11, <1>12, <1>13,
       <1>14, <1>15
    DEF Next, ClientHandshake, ServeAttest, ServeSession, ServeChat, GatewayStep

LEMMA StepBound ==
    TypeOK /\ KeyHeld /\ OwnInv /\ RelayFaithful /\ TurnBound /\ [Next]_vars => TurnBound'
<1> SUFFICES ASSUME TypeOK, KeyHeld, OwnInv, RelayFaithful, TurnBound, [Next]_vars
             PROVE  TurnBound'
    OBVIOUS
<1> USE DEF handshakeVars, turnVars
<1>1. CASE cl' = cl /\ gw' = gw /\ chatQ' = chatQ
      BY <1>1 DEF TurnBound, Account
<1>2. ASSUME NEW d \in Devices, Abandon(d) PROVE TurnBound'
  <2>1. \A t \in Turns : /\ cl'[t].sk = cl[t].sk
                         /\ cl'[t].st = "idle" => cl'[t] = cl[t]
                         /\ cl[t].st = "idle" => cl'[t].st = "idle"
        BY <1>2 DEF Abandon, TypeOK, ClType
  <2>2. gw' = gw /\ chatQ' = chatQ
        BY <1>2 DEF Abandon
  <2>3. \A t \in Turns : cl'[t].st # "idle" => cl'[t].sk \in SKs
        BY <2>1 DEF TurnBound
  <2>4. \A t \in Turns : cl'[t].st = "idle" => ~cl'[t].lost
        BY <2>1 DEF TurnBound
  <2>5. \A t \in Turns : Account(t)' = Account(t)
        BY <2>1 DEF Account
  <2>6. \A m \in chatQ : m.turn \in Turns
        BY DEF TypeOK, ChatNetType
  <2> QED BY <2>1, <2>2, <2>3, <2>4, <2>5, <2>6 DEF TurnBound
<1>3. ASSUME NEW d \in Devices, NEW t \in Turns, Submit(d, t) PROVE TurnBound'
  <2> DEFINE new == [turn |-> t, acct |-> Owner[d],
                     env |-> Seal(dev[d].sk, Owner[d], "chat", Prompt(Owner[d]))]
  <2>1. /\ cl[t].st = "idle" /\ cl'[t].st = "open" /\ cl'[t].sk = dev[d].sk /\ ~cl'[t].lost
        /\ \A x \in Turns : x # t => cl'[x] = cl[x]
        BY <1>3 DEF Submit, TypeOK, ClType
  <2>2. dev[d].sk \in SKs /\ dev[d].sk.eph[1] = d
        BY <1>3 DEF Submit, KeyHeld
  <2>3. chatQ' = chatQ \cup {new} /\ gw' = gw
        BY <1>3 DEF Submit
  <2>4. /\ new.turn = t /\ new.acct = Owner[d] /\ new.env.acct = Owner[d]
        /\ new.env.purpose = "chat" /\ new.env.sk = dev[d].sk
        BY DEF Seal
  <2>5. \A m \in chatQ : m.turn \in Turns /\ m.turn # t
        BY <2>1 DEF TypeOK, ChatNetType, OwnInv, PostedOnce
  <2>6. gw[t].st = "idle"
        BY <2>1 DEF OwnInv, PostedOnce
  <2> HIDE DEF new
  <2> QED BY <2>1, <2>2, <2>3, <2>4, <2>5, <2>6 DEF TurnBound, Account
<1>4. ASSUME NEW t \in Turns, Receive(t) PROVE TurnBound'
  <2>1. \A x \in Turns : cl'[x].sk = cl[x].sk /\ (x # t => cl'[x] = cl[x])
        BY <1>4 DEF Receive, TypeOK, ClType
  <2>2. Head(stream[t]) \in Events
        BY <1>4 DEF TypeOK, Receive, StreamType
  <2>3. cl[t].st = "open" /\ cl'[t].st # "idle"
        BY <1>4, <2>2 DEF Receive, TypeOK, ClType, Events
  <2>4. \A x \in Turns : cl'[x].st = "idle" => ~cl'[x].lost
        BY <2>1, <2>3 DEF TurnBound
  <2>5. \A x \in Turns : cl'[x].st # "idle" => cl'[x].sk \in SKs
        BY <2>1, <2>3 DEF TurnBound
  <2>6. \A x \in Turns : Account(x)' = Account(x)
        BY <2>1 DEF Account
  <2>7. \A m \in chatQ : m.turn \in Turns
        BY DEF TypeOK, ChatNetType
  <2>8. gw' = gw /\ chatQ' = chatQ
        BY <1>4 DEF Receive
  <2> QED BY <2>1, <2>4, <2>5, <2>6, <2>7, <2>8 DEF TurnBound
<1>5. ASSUME NEW m \in chatQ, Chat(m, m.env) PROVE TurnBound'
  <2>1. m.turn \in Turns /\ chatQ' = chatQ \ {m} /\ cl' = cl
        BY <1>5 DEF Chat, TypeOK, ChatNetType
  <2>2. \A x \in Turns : x # m.turn => gw'[x] = gw[x]
        BY <1>5, <2>1 DEF Chat, TypeOK, GwType
  <2>3. gw'[m.turn].st = "running" => gw'[m.turn].acct = m.acct
        BY <1>5, <2>1 DEF Chat, TypeOK, GwType
  <2> QED BY <2>1, <2>2, <2>3 DEF TurnBound, Account
<1>6. ASSUME NEW t \in Turns, SealDelta(t) PROVE TurnBound'
  <2>1. \A x \in Turns : gw'[x].st = gw[x].st /\ gw'[x].acct = gw[x].acct
        BY <1>6 DEF SealDelta, TypeOK, GwType
  <2> QED BY <1>6, <2>1 DEF SealDelta, TurnBound, Account
<1>7. ASSUME NEW t \in Turns, NEW k \in {"done", "error"}, EndReply(t, k) PROVE TurnBound'
  <2>1. \A x \in Turns : gw'[x].st = "running" => gw[x].st = "running" /\ gw'[x].acct = gw[x].acct
        BY <1>7 DEF EndReply, TypeOK, GwType
  <2> QED BY <1>7, <2>1 DEF EndReply, TurnBound, Account
<1>8. CASE Restart
  <2>1. \A x \in Turns : gw'[x].st # "running"
        BY <1>8 DEF Restart, TypeOK, GwType
  <2> QED BY <1>8, <2>1 DEF Restart, TurnBound, Account
<1>9. ASSUME NEW m \in chatQ, NEW env \in ChatBodies(m) PROVE env = m.env
      BY <1>9 DEF ChatBodies
<1> QED
    BY <1>1, <1>2, <1>3, <1>4, <1>5, <1>6, <1>7, <1>8, <1>9
    DEF Next, ClientHandshake, ServeAttest, ServeSession, ServeChat, GatewayStep,
        StartHandshake, EstablishSession, SessionEstablished, Attest, Establish, vars

\* Only a submitted turn is lossy, and the key of a submitted turn is known.
LEMMA LossyKnown ==
    ASSUME TypeOK, OwnInv, TurnBound, NEW t \in Turns, Lossy(t)
    PROVE  cl[t].sk \in SKs /\ Known(cl[t].sk.eph)
<1>1. cl[t].st # "idle"
      BY DEF OwnInv, PostedOnce, TurnBound, Lossy
<1>2. cl[t].sk \in SKs /\ cl[t].sk # NoKey
      BY <1>1, NoKeyAssumption DEF TurnBound
<1> QED BY <1>2 DEF Known

LEMMA StepLoss ==
    TypeOK /\ KeyHeld /\ Running /\ OwnInv /\ RelayFaithful /\ KeyLife /\ TurnBound /\ LossInv
      /\ [Next]_vars => LossInv'
<1> SUFFICES ASSUME TypeOK, KeyHeld, Running, OwnInv, RelayFaithful, KeyLife, TurnBound,
                    LossInv, [Next]_vars
             PROVE  LossInv'
    OBVIOUS
<1> USE DEF handshakeVars, turnVars
<1>1. CASE cl' = cl /\ stream' = stream /\ sessions' = sessions
      BY <1>1 DEF LossInv, Lossy, Replaced, Account
<1>2. ASSUME NEW d \in Devices, Abandon(d) PROVE LossInv'
  <2>1. \A t \in Turns : /\ cl'[t].sk = cl[t].sk
                         /\ cl'[t].lost => cl[t].lost
                         /\ cl'[t].st = "refused" => cl[t].st = "refused"
        BY <1>2 DEF Abandon, TypeOK, ClType
  <2>2. stream' = stream /\ sessions' = sessions
        BY <1>2 DEF Abandon
  <2>3. \A t \in Turns : Lossy(t)' => Lossy(t)
        BY <2>1, <2>2 DEF Lossy
  <2>4. \A t \in Turns : Replaced(t)' <=> Replaced(t)
        BY <2>1, <2>2 DEF Replaced, Account
  <2> QED BY <2>3, <2>4 DEF LossInv
<1>3. ASSUME NEW d \in Devices, NEW t \in Turns, Submit(d, t) PROVE LossInv'
  <2>1. /\ cl[t].st = "idle" /\ cl'[t].st = "open" /\ ~cl'[t].lost
        /\ \A x \in Turns : x # t => cl'[x] = cl[x]
        BY <1>3 DEF Submit, TypeOK, ClType
  <2>2. stream' = stream /\ sessions' = sessions
        BY <1>3 DEF Submit
  <2>3. stream[t] = <<>>
        BY <2>1 DEF OwnInv, PostedOnce
  <2>4. ~Lossy(t)'
        BY <2>1, <2>2, <2>3 DEF Lossy
  <2>5. \A x \in Turns : x # t => (Lossy(x)' => Lossy(x)) /\ (Replaced(x)' <=> Replaced(x))
        BY <2>1, <2>2 DEF Lossy, Replaced, Account
  <2> QED BY <2>4, <2>5 DEF LossInv
<1>4. ASSUME NEW t \in Turns, Receive(t) PROVE LossInv'
  <2> DEFINE ev == Head(stream[t])
  <2>1. /\ stream[t] \in Seq(Events) /\ stream[t] # <<>>
        /\ stream'[t] = Tail(stream[t]) /\ sessions' = sessions
        /\ \A x \in Turns : x # t => stream'[x] = stream[x]
        BY <1>4 DEF Receive, TypeOK, StreamType
  <2>2. ev \in Events /\ 1 \in 1..Len(stream[t]) /\ ev = stream[t][1]
        BY <2>1
  <2>3. \A i \in 1..Len(stream'[t]) :
            i + 1 \in 1..Len(stream[t]) /\ stream'[t][i] = stream[t][i + 1]
        BY <2>1
  <2>4. \A x \in Turns : cl'[x].sk = cl[x].sk /\ (x # t => cl'[x] = cl[x])
        BY <1>4 DEF Receive, TypeOK, ClType
  <2>5. cl'[t].st = "refused" => ev.kind = "refused"
        BY <1>4, <2>2 DEF Receive, TypeOK, ClType, Events
  <2>6. cl'[t].lost => cl[t].lost \/ (ev.kind = "token" /\ ev.sk # cl[t].sk)
        BY <1>4 DEF Receive, TypeOK, ClType
  <2> HIDE DEF ev
  <2>7. Lossy(t)' => Lossy(t)
        BY <2>2, <2>3, <2>4, <2>5, <2>6 DEF Lossy
  <2>8. \A x \in Turns : x # t => (Lossy(x)' => Lossy(x))
        BY <2>1, <2>4 DEF Lossy
  <2>9. \A x \in Turns : Replaced(x)' <=> Replaced(x)
        BY <2>1, <2>4 DEF Replaced, Account
  <2> QED BY <2>7, <2>8, <2>9 DEF LossInv
<1>5. ASSUME NEW m \in sessionQ, Establish(m, m) PROVE LossInv'
  <2>1. cl' = cl /\ stream' = stream
        BY <1>5 DEF Establish
  <2>2. \A a \in Accounts : sessions'[a] = sessions[a] \/ sessions'[a].sk.eph = m.eph
        BY <1>5 DEF Establish, DeriveSessionKey, TypeOK, SessionsType
  <2>3. SUFFICES ASSUME NEW t \in Turns, Lossy(t)' PROVE Replaced(t)'
        BY DEF LossInv
  <2>4. Lossy(t)
        BY <2>1, <2>3 DEF Lossy
  <2>5. cl[t].sk \in SKs /\ cl[t].sk.eph # m.eph
        BY <2>4, LossyKnown DEF KeyLife
  <2>6. Account(t) \in Accounts /\ Account(t)' = Account(t)
        BY <2>1, <2>5, OwnerAssumption DEF Account, SKs, Ephs
  <2>7. Replaced(t)
        BY <2>4 DEF LossInv
  <2> QED BY <2>1, <2>2, <2>5, <2>6, <2>7 DEF Replaced
<1>6. ASSUME NEW m \in chatQ, Chat(m, m.env) PROVE LossInv'
  <2>1. m.turn \in Turns /\ cl' = cl /\ sessions' = sessions
        BY <1>6 DEF Chat, TypeOK, ChatNetType
  <2>2. \A x \in Turns : x # m.turn => stream'[x] = stream[x]
        BY <1>6, <2>1 DEF Chat, TypeOK, StreamType
  <2>3. stream'[m.turn] = stream[m.turn] \/ Replaced(m.turn)
        BY <1>6, <2>1 DEF Chat, TurnBound, Opens, Replaced
  <2>4. \A x \in Turns : Replaced(x)' <=> Replaced(x)
        BY <2>1 DEF Replaced, Account
  <2>5. \A x \in Turns : stream'[x] = stream[x] => (Lossy(x)' => Lossy(x))
        BY <2>1 DEF Lossy
  <2> QED BY <2>2, <2>3, <2>4, <2>5 DEF LossInv
<1>7. ASSUME NEW t \in Turns, SealDelta(t) PROVE LossInv'
  <2> DEFINE new == [kind |-> "token", sk |-> sessions[gw[t].acct].sk]
  <2>1. /\ stream[t] \in Seq(Events) /\ stream'[t] = Append(stream[t], new)
        /\ \A x \in Turns : x # t => stream'[x] = stream[x]
        BY <1>7 DEF SealDelta, TypeOK, StreamType
  <2>2. new \in Events
        BY <1>7 DEF SealDelta, TypeOK, SessionsType, Running, Events
  <2>3. cl' = cl /\ sessions' = sessions
        BY <1>7 DEF SealDelta
  <2>4. new.kind = "token" /\ (new.sk # cl[t].sk => Replaced(t))
        BY <1>7 DEF SealDelta, TurnBound, Replaced
  <2> HIDE DEF new
  <2>5. \A i \in 1..Len(stream'[t]) :
            (i \in 1..Len(stream[t]) /\ stream'[t][i] = stream[t][i]) \/ stream'[t][i] = new
        BY <2>1, <2>2, AppendEvent
  <2>6. Lossy(t)' => Lossy(t) \/ Replaced(t)
        BY <2>3, <2>4, <2>5 DEF Lossy
  <2>7. \A x \in Turns : x # t => (Lossy(x)' => Lossy(x))
        BY <2>1, <2>3 DEF Lossy
  <2>8. \A x \in Turns : Replaced(x)' <=> Replaced(x)
        BY <2>3 DEF Replaced, Account
  <2> QED BY <2>6, <2>7, <2>8 DEF LossInv
<1>8. ASSUME NEW t \in Turns, NEW k \in {"done", "error"}, EndReply(t, k) PROVE LossInv'
  <2> DEFINE new == [kind |-> k, sk |-> NoKey]
  <2>1. /\ stream[t] \in Seq(Events) /\ stream'[t] = Append(stream[t], new)
        /\ \A x \in Turns : x # t => stream'[x] = stream[x]
        BY <1>8 DEF EndReply, TypeOK, StreamType
  <2>2. new \in Events
        BY ControlEvent
  <2>3. cl' = cl /\ sessions' = sessions
        BY <1>8 DEF EndReply
  <2>4. new.kind # "token" /\ new.kind # "refused"
        OBVIOUS
  <2> HIDE DEF new
  <2>5. \A i \in 1..Len(stream'[t]) :
            (i \in 1..Len(stream[t]) /\ stream'[t][i] = stream[t][i]) \/ stream'[t][i] = new
        BY <2>1, <2>2, AppendEvent
  <2>6. Lossy(t)' => Lossy(t)
        BY <2>3, <2>4, <2>5 DEF Lossy
  <2>7. \A x \in Turns : x # t => (Lossy(x)' => Lossy(x))
        BY <2>1, <2>3 DEF Lossy
  <2>8. \A x \in Turns : Replaced(x)' <=> Replaced(x)
        BY <2>3 DEF Replaced, Account
  <2> QED BY <2>6, <2>7, <2>8 DEF LossInv
<1>9. CASE Restart
  <2>1. cl' = cl /\ \A a \in Accounts : sessions'[a] = NoSession
        BY <1>9 DEF Restart
  <2>2. SUFFICES ASSUME NEW t \in Turns, Lossy(t)' PROVE Replaced(t)'
        BY DEF LossInv
  <2>3. cl[t].st # "idle"
    <3>1. CASE gw[t].st = "idle"
          BY <1>9, <2>1, <2>2, <3>1 DEF Restart, OwnInv, PostedOnce, TurnBound, Lossy
    <3>2. CASE gw[t].st # "idle"
          BY <3>2 DEF OwnInv, PostedOnce
    <3> QED BY <3>1, <3>2
  <2>4. cl[t].sk \in SKs
        BY <2>3 DEF TurnBound
  <2>5. Account(t)' \in Accounts
        BY <2>1, <2>4, OwnerAssumption DEF Account, SKs, Ephs
  <2> QED BY <2>1, <2>5 DEF Replaced
<1>10. ASSUME NEW m \in sessionQ, NEW b \in SessionBodies(m) PROVE b = m
       BY <1>10 DEF SessionBodies
<1>11. ASSUME NEW m \in chatQ, NEW env \in ChatBodies(m) PROVE env = m.env
       BY <1>11 DEF ChatBodies
<1> QED
    BY <1>1, <1>2, <1>3, <1>4, <1>5, <1>6, <1>7, <1>8, <1>9, <1>10, <1>11
    DEF Next, ClientHandshake, ServeAttest, ServeSession, ServeChat, GatewayStep,
        StartHandshake, EstablishSession, SessionEstablished, Attest, vars

(***************************************************************************)
(* With a faithful relay, a turn is refused, or ends with text missing,    *)
(* only when its session key has been replaced; and a replaced key never   *)
(* comes back, because every key that is installed is one not yet known.   *)
(***************************************************************************)
THEOREM LossMeansReplaced == Spec => []LostOnlyIfReplaced
<1> DEFINE IInv == TypeOK /\ KeyHeld /\ Running /\ OwnInv /\ FaithInv
<1>1. Init => IInv
      BY InitType, InitOwn, InitFaith DEF FaithInv
<1>2. IInv /\ [Next]_vars => IInv'
      BY StepType, StepOwn, StepLife, StepBound, StepLoss DEF FaithInv
<1>3. IInv => LostOnlyIfReplaced
      BY DEF FaithInv, LossInv, Lossy, LostOnlyIfReplaced, Truncated
<1> QED BY <1>1, <1>2, <1>3, PTL DEF Spec

\* Only serving POST /v1/session gives an account a session.
LEMMA OnlyEstablishInstalls ==
    ASSUME TypeOK, [Next]_vars, RelayFaithful, NEW a \in Accounts,
           sessions'[a] # sessions[a], sessions'[a] # NoSession
    PROVE  \E m \in sessionQ : sessions'[a].sk.eph = m.eph
<1> USE DEF handshakeVars, turnVars
<1>1. ASSUME NEW m \in sessionQ, Establish(m, m) PROVE sessions'[a].sk.eph = m.eph
      BY <1>1 DEF Establish, DeriveSessionKey, TypeOK, SessionsType
<1>2. CASE Restart
      BY <1>2 DEF Restart
<1>3. CASE sessions' = sessions
      BY <1>3
<1>4. \/ sessions' = sessions
      \/ Restart
      \/ \E m \in sessionQ : Establish(m, m)
      BY DEF Next, ClientHandshake, ServeAttest, ServeSession, ServeChat, GatewayStep,
             StartHandshake, EstablishSession, SessionEstablished, Abandon, Submit, Receive,
             Attest, Chat, SealDelta, EndReply, SessionBodies, vars
<1> QED BY <1>1, <1>2, <1>3, <1>4

(***************************************************************************)
(* With a faithful relay, an establish never installs a key that a device  *)
(* is already chatting under.                                              *)
(***************************************************************************)
THEOREM FreshKeysInstalled == Spec => InstallsFreshKeys
<1> DEFINE IInv == TypeOK /\ KeyHeld /\ Running /\ OwnInv /\ FaithInv
           Fresh == RelayFaithful => \A a \in Accounts, d \in Devices :
                       sessions'[a] # sessions[a] /\ sessions'[a] # NoSession =>
                           ~(dev[d].phase = "ready" /\ dev[d].sk = sessions'[a].sk)
<1>1. Init => IInv
      BY InitType, InitOwn, InitFaith DEF FaithInv
<1>2. IInv /\ [Next]_vars => IInv'
      BY StepType, StepOwn, StepLife, StepBound, StepLoss DEF FaithInv
<1>3. IInv /\ [Next]_vars => [Fresh]_vars
  <2> SUFFICES ASSUME IInv, [Next]_vars, RelayFaithful, NEW a \in Accounts, NEW d \in Devices,
                      sessions'[a] # sessions[a], sessions'[a] # NoSession,
                      dev[d].phase = "ready", dev[d].sk = sessions'[a].sk
               PROVE  FALSE
      OBVIOUS
  <2>1. PICK m \in sessionQ : sessions'[a].sk.eph = m.eph
        BY OnlyEstablishInstalls
  <2>2. Known(<<d, dev[d].eph>>)
        BY DEF Known
  <2>3. dev[d].sk.eph = <<d, dev[d].eph>>
        BY DEF KeyHeld
  <2> QED BY <2>1, <2>2, <2>3 DEF FaithInv, KeyLife
<1> QED BY <1>1, <1>2, <1>3, PTL DEF Spec, InstallsFreshKeys
=============================================================================
