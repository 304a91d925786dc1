---------------------------- MODULE Auth_proofs ----------------------------
(***************************************************************************)
(* Proofs about Auth, for every set of configurations, every lifetime of   *)
(* the tokens and every length of a second, over any time.                 *)
(***************************************************************************)
EXTENDS Auth, NaturalLemmas, TLAPS

-----------------------------------------------------------------------------
(* What a token says is what its server made it say, and nobody has one    *)
(* from a server that checks none or from the future.                      *)
Genuine(tok) ==
    /\ tok.at \in Nat /\ tok.at <= now
    /\ tok.exp = WholeSecond(tok.at + TokenTTL)
    /\ tok.by \in Servers /\ ~AuthOff(tok.by)
    /\ tok.secret = tok.by.secret /\ tok.aud = tok.by.aud /\ tok.iss = tok.by.iss

\* The token is right for s, whatever its age.
Suits(s, tok) ==
    AuthOff(s)
    \/ /\ tok # NoToken
       /\ tok.secret = s.secret
       /\ s.aud # Unset => tok.aud = s.aud
       /\ s.iss # Unset => tok.iss = s.iss

\* The test call has shown that the token of the run suits its server.
Tested == pc = "running" => \A s \in testedBy : Suits(s, token)

IInv ==
    /\ TypeOK
    /\ \A tok \in InUse : Genuine(tok)
    /\ Tested

-----------------------------------------------------------------------------
LEMMA WholeSeconds ==
    ASSUME NEW t \in Nat
    PROVE  /\ WholeSecond(t) \in {e \in Nat : e % Second = 0}
           /\ WholeSecond(t) <= t /\ t < WholeSecond(t) + Second
  BY AuthAssumption, CutToMultiple DEF AuthAssumption, WholeSecond

LEMMA Issued ==
    ASSUME TypeOK, ~AuthOff(server)
    PROVE  IssueToken(server) \in Tokens /\ Genuine(IssueToken(server))
<1>1. /\ now \in Nat /\ now + TokenTTL \in Nat /\ server \in Servers
      /\ server \in [secret : STRING, aud : STRING, iss : STRING]
  BY AuthAssumption DEF AuthAssumption, TypeOK
<1>2. WholeSecond(now + TokenTTL) \in {e \in Nat : e % Second = 0}
  BY <1>1, WholeSeconds
<1>3. IssueToken(server) \in Tokens
  BY <1>1, <1>2 DEF IssueToken, Tokens
<1>4. Genuine(IssueToken(server))
  BY <1>1 DEF IssueToken, Genuine
<1>5. QED
  BY <1>3, <1>4

(* What suits a server is refused there only for its age.                  *)
LEMMA SuitsOrRefused ==
    ASSUME NEW s, NEW tok
    PROVE  /\ Accepts(s, tok) => Suits(s, tok)
           /\ Suits(s, tok) /\ ~Accepts(s, tok) => tok # NoToken /\ Expired(tok)
  BY DEF Suits, Accepts

LEMMA InitIInv == Init => IInv
<1> SUFFICES ASSUME Init PROVE IInv
  OBVIOUS
<1>1. TypeOK
  BY DEF Init, TypeOK
<1>2. InUse = {}
  BY DEF Init, InUse
<1>3. QED
  BY <1>1, <1>2 DEF Init, IInv, Tested

LEMMA StepIInv ==
    ASSUME IInv, [Next]_vars
    PROVE  IInv'
<1> USE DEF IInv
<1>1. ASSUME TypeOK', now <= now',
             \A tok \in InUse' : tok \in InUse \/ Genuine(tok)
      PROVE  \A tok \in InUse' : Genuine(tok)'
  BY <1>1 DEF TypeOK, Genuine, WholeSecond
<1>2. ASSUME UNCHANGED <<token, testedBy, pc>>
      PROVE  Tested'
  BY <1>2 DEF Tested, Suits, AuthOff
<1>3. CASE KeepToken
  <2>1. /\ UNCHANGED <<now, server, pc, token, testedBy>>
        /\ ~AuthOff(server) /\ kept' = IssueToken(server)
    BY <1>3 DEF KeepToken
  <2>2. TypeOK'
    BY <2>1, Issued DEF TypeOK
  <2>3. now <= now'
    BY <2>1 DEF TypeOK
  <2>4. \A tok \in InUse' : tok \in InUse \/ Genuine(tok)
    BY <2>1, Issued DEF InUse
  <2>5. QED
    BY <1>1, <1>2, <2>1, <2>2, <2>3, <2>4
<1>4. CASE Restart \/ Tick \/ UNCHANGED vars
  <2>1. /\ UNCHANGED <<kept, pc, token, testedBy>>
        /\ server' \in Servers /\ now' \in Nat /\ now <= now'
    BY <1>4 DEF Restart, Tick, vars, TypeOK
  <2>2. TypeOK' /\ InUse' = InUse
    BY <2>1 DEF TypeOK, InUse
  <2>3. QED
    BY <1>1, <1>2, <2>1, <2>2
<1>5. CASE UseEnvironment \/ AutoLogin
  <2>1. PICK tok \in Tokens \cup {NoToken} :
            /\ tok = NoToken \/ Genuine(tok)
            /\ Start(tok)
    <3>1. CASE UseEnvironment
      BY <3>1 DEF UseEnvironment, TypeOK, InUse
    <3>2. CASE AutoLogin
      BY <3>2, Issued DEF AutoLogin
    <3>3. QED
      BY <1>5, <3>1, <3>2
  <2>2. /\ UNCHANGED <<now, server, kept, testedBy>>
        /\ pc = "off" /\ pc' = "test" /\ token' = tok
    BY <2>1 DEF Start
  <2>3. TypeOK' /\ now <= now'
    BY <2>1, <2>2 DEF TypeOK
  <2>4. \A t \in InUse' : t \in InUse \/ Genuine(t)
    BY <2>1, <2>2 DEF InUse
  <2>5. Tested'
    BY <2>2 DEF Tested
  <2>6. QED
    BY <1>1, <2>3, <2>4, <2>5
<1>6. CASE AutoLoginFails \/ TestCall
  <2>1. /\ UNCHANGED <<now, server, kept, token>>
        /\ pc' \in {"login_failed", "wrong_password", "running", "test_failed"}
        /\ pc' = "running" => Accepts(server, token) /\ testedBy' = {server}
        /\ testedBy' \in {testedBy, {server}}
    BY <1>6 DEF AutoLoginFails, TestCall
  <2>2. TypeOK' /\ now <= now' /\ InUse' = InUse
    BY <2>1 DEF TypeOK, InUse
  <2>3. Tested'
    BY <2>1, SuitsOrRefused DEF Tested, Suits, AuthOff
  <2>4. QED
    BY <1>1, <2>2, <2>3
<1>7. CASE End
  <2>1. /\ UNCHANGED <<now, server, kept>> /\ pc' = "off"
        /\ token' = NoToken /\ testedBy' = {}
    BY <1>7 DEF End
  <2>2. TypeOK' /\ now <= now' /\ Tested'
    BY <2>1 DEF TypeOK, Tested
  <2>3. \A tok \in InUse' : tok \in InUse
    BY <2>1 DEF InUse
  <2>4. QED
    BY <1>1, <2>2, <2>3
<1>8. QED
  BY <1>3, <1>4, <1>5, <1>6, <1>7 DEF Next

-----------------------------------------------------------------------------
(* The inductive invariant holds in every state of client and servers.     *)
THEOREM Invariance == Spec => []IInv
<1>1. Init => IInv
  BY InitIInv
<1>2. IInv /\ [Next]_vars => IInv'
  BY StepIInv
<1>3. QED
  BY <1>1, <1>2, PTL DEF Spec

(* Every token ever made has an expiry in whole seconds.                   *)
THEOREM AuthTypeCorrect == Spec => []TypeOK
<1>1. IInv => TypeOK
  BY DEF IInv
<1>2. QED
  BY <1>1, Invariance, PTL

(* Whatever of audience and issuer is configured, a server accepts the     *)
(* tokens it issued itself for the whole of their life but the fraction of *)
(* a second that the rounding of the expiry takes.                         *)
THEOREM IssuerAccepts == Spec => []OwnTokensAccepted
<1>1. ASSUME IInv, NEW tok \in InUse,
             tok.by = server, now <= tok.at + TokenTTL - Second
      PROVE  Accepts(server, tok)
  <2>1. Genuine(tok) /\ now \in Nat /\ tok.at \in Nat /\ tok # NoToken
    BY <1>1 DEF IInv, TypeOK, Genuine, InUse
  <2>2. TokenTTL \in Nat /\ Second \in Nat /\ tok.at + TokenTTL \in Nat
    BY <2>1, AuthAssumption DEF AuthAssumption
  <2>3. tok.exp \in Nat /\ tok.at + TokenTTL < tok.exp + Second
    BY <2>1, <2>2, WholeSeconds DEF Genuine
  <2>4. ~Expired(tok)
    BY <1>1, <2>1, <2>2, <2>3 DEF Expired
  <2>5. QED
    BY <1>1, <2>1, <2>4 DEF Accepts, Genuine
<1>2. IInv => OwnTokensAccepted
  BY <1>1 DEF OwnTokensAccepted
<1>3. QED
  BY <1>2, Invariance, PTL

(* A server that checks tokens never accepts one past its life, nor one    *)
(* issued under another secret, audience or issuer than it asks for.       *)
THEOREM NoForeignToken == Spec => []OnlyLiveOwnTokens
<1>1. ASSUME IInv, NEW tok \in InUse, Accepts(server, tok), ~AuthOff(server)
      PROVE  /\ now < tok.at + TokenTTL
             /\ tok.by.secret = server.secret
             /\ server.aud # Unset => tok.by.aud = server.aud
             /\ server.iss # Unset => tok.by.iss = server.iss
  <2>1. Genuine(tok) /\ now \in Nat /\ tok.at \in Nat
    BY <1>1 DEF IInv, TypeOK, Genuine
  <2>2. TokenTTL \in Nat /\ tok.at + TokenTTL \in Nat
    BY <2>1, AuthAssumption DEF AuthAssumption
  <2>3. tok.exp \in Nat /\ tok.exp <= tok.at + TokenTTL
    BY <2>1, <2>2, WholeSeconds DEF Genuine
  <2>4. ~Expired(tok)
    BY <1>1 DEF Accepts
  <2>5. now < tok.at + TokenTTL
    BY <2>1, <2>2, <2>3, <2>4 DEF Expired
  <2>6. QED
    BY <1>1, <2>1, <2>5 DEF Accepts, Genuine
<1>2. IInv => OnlyLiveOwnTokens
  BY <1>1 DEF OnlyLiveOwnTokens
<1>3. QED
  BY <1>2, Invariance, PTL

(* A server that has answered the test call of a run refuses a row of it   *)
(* only when the life of the token is over but for its last second,        *)
(* whoever issued the token and however often servers were restarted.      *)
THEOREM TestCallTells == Spec => []TestedTokenLasts
<1>1. ASSUME IInv, pc = "running", server \in testedBy, ~Accepts(server, token)
      PROVE  token # NoToken /\ now > token.at + TokenTTL - Second
  <2>1. token # NoToken /\ Expired(token)
    BY <1>1, SuitsOrRefused DEF IInv, Tested
  <2>2. Genuine(token) /\ now \in Nat /\ token.at \in Nat
    BY <1>1, <2>1 DEF IInv, TypeOK, InUse, Genuine
  <2>3. TokenTTL \in Nat /\ Second \in Nat /\ token.at + TokenTTL \in Nat
    BY <2>2, AuthAssumption DEF AuthAssumption
  <2>4. token.exp \in Nat /\ token.at + TokenTTL < token.exp + Second
    BY <2>2, <2>3, WholeSeconds DEF Genuine
  <2>5. now >= token.exp
    BY <2>1 DEF Expired
  <2>6. QED
    BY <2>1, <2>2, <2>3, <2>4, <2>5
<1>2. IInv => TestedTokenLasts
  BY <1>1 DEF TestedTokenLasts
<1>3. QED
  BY <1>2, Invariance, PTL

=============================================================================
