-------------------------------- MODULE Auth --------------------------------
(***************************************************************************)
(* Authentication at the KMS server, over time and over restarts of the    *)
(* server with another configuration.  A server started with a JWT secret  *)
(* issues tokens (Auth.Login) and checks them on every other call (the     *)
(* interceptor); one started without a secret checks nothing.  The ETL     *)
(* worker gets its token once, when it starts, from its environment or by  *)
(* logging in; it makes a test call, and, if that is answered, the calls   *)
(* for its rows with the same token until it ends.  Those calls change     *)
(* nothing here, since a refused one is an error of its row: while pc is   *)
(* "running" each is answered or refused as Accepts says at the moment.    *)
(* The token of the environment is one that the operator got before with   *)
(* the login command of the test client.                                   *)
(*                                                                         *)
(* A token is its claims, and those modelled are the ones IssueToken makes *)
(* (the authentication guide also shows a JWT tool that is given the same  *)
(* secret, audience, issuer and life; what else such a tool can sign, with *)
(* no expiry or several audiences, is left out).  by and at are history:   *)
(* the server that made the token, and when.  Calls that fail for other    *)
(* reasons than the token are left out.                                    *)
(*                                                                         *)
(* An operator whose name starts with Bug is no part of the model: it is   *)
(* the next definition with a plausible bug, kept to see that a property   *)
(* notices it.                                                             *)
(***************************************************************************)
EXTENDS Integers

CONSTANTS
    Servers,         \* the configurations a server may be started with
    Unset,           \* a variable of the environment that is not set
    NoToken,
    TokenTTL,        \* life of a token, in ticks
    Second,          \* ticks per second
    MaxTime          \* bound: the clock stops here

ASSUME AuthAssumption ==
    /\ Servers \subseteq [secret : STRING, aud : STRING, iss : STRING]
    /\ Unset \in STRING
    /\ NoToken \notin [secret : STRING, aud : STRING, iss : STRING, exp : Nat,
                       by : Servers, at : Nat]
    /\ \E s \in Servers : s.secret = Unset
    /\ TokenTTL \in Nat \ {0}
    /\ Second \in Nat \ {0}
    /\ MaxTime \in Nat

\* The expiry of a token is a whole number of seconds.
Tokens == [secret : STRING, aud : STRING, iss : STRING,
           exp : {t \in Nat : t % Second = 0}, by : Servers, at : Nat]

VARIABLES
    now,
    server,          \* the configuration of the running server
    kept,            \* the token the operator has
    pc,              \* where the ETL worker is, or why it has ended
    token,           \* the worker's kmsToken
    testedBy         \* history: {the server that answered the run's test call}

vars == <<now, server, kept, pc, token, testedBy>>

-----------------------------------------------------------------------------
(* IssueToken and the interceptor *)

AuthOff(s) == s.secret = Unset

WholeSecond(t) == t - (t % Second)       \* jwt.NewNumericDate

BugIssueTokenRaw(s) ==                   \* the expiry is not rounded
    [secret |-> s.secret, aud |-> s.aud, iss |-> s.iss,
     exp |-> now + TokenTTL, by |-> s, at |-> now]

BugIssueToken(s) ==                      \* the audience is forgotten
    [secret |-> s.secret, aud |-> Unset, iss |-> s.iss,
     exp |-> WholeSecond(now + TokenTTL), by |-> s, at |-> now]

IssueToken(s) ==
    [secret |-> s.secret, aud |-> s.aud, iss |-> s.iss,
     exp |-> WholeSecond(now + TokenTTL), by |-> s, at |-> now]

Expired(tok) == now >= tok.exp

BugAccepts(s, tok) ==                    \* another audience will do
    AuthOff(s)
    \/ /\ tok # NoToken
       /\ tok.secret = s.secret
       /\ ~Expired(tok)
       /\ s.aud # Unset => tok.aud # Unset
       /\ s.iss # Unset => tok.iss = s.iss

Accepts(s, tok) ==
    AuthOff(s)
    \/ /\ tok # NoToken
       /\ tok.secret = s.secret
       /\ ~Expired(tok)
       /\ s.aud # Unset => tok.aud = s.aud
       /\ s.iss # Unset => tok.iss = s.iss

-----------------------------------------------------------------------------
Init ==
    /\ now = 0
    /\ server \in Servers
    /\ kept = NoToken
    /\ pc = "off"
    /\ token = NoToken
    /\ testedBy = {}

(* the operator and the server *)

KeepToken ==                             \* test-client login
    /\ ~AuthOff(server)
    /\ kept' = IssueToken(server)
    /\ UNCHANGED <<now, server, pc, token, testedBy>>

Restart ==
    /\ server' \in Servers
    /\ UNCHANGED <<now, kept, pc, token, testedBy>>

(* the ETL worker *)

Start(tok) ==
    /\ pc = "off"
    /\ token' = tok
    /\ pc' = "test"
    /\ UNCHANGED <<now, server, kept, testedBy>>

UseEnvironment == Start(kept)            \* or no token at all, with a warning

AutoLogin == ~AuthOff(server) /\ Start(IssueToken(server))

\* Without a secret IssueToken returns an error even for the right password.
AutoLoginFails ==
    /\ pc = "off"
    /\ \/ AuthOff(server) /\ pc' = "login_failed"
       \/ pc' = "wrong_password"
    /\ UNCHANGED <<now, server, kept, token, testedBy>>

BugTestCall ==                           \* a refused test call is only logged
    /\ pc = "test"
    /\ pc' = "running"
    /\ testedBy' = {server}
    /\ UNCHANGED <<now, server, kept, token>>

TestCall ==
    /\ pc = "test"
    /\ IF Accepts(server, token) THEN pc' = "running" /\ testedBy' = {server}
                                 ELSE pc' = "test_failed" /\ UNCHANGED testedBy
    /\ UNCHANGED <<now, server, kept, token>>

End ==                                   \* over or killed; later, another run
    /\ pc # "off"
    /\ pc' = "off"
    /\ token' = NoToken
    /\ testedBy' = {}
    /\ UNCHANGED <<now, server, kept>>

Tick ==
    /\ now < MaxTime
    /\ now' = now + 1
    /\ UNCHANGED <<server, kept, pc, token, testedBy>>

Next ==
    \/ KeepToken \/ Restart
    \/ UseEnvironment \/ AutoLogin \/ AutoLoginFails
    \/ TestCall \/ End
    \/ Tick

Spec == Init /\ [][Next]_vars

-----------------------------------------------------------------------------
InUse == {kept, token} \ {NoToken}

(* Type invariant: every token has an expiry in whole seconds.             *)
TypeOK ==
    /\ now \in Nat
    /\ server \in Servers
    /\ kept \in Tokens \cup {NoToken}
    /\ pc \in {"off", "login_failed", "wrong_password", "test", "test_failed", "running"}
    /\ token \in Tokens \cup {NoToken}
    /\ testedBy \in SUBSET Servers

(* IssueToken and the interceptor agree: whatever of audience and issuer   *)
(* is configured, a server accepts the tokens it issued itself, also after *)
(* a restart, for the whole of their life but the fraction of a second     *)
(* that is lost because the expiry is a whole number of seconds.           *)
OwnTokensAccepted ==
    \A tok \in InUse :
        tok.by = server /\ now <= tok.at + TokenTTL - Second => Accepts(server, tok)

(* A server that checks tokens never accepts one past its life, nor one    *)
(* issued under another secret, audience or issuer than it asks for.       *)
OnlyLiveOwnTokens ==
    \A tok \in InUse :
        Accepts(server, tok) /\ ~AuthOff(server) =>
            /\ now < tok.at + TokenTTL
            /\ tok.by.secret = server.secret
            /\ server.aud # Unset => tok.by.aud = server.aud
            /\ server.iss # Unset => tok.by.iss = server.iss

(* What the test call is worth: a server of the configuration that has     *)
(* answered it, whoever issued the token and however often servers were    *)
(* restarted since, refuses a row of the run for want of a valid token     *)
(* only when the life of the token is over but for its last second.        *)
TestedTokenLasts ==
    pc = "running" /\ server \in testedBy /\ ~Accepts(server, token) =>
        token # NoToken /\ now > token.at + TokenTTL - Second

(* What the authentication guide says of a server without a secret: any    *)
(* client can call it.  So no worker gives up there for want of a token.   *)
OpenServerServesEveryone ==
    [][pc' \in {"login_failed", "test_failed"} /\ pc # pc' => ~AuthOff(server)]_vars

=============================================================================
