------------------------------- MODULE WsTokens -------------------------------
(***************************************************************************)
(* The server's tokens: session tokens, signed at a login, and the short   *)
(* ones WsTokenService (src/auth/ws/ws-token.service.ts) issues for the    *)
(* WebSocket, which it remembers until they are consumed or swept.         *)
(* JwtStrategy guards the routes, JwtWsMiddleware the handshake.           *)
(*                                                                         *)
(* Whose a token is makes no difference here.  A tick is a second, the     *)
(* unit of iat and exp.  What was issued stays with the clients: a token   *)
(* is only forgotten by the process.                                       *)
(*                                                                         *)
(* "wrong" marks plausible bugs that no action uses.                       *)
(***************************************************************************)
EXTENDS Clock

CONSTANTS
    SessionTtl,      \* auth.ttl
    WsTtl,           \* DEFAULT_TTL_SECONDS
    Jtis,            \* bound: random names, one per token
    MaxLives         \* bound: restarts

VARIABLES
    held,            \* tokens clients hold
    pending,         \* WsTokenService.used: the exp kept for a jti
    consumed,        \* history: tokens consume has accepted
    lives            \* history: restarts

tokensVars == <<held, pending, consumed, lives>>

ASSUME TokensAssumption == SessionTtl \in Nat /\ WsTtl \in Nat /\ MaxLives \in Nat

\* History: when a token was issued, in which life of the process, and when its
\* holder, or the holder of the token it was issued for, had logged in.
Token == [jti : Jtis, ws : BOOLEAN, exp : Nat, issued : Nat, life : Nat, login : Nat]

FreshJti == Jtis \ {t.jti : t \in held}
NewJti == CHOOSE j \in FreshJti : TRUE

TokensInit ==
    /\ held = {}
    /\ pending = {}
    /\ consumed = {}
    /\ lives = 0

-----------------------------------------------------------------------------
\* jwt.verify
Verifies(t) == now < t.exp

\* JwtStrategy.validate
EntersAny(t) == Verifies(t)                                            \* wrong
EntersHttp(t) == Verifies(t) /\ ~t.ws

\* JwtWsMiddleware.use: it does not ask which kind a token is.
EntersSocket(t) == Verifies(t)

\* signSessionToken
LogIn ==
    /\ FreshJti # {}
    /\ held' = held \cup
           {[jti |-> NewJti, ws |-> FALSE, exp |-> now + SessionTtl,
             issued |-> Age, life |-> lives, login |-> Age]}
    /\ UNCHANGED <<clockVars, pending, consumed, lives>>

\* GET /auth/ws-token, issue: the clock is read twice, and may have advanced
\* when jwt.sign reads it.
Issue(t, later) ==
    /\ EntersHttp(t)
    /\ FreshJti # {}
    /\ now + later <= MaxTime
    /\ held' = held \cup
           {[jti |-> NewJti, ws |-> TRUE, exp |-> now + later + WsTtl,
             issued |-> Age, life |-> lives, login |-> t.login]}
    /\ pending' = pending \cup {[jti |-> NewJti, exp |-> now + WsTtl]}
    /\ now' = now + later
    /\ UNCHANGED <<backs, consumed, lives>>

\* consume
EntriesOf(t) == {e \in pending : e.jti = t.jti}
Consumable(t) == Verifies(t) /\ t.ws /\ EntriesOf(t) # {}

ConsumeAgain(t) ==                                                     \* wrong
    /\ Consumable(t)
    /\ consumed' = consumed \cup {t}
    /\ UNCHANGED <<clockVars, held, pending, lives>>
ConsumeToken(t) ==
    /\ Consumable(t)
    /\ pending' = pending \ EntriesOf(t)
    /\ consumed' = consumed \cup {t}
    /\ UNCHANGED <<clockVars, held, lives>>

\* sweep
SweepTokens ==
    /\ pending' = {e \in pending : now < e.exp}
    /\ UNCHANGED <<clockVars, held, consumed, lives>>

\* The process stops and another one starts.
RestartTokens ==
    /\ lives < MaxLives
    /\ lives' = lives + 1
    /\ pending' = {}
    /\ UNCHANGED <<clockVars, held, consumed>>

TokensStep ==
    \/ LogIn
    \/ \E t \in held, later \in {0, 1} : Issue(t, later)
    \/ \E t \in held : ConsumeToken(t)
    \/ SweepTokens
    \/ RestartTokens

TokensNext ==
    \/ TokensStep
    \/ (Tick \/ SetBack) /\ UNCHANGED tokensVars

TokensSpec == ClockInit /\ TokensInit /\ [][TokensNext]_<<clockVars, tokensVars>>

-----------------------------------------------------------------------------
(* Properties *)

\* The shape of the state.
TokensTypeOK ==
    /\ ClockTypeOK
    /\ held \subseteq Token
    /\ pending \subseteq [jti : Jtis, exp : Nat]
    /\ consumed \subseteq held
    /\ lives \in Nat

\* A token is consumed once, and until then nothing the sweep, other tokens or
\* a clock set back may do keeps it from being consumed, for as long as it was
\* announced to be good and the process runs.
ConsumableOnce ==
    /\ \A t \in consumed : ~Consumable(t)
    /\ \A t \in held \ consumed :
          t.ws /\ t.life = lives /\ Age < t.issued + WsTtl => Consumable(t)

\* Nobody enters, by a route or a socket, on a login longer ago than the two
\* kinds of token last together and the clock was set back: no chain of tokens
\* outlives that, although the two readings of the clock may differ.
EntersByLogin ==
    \A t \in held :
        /\ EntersHttp(t) => Age < t.login + SessionTtl + backs
        /\ EntersSocket(t) => Age < t.login + SessionTtl + WsTtl + backs
=============================================================================
