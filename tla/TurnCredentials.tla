---------------------------- MODULE TurnCredentials ----------------------------
(***************************************************************************)
(* StaticTurnService (src/turn/turn.service.ts) signs credentials for the  *)
(* relay, coturn, which is external: src/coturn/turnserver.conf runs it    *)
(* with use-auth-secret, so that it computes the password from the         *)
(* username it is given and the secret it shares with the server.          *)
(*                                                                         *)
(* A signature is the record of what was signed: signatures are equal just *)
(* when what they sign is.  The secret is one and the same on both sides.  *)
(***************************************************************************)
EXTENDS Clock

CONSTANTS TurnUsers, TurnCalls, TurnTtl

VARIABLE given       \* credentials clients were given

Hmac(signed) == [hmac |-> signed]

TurnInit ==
    /\ ClockInit
    /\ given = {}

\* generateCredentials
Credentials(u, c, expiresAt) ==
    [username |-> <<u, expiresAt>>, credential |-> Hmac(<<u, c, expiresAt>>),
     expiresAt |-> expiresAt]

GenerateCredentials(u, c) ==
    /\ given' = given \cup {Credentials(u, c, now + TurnTtl)}
    /\ UNCHANGED clockVars

TurnNext ==
    \/ \E u \in TurnUsers, c \in TurnCalls : GenerateCredentials(u, c)
    \/ Tick /\ UNCHANGED given

TurnSpec == TurnInit /\ [][TurnNext]_<<clockVars, given>>

\* coturn, asked by a client with these credentials.
RelayAccepts(creds) ==
    /\ creds.credential = Hmac(creds.username)
    /\ now <= creds.expiresAt

-----------------------------------------------------------------------------
(* Properties *)

\* The relay accepts what the server signed for it, until it expires:
\* src/coturn/turnserver.conf says that "the API will sign credentials with
\* static-auth-secret and embed them in the TURN password".
CredentialsAccepted ==
    \A creds \in given : now <= creds.expiresAt => RelayAccepts(creds)
=============================================================================
