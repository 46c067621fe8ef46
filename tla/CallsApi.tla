------------------------------- MODULE CallsApi -------------------------------
(***************************************************************************)
(* CallsController (src/calls/calls.controller.ts) over CallsService: a    *)
(* request names its call by id or by room code, is handled as a whole,    *)
(* and its response, or the request itself, may be lost, so that clients   *)
(* repeat it later.  Tokens (turn-credentials, sfu-token) are the          *)
(* exception: the handler awaits the signature after its checks.           *)
(*                                                                         *)
(* A request that is refused changes nothing and is no action.  The        *)
(* process may restart; it keeps nothing (the service is in memory).       *)
(* Clients and their retries are external.                                 *)
(*                                                                         *)
(* "wrong" marks plausible bugs that no action uses.                       *)
(***************************************************************************)
EXTENDS CallsService

CONSTANTS
    MaxUnsure,    \* bound on the requests clients may repeat
    MaxTokens,    \* bound on the tokens remembered
    MaxRestarts   \* bound on the restarts of the process

VARIABLES
    waiting,   \* handlers awaiting a signature
    issued,    \* tokens clients got
    unsure,    \* requests without a response
    strayed,   \* history: repeated requests that changed another call
    drawn,     \* history: ids createCall has drawn; UUIDs do not repeat
    lives      \* history: restarts of the process

apiVars == <<waiting, issued, unsure, strayed, drawn, lives>>

ASSUME ApiBoundsAssumption == MaxUnsure \in Nat /\ MaxTokens \in Nat /\ MaxRestarts \in Nat
ASSUME AddressAssumption == CallIds \cap Codes = {} /\ None \notin Codes

Address == CallIds \cup Codes

\* A request as its client means it: "other" is the invitee, else the user.
Request ==
    {r \in [op : {"invite", "accept", "join", "end"}, user : Users, other : Users,
            address : Address, meant : CallIds] :
        (r.op = "invite") # (r.other = r.user)}

ApiInit ==
    /\ Init
    /\ waiting = {}
    /\ issued = {}
    /\ unsure = {}
    /\ strayed = {}
    /\ drawn = {}
    /\ lives = 0

-----------------------------------------------------------------------------
\* getCallByIdOrCode
Resolve(address) ==
    IF address \in CallIds /\ Exists(address) THEN address
    ELSE IF address \in Codes THEN codeIndex[address]
    ELSE None

\* invite, accept, join, end, on the call found.
Perform(r, c) ==
    \/ r.op = "invite" /\ Invite(c, r.user, r.other)
    \/ r.op = "accept" /\ Accept(c, r.user)
    \/ r.op = "join" /\ Join(c, r.user)
    \/ r.op = "end" /\ End(c, r.user)

\* POST /calls
Create(c, creator, visibility, invitees, code) ==
    /\ c \notin drawn
    /\ CreateCall(c, creator, visibility, invitees, code)
    /\ drawn' = drawn \cup {c}
    /\ UNCHANGED <<waiting, issued, unsure, strayed, lives>>

\* A client sends a request, meaning the call its address leads to now; the
\* request is handled or lost, the response arrives or is lost.
SendRequest(r) ==
    /\ r.meant = Resolve(r.address)
    /\ \/ /\ Perform(r, r.meant)
          /\ UNCHANGED unsure
       \/ /\ Cardinality(unsure) < MaxUnsure
          /\ Perform(r, r.meant) \/ UNCHANGED vars
          /\ unsure' = unsure \cup {r}
    /\ UNCHANGED <<waiting, issued, strayed, drawn, lives>>

\* It is repeated; the address may lead elsewhere by now.
Repeat(r) ==
    /\ LET c == Resolve(r.address)
       IN  /\ c # None
           /\ Perform(r, c)
           /\ strayed' = IF c # r.meant THEN strayed \cup {r} ELSE strayed
    /\ unsure' = unsure \ {r} \/ UNCHANGED unsure
    /\ UNCHANGED <<waiting, issued, drawn, lives>>

\* The client gives up, or the repeated request is refused.
GiveUp(r) ==
    /\ unsure' = unsure \ {r}
    /\ UNCHANGED <<vars, waiting, issued, strayed, drawn, lives>>

\* Who may have a token.
Participating(c, u) == IsParticipant(c, u)                             \* wrong
Entitled(c, u) == IsParticipant(c, u) /\ ~Ended(c)

\* The token is for the call, not for what the path said; "asked" places the
\* handler's checks in the journal of this life.
TokenFor(u, c) ==
    [user |-> u, call |-> c, asked |-> nextId, life |-> lives]

\* turn-credentials, sfu-token: the checks, up to the signature ...
AskToken(u, address) ==
    LET c == Resolve(address)
    IN  /\ c # None
        /\ Entitled(c, u)
        /\ Cardinality(waiting) < MaxTokens
        /\ waiting' = waiting \cup {TokenFor(u, c)}
        /\ UNCHANGED <<vars, issued, unsure, strayed, drawn, lives>>

\* ... and the response.
IssueToken(t) ==
    /\ waiting' = waiting \ {t}
    /\ issued' = IF Cardinality(issued) < MaxTokens THEN issued \cup {t} ELSE {t}
    /\ UNCHANGED <<vars, unsure, strayed, drawn, lives>>

Restart ==
    /\ lives < MaxRestarts
    /\ calls' = [c \in CallIds |-> None]
    /\ codeIndex' = [k \in Codes |-> None]
    /\ events' = {}
    /\ nextId' = 1
    /\ waiting' = {}
    /\ lives' = lives + 1
    /\ UNCHANGED <<issued, unsure, strayed, drawn>>

ApiNext ==
    \/ \E c \in CallIds, u \in Users, visibility \in CallVisibility,
          invitees \in InviteeLists, code \in Codes :
          Create(c, u, visibility, invitees, code)
    \/ \E r \in Request : SendRequest(r)
    \/ \E r \in unsure : Repeat(r) \/ GiveUp(r)
    \/ \E u \in Users, address \in Address : AskToken(u, address)
    \/ \E t \in waiting : IssueToken(t)
    \/ Restart

ApiSpec == ApiInit /\ [][ApiNext]_<<vars, apiVars>>

-----------------------------------------------------------------------------
(* Properties *)

\* What a user does to a call is recorded once, however often and whenever the
\* request is repeated: over HTTP, nobody leaves, so nobody enters again.
RecordedOnce ==
    \A e, f \in events :
        e.callId = f.callId /\ e.userId = f.userId /\ e.type = f.type => e = f

\* A repeated request changes another call than the one it meant only if it
\* names its call by code, and that call has ended or been forgotten.
StrayOnlyByFreedCode ==
    \A r \in strayed :
        /\ r.address \in Codes
        /\ Exists(r.meant) => Ended(r.meant)

\* Whoever holds a token, or is about to, had been let into the call, and the
\* call had not ended, when the token was asked for; a restart forgets which
\* calls there were, not the tokens.
TokensWereEntitled ==
    \A t \in issued \cup waiting :
        t.life = lives =>
            /\ \E e \in EventsOf(t.call) : e.userId = t.user /\ e.id < t.asked
            /\ \A e \in EventsOf(t.call) : e.type = "ended" => t.asked <= e.id
=============================================================================
