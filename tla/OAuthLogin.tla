------------------------------ MODULE OAuthLogin ------------------------------
(***************************************************************************)
(* Logging in with Google, as AuthController (src/auth/auth.controller.ts) *)
(* sees it: /auth/google/start leaves two cookies with the browser, the    *)
(* user chooses an account in a popup, and /auth/google/callback compares  *)
(* the cookies with the link the popup was sent to.                        *)
(*                                                                         *)
(* A browser runs several popups at a time; a link may be opened twice, or *)
(* in another browser; cookies expire; the callback waits for Google and   *)
(* for the database (module Accounts), and its cookies reach the browser   *)
(* with the response.  A popup's state is the number of its start: states  *)
(* are random and do not repeat.                                           *)
(*                                                                         *)
(* "wrong" marks plausible bugs that no action uses.                       *)
(***************************************************************************)
EXTENDS Naturals, Sequences

CONSTANTS
    Browsers,
    Targets,     \* safe paths to return to; NoTarget stands for any other
    NoTarget,
    Callbacks,   \* callbacks being handled
    MaxStarts    \* bound

VARIABLES
    begun,       \* the popups started: by whom, and where to return
    jar,         \* a browser's cookies
    redeemed,    \* external: popups whose code Google has exchanged
    callback     \* what each callback has come to

oauthVars == <<begun, jar, redeemed, callback>>

ASSUME OAuthAssumption == MaxStarts \in Nat /\ NoTarget \notin Targets

Target == Targets \cup {NoTarget}
Done == [at |-> "done"]

\* The session cookie a popup sets; history: with the popup that set it, and what
\* its page told the window that opened it (popupHtml).
Session(popup, returnTo) == [popup |-> popup, returnTo |-> returnTo]
NoSession == Session(0, NoTarget)

NoCookies == [state |-> 0, returnTo |-> NoTarget, session |-> NoSession]

OAuthInit ==
    /\ begun = <<>>
    /\ jar = [b \in Browsers |-> NoCookies]
    /\ redeemed = {}
    /\ callback = [q \in Callbacks |-> Done]

-----------------------------------------------------------------------------
\* setOauthCookies: the return cookie is only written when there is a target.
SetOauthCookiesOnce(cookies, state, target) ==                         \* wrong
    [cookies EXCEPT !.state = state,
                    !.returnTo = IF @ = NoTarget THEN target ELSE @]
SetOauthCookies(cookies, state, target) ==
    [cookies EXCEPT !.state = state,
                    !.returnTo = IF target = NoTarget THEN @ ELSE target]

ClearOauthCookies(cookies) == [cookies EXCEPT !.state = 0, !.returnTo = NoTarget]

SetSessionCookie(cookies, session) == [cookies EXCEPT !.session = session]

\* googleStart, for a returnTo that safeReturnTo made a target.
GoogleStart(b, target) ==
    /\ Len(begun) < MaxStarts
    /\ begun' = Append(begun, [browser |-> b, target |-> target])
    /\ jar' = [jar EXCEPT ![b] = SetOauthCookies(@, Len(begun) + 1, target)]
    /\ UNCHANGED <<redeemed, callback>>

\* A cookie expires, or the user removes it.
ForgetCookie(b) ==
    /\ \/ jar' = [jar EXCEPT ![b].state = 0]
       \/ jar' = [jar EXCEPT ![b].returnTo = NoTarget]
    /\ UNCHANGED <<begun, redeemed, callback>>

\* logout; the session cookie may also expire, or be replaced by a guest's
\* (anonymousLogin).
Logout(b) ==
    /\ jar[b].session # NoSession
    /\ jar' = [jar EXCEPT ![b] = SetSessionCookie(@, NoSession)]
    /\ UNCHANGED <<begun, redeemed, callback>>

-----------------------------------------------------------------------------
Reaches(q, stage) == callback' = [callback EXCEPT ![q].at = stage]

\* googleCallback reads the cookies and compares the state.
StateGiven(cookies, p) == cookies.state # 0                            \* wrong
StateMatches(cookies, p) == cookies.state = p

\* b opens the link of popup p: with a code, once the user has chosen an
\* account, or without one, as it is when the user declined.  The page will tell
\* the window that opened it to go where the return cookie says now.
GoogleCallback(q, b, p, withCode) ==
    /\ callback[q] = Done
    /\ callback' = [callback EXCEPT ![q] =
                       [at |-> IF ~StateMatches(jar[b], p) THEN "mismatched"
                               ELSE IF withCode THEN "exchanging" ELSE "refused",
                        browser |-> b, popup |-> p, returnTo |-> jar[b].returnTo]]
    /\ UNCHANGED <<begun, jar, redeemed>>

\* exchangeAndVerify; Google exchanges a code once.
ExchangeAndVerify(q) ==
    /\ callback[q].at = "exchanging"
    /\ callback[q].popup \notin redeemed
    /\ redeemed' = redeemed \cup {callback[q].popup}
    /\ Reaches(q, "upserting")
    /\ UNCHANGED <<begun, jar>>

\* upsertByProvider and the session token: Accounts.
SignIn(q) ==
    /\ callback[q].at = "upserting"
    /\ Reaches(q, "signed")
    /\ UNCHANGED <<begun, jar, redeemed>>

\* Google, the profile's checks or the database refuse.
RefuseLogin(q) ==
    /\ callback[q].at \in {"exchanging", "upserting"}
    /\ Reaches(q, "refused")
    /\ UNCHANGED <<begun, jar, redeemed>>

\* The response reaches the browser: clearOauthCookies, and on success
\* setSessionCookie.  Its page posts the callback's returnTo (popupHtml) ...
Respond(q) ==
    LET c == callback[q]
    IN  /\ c.at \in {"mismatched", "refused", "signed"}
        /\ jar' = [jar EXCEPT ![c.browser] =
                      IF c.at = "signed"
                      THEN SetSessionCookie(ClearOauthCookies(@), Session(c.popup, c.returnTo))
                      ELSE ClearOauthCookies(@)]
        /\ callback' = [callback EXCEPT ![q] = Done]
        /\ UNCHANGED <<begun, redeemed>>

\* ... or never does.
LoseResponse(q) ==
    /\ callback[q] # Done
    /\ callback' = [callback EXCEPT ![q] = Done]
    /\ UNCHANGED <<begun, jar, redeemed>>

OAuthNext ==
    \/ \E b \in Browsers, target \in Target : GoogleStart(b, target)
    \/ \E q \in Callbacks, b \in Browsers, p \in DOMAIN begun, withCode \in BOOLEAN :
          GoogleCallback(q, b, p, withCode)
    \/ \E b \in Browsers : ForgetCookie(b) \/ Logout(b)
    \/ \E q \in Callbacks :
          \/ ExchangeAndVerify(q) \/ SignIn(q) \/ RefuseLogin(q)
          \/ Respond(q) \/ LoseResponse(q)

OAuthSpec == OAuthInit /\ [][OAuthNext]_oauthVars

-----------------------------------------------------------------------------
(* Properties *)

SignedIn(b) == jar[b].session # NoSession

\* A browser is only signed in by a popup it started itself, whatever links it
\* is made to open.
SignedInByOwnLogin ==
    \A b \in Browsers :
        SignedIn(b) => begun[jar[b].session.popup].browser = b

\* Some popup of b asked to return there, if it is anywhere.
AskedBy(b, returnTo) ==
    returnTo # NoTarget =>
       \E p \in DOMAIN begun : begun[p] = [browser |-> b, target |-> returnTo]

\* A page that answers popup p sends nobody elsewhere than p asked.
AskedIn(p, returnTo) ==
    begun[p].target # NoTarget => returnTo \in {begun[p].target, NoTarget}

\* A login that asked to return somewhere never returns elsewhere, whether it
\* succeeds or is refused; one that asked for nothing, or whose state was not the
\* browser's, may follow a cookie in place, but only where this browser once
\* asked to go.
ReturnsWhereAsked ==
    /\ \A b \in Browsers :
          LET session == jar[b].session
          IN  SignedIn(b) => /\ AskedBy(b, session.returnTo)
                             /\ AskedIn(session.popup, session.returnTo)
    /\ \A q \in Callbacks :
          LET c == callback[q]
          IN  c # Done => /\ AskedBy(c.browser, c.returnTo)
                          /\ c.at # "mismatched" => AskedIn(c.popup, c.returnTo)
=============================================================================
