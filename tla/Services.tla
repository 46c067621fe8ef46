------------------------------- MODULE Services -------------------------------
(***************************************************************************)
(* The services that share nothing but the clock, put into one run of TLC. *)
(* The code of each neither reads nor writes the state of another: this is *)
(* taken from the source and built in (OthersOf), not shown.  A behaviour  *)
(* follows one service, the others staying as they began: the states to    *)
(* look at are then the sum, and not the product, of theirs.               *)
(***************************************************************************)
EXTENDS InMemoryPresence, RateLimitService, RateLimitGuard,
        Accounts, OAuthLogin, WsTokens, LiveKitProbe

VARIABLE service     \* the one this behaviour follows

Service ==
    {"presence", "limiter", "guard", "accounts", "oauth", "tokens", "probe"}

presenceVars == <<sockets, ttls, timers>>

ServicesInit ==
    /\ service \in Service
    /\ MemoryInit /\ ServiceInit /\ GuardInit
    /\ AccountsInit /\ OAuthInit /\ TokensInit /\ ProbeInit

StepOf(s) ==
    \/ s = "presence" /\ MemoryStep
    \/ s = "limiter" /\ ServiceStep /\ UNCHANGED clockVars
    \/ s = "guard" /\ GuardStep /\ UNCHANGED clockVars
    \/ s = "accounts" /\ AccountsNext /\ UNCHANGED clockVars
    \/ s = "oauth" /\ OAuthNext /\ UNCHANGED clockVars
    \/ s = "tokens" /\ TokensStep
    \/ s = "probe" /\ ProbeStep

\* What the other services keep.
OthersOf(s) ==
    /\ s # "presence" => UNCHANGED presenceVars
    /\ s # "limiter" => UNCHANGED serviceVars
    /\ s # "guard" => UNCHANGED guardVars
    /\ s # "accounts" => UNCHANGED accountsVars
    /\ s # "oauth" => UNCHANGED oauthVars
    /\ s # "tokens" => UNCHANGED tokensVars
    /\ s # "probe" => UNCHANGED probeVars

\* Accounts and OAuthLogin do not look at the clock.
ClockStep ==
    /\ service \notin {"accounts", "oauth"}
    /\ Tick \/ SetBack
    /\ UNCHANGED presenceVars
    /\ OthersOf("presence")

ServicesNext ==
    /\ \/ StepOf(service) /\ OthersOf(service)
       \/ ClockStep
    /\ UNCHANGED service

servicesVars ==
    <<service, memoryVars, serviceVars, guardVars, accountsVars, oauthVars,
      tokensVars, probeVars>>

\* Only presence promises something in the end.  Where it is followed time
\* passes; the others, of which two have no clock, only have timers not to run.
ServicesFairness ==
    /\ WF_memoryVars(service = "presence" /\ TimePasses)
    /\ TimersRun

ServicesSpec == ServicesInit /\ [][ServicesNext]_servicesVars /\ ServicesFairness

\* The shape of the state of the services that keep tables, buckets and tokens.
ServicesTypeOK ==
    MemoryTypeOK /\ ServiceTypeOK /\ AccountsTypeOK /\ TokensTypeOK
=============================================================================
