----------------------------- MODULE LiveKitProbe -----------------------------
(***************************************************************************)
(* GET /info/livekit (src/media-provider/livekit-health.controller.ts):    *)
(* each probe signs a token, lists the rooms, and creates and deletes a    *)
(* room of its own on the LiveKit server, through LiveKitMediaProvider.    *)
(* The room is named by Date.now, so probes of one moment share it.        *)
(*                                                                         *)
(* A request to LiveKit may be refused, or be executed although its reply  *)
(* is lost; the process may stop at any time.  LiveKit is external: it     *)
(* creates a room that exists by returning it, refuses to delete one that  *)
(* does not, and drops empty rooms when it likes.                          *)
(*                                                                         *)
(* "wrong" marks plausible bugs that no action uses.                       *)
(***************************************************************************)
EXTENDS Clock

CONSTANT Probes

VARIABLES
    probe,       \* how far each probe has come, and its room
    rooms,       \* external: the rooms that exist
    excused      \* history: those a failure or a stop has left behind

probeVars == <<probe, rooms, excused>>

NoProbe == [at |-> "none", room |-> 0]

ProbeInit ==
    /\ probe = [i \in Probes |-> NoProbe]
    /\ rooms = {}
    /\ excused = {}

-----------------------------------------------------------------------------
GoesOn(i, at) == probe' = [probe EXCEPT ![i].at = at]
Without(room) == rooms' = rooms \ {room} /\ excused' = excused \ {room}
Ends(i) == probe' = [probe EXCEPT ![i] = NoProbe]

\* getHealth, up to createAccessToken, which asks nobody; the room's name.
GetHealth(i) ==
    /\ probe[i] = NoProbe
    /\ probe' = [probe EXCEPT ![i] = [at |-> "listing", room |-> now]]
    /\ UNCHANGED <<clockVars, rooms, excused>>

\* listRooms; its failure is reported, and the probe goes on.
ListRooms(i) ==
    /\ probe[i].at = "listing"
    /\ GoesOn(i, "creating")
    /\ UNCHANGED <<clockVars, rooms, excused>>

\* createRoom
CreateRoom(i) ==
    /\ probe[i].at = "creating"
    /\ rooms' = rooms \cup {probe[i].room}
    /\ \/ GoesOn(i, "deleting") /\ UNCHANGED excused
       \/ Ends(i) /\ excused' = excused \cup {probe[i].room}    \* the reply is lost
    /\ UNCHANGED clockVars

CreateRefused(i) ==
    /\ probe[i].at = "creating"
    /\ Ends(i)
    /\ UNCHANGED <<clockVars, rooms, excused>>

\* deleteRoom; a failure is swallowed.
DeleteAnother(i) ==                                                    \* wrong
    /\ probe[i].at = "deleting"
    /\ Without(now)
    /\ Ends(i)
    /\ UNCHANGED clockVars
DeleteRoom(i) ==
    /\ probe[i].at = "deleting"
    /\ Without(probe[i].room)
    /\ Ends(i)
    /\ UNCHANGED clockVars

DeleteFails(i) ==
    /\ probe[i].at = "deleting"
    /\ excused' = excused \cup ({probe[i].room} \cap rooms)
    /\ Ends(i)
    /\ UNCHANGED <<clockVars, rooms>>

StopProbes ==
    /\ excused' = excused \cup
           {room \in rooms : \E i \in Probes : probe[i] = [at |-> "deleting", room |-> room]}
    /\ probe' = [i \in Probes |-> NoProbe]
    /\ UNCHANGED <<clockVars, rooms>>

DropRoom(room) ==
    /\ Without(room)
    /\ UNCHANGED <<clockVars, probe>>

ProbeStep ==
    \/ \E i \in Probes :
          \/ GetHealth(i) \/ ListRooms(i)
          \/ CreateRoom(i) \/ CreateRefused(i)
          \/ DeleteRoom(i) \/ DeleteFails(i)
    \/ StopProbes
    \/ \E room \in rooms : DropRoom(room)

ProbeNext ==
    \/ ProbeStep
    \/ (Tick \/ SetBack) /\ UNCHANGED probeVars

ProbeSpec == ClockInit /\ ProbeInit /\ [][ProbeNext]_<<clockVars, probeVars>>

-----------------------------------------------------------------------------
(* Properties *)

\* A room is only left on the server by a request that failed or a process that
\* stopped: probes that share a room delete it, whoever is first.
LeftoversExcused ==
    \A room \in rooms :
        \/ room \in excused
        \/ \E i \in Probes : probe[i] = [at |-> "deleting", room |-> room]
=============================================================================
