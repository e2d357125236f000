---- MODULE GoalieTrainer ----
(***************************************************************************)
(* The goalie trainer of runtime.cpp: a session of at most 60 seconds, run *)
(* by the update hook of one controller script, that fetches the player's  *)
(* own disc, stages it at a recorded start, launches it and then keeps its *)
(* hands off until the shot has ended.  A cut shot is first passed towards *)
(* the goal and redirected once on its way (CutRedirect).                  *)
(*                                                                         *)
(* Every hook runs under the runtime's lock, so a hook is one step; the    *)
(* one event the trainer sends is handled inside that step.  What          *)
(* the trainer reads from the game in one tick is an observation, chosen   *)
(* afresh each time; times are in units of the smallest one.               *)
(***************************************************************************)
EXTENDS Integers, FiniteSets

CONSTANTS Controllers, Discs,  \* script contexts the game may create
          Null,
          SessionTime,         \* 60 s
          ResolveTime,         \* 2.5 s to find the disc
          StageTime,           \* 6 s to bring it to the start
          FlightTime,          \* a shot's flight and its 1.25 s of grace
          PauseTime,           \* 1 s between shots
          MaxNow               \* bound: the clock stops here

ASSUME TimesAssumption ==
    {SessionTime, ResolveTime, StageTime, FlightTime, PauseTime, MaxNow} \subseteq Nat \ {0}
ASSUME NullAssumption == Null \notin Controllers \cup Discs

VARIABLES now,
          session,             \* Session in policy.h: active, deadline
          discOn, fault,       \* the Personal Disc switch; fail() was called
          controllers, discs,  \* contexts seen by an update hook, not destroyed
          trainingController, trainingDisc,
          phase, phaseUntil, cutShot,
          armed,               \* redirect.armed
          wrote,               \* history: what this step did to the velocity
          restUntil            \* history: when the last shot lets go of the disc

run == <<session, trainingController, trainingDisc, phase, phaseUntil, cutShot, armed, restUntil>>
world == <<now, discOn, fault, controllers, discs>>
vars == <<now, session, discOn, fault, controllers, discs, trainingController, trainingDisc,
          phase, phaseUntil, cutShot, armed, wrote, restUntil>>

\* The values of `phase` in trainerTick().
Request == 0
Resolve == 1
Staging == 2
Flight == 3
Pause == 4
Pass == 5

Off == [active |-> FALSE, deadline |-> 0]

\* One look at the game: which discs are local with a valid body, and of the
\* training disc whether it is held, frozen (physics flag 4), where it is with
\* respect to the shot's start, and how a pass is flying.
Observations == [resolved : SUBSET Discs, held : BOOLEAN, frozen : BOOLEAN,
                 place : {"far", "staged", "invalid"},
                 passing : {"flying", "near", "off"}]

Init == /\ now = 0 /\ session = Off
        /\ discOn = TRUE /\ fault = FALSE
        /\ controllers = {} /\ discs = {}
        /\ trainingController = Null /\ trainingDisc = Null
        /\ phase = Request /\ phaseUntil = 0 /\ cutShot = FALSE /\ armed = FALSE
        /\ wrote = "none" /\ restUntil = 0

----------------------------------------------------------------------------

\* setVelocity() refuses a held or frozen disc.
SetVelocity(o, what) == wrote' = IF o.held \/ o.frozen THEN "none" ELSE what

\* stop(): the session and everything it was doing.
Stopped ==
    /\ session' = Off
    /\ phase' = Request
    /\ trainingDisc' = Null /\ trainingController' = Null
    /\ armed' = FALSE
    /\ restUntil' = 0
    /\ UNCHANGED <<phaseUntil, cutShot>>

StopQuietly == Stopped /\ wrote' = "none"

Enter(p, until) == phase' = p /\ phaseUntil' = until

\* Phase 2, entered with the disc d, a deadline and the kind of shot: push the
\* disc towards the start until it is there, then let go of it.
StageDisc(d, until, cut, o) ==
    LET staging == /\ Enter(Staging, until) /\ cutShot' = cut /\ trainingDisc' = d
                   /\ armed' = FALSE
                   /\ UNCHANGED <<session, trainingController, restUntil>>
        launched == /\ cutShot' = cut /\ trainingDisc' = d
                    /\ restUntil' = now + FlightTime
                    /\ UNCHANGED <<session, trainingController>>
    IN \/ o.held /\ now >= until /\ StopQuietly
       \/ o.held /\ now < until /\ staging /\ wrote' = "none"
       \/ ~o.held /\ o.place = "invalid" /\ StopQuietly
       \/ /\ ~o.held /\ o.place = "staged" /\ cut
          /\ launched /\ Enter(Pass, now + FlightTime) /\ armed' = TRUE
          /\ SetVelocity(o, "launch")
       \/ /\ ~o.held /\ o.place = "staged" /\ ~cut
          /\ launched /\ Enter(Flight, now + FlightTime) /\ armed' = FALSE
          /\ SetVelocity(o, "launch")
       \/ ~o.held /\ o.place = "far" /\ now >= until /\ Stopped /\ SetVelocity(o, "halt")
       \/ ~o.held /\ o.place = "far" /\ now < until /\ staging /\ SetVelocity(o, "stage")

Keep == UNCHANGED run /\ wrote' = "none"

\* Bug variant of ResolveDisc: the matches are kept in place of the only one.
ResolveDiscKeepsAll(o) ==
    /\ phase = Resolve
    /\ trainingDisc' = o.resolved \cap discs
    /\ wrote' = "none"
    /\ UNCHANGED <<session, trainingController, phase, phaseUntil, cutShot, armed, restUntil>>

\* Phase 1: exactly one local disc must have a body; on success phase 2 starts
\* in the same tick.
ResolveDisc(o) ==
    LET matches == o.resolved \cap discs
    IN /\ phase = Resolve
       /\ \/ Cardinality(matches) > 1 /\ StopQuietly
          \/ matches = {} /\ now >= phaseUntil /\ StopQuietly
          \/ matches = {} /\ now < phaseUntil /\ Keep
          \/ \E d \in matches :
                /\ matches = {d}
                /\ \/ o.held /\ now >= phaseUntil /\ StopQuietly
                   \/ /\ o.held /\ now < phaseUntil
                      /\ trainingDisc' = d
                      /\ wrote' = "none"
                      /\ UNCHANGED <<session, trainingController, phase, phaseUntil, cutShot, armed, restUntil>>
                   \/ ~o.held /\ \E cut \in BOOLEAN : StageDisc(d, now + StageTime, cut, o)

\* The disc's script or its body has gone: start over with a request.
DiscLost(o) ==
    /\ phase \in {Staging, Flight, Pause, Pass}
    /\ ~(trainingDisc \in discs /\ trainingDisc \in o.resolved)
    /\ phase' = Request
    /\ trainingDisc' = IF trainingDisc \in discs THEN trainingDisc ELSE Null
    /\ restUntil' = 0 /\ wrote' = "none"
    /\ UNCHANGED <<session, trainingController, phaseUntil, cutShot, armed>>

\* CutRedirect::update() and what phase 5 does with its result.
PassResult(o) ==
    IF ~armed \/ o.held \/ o.passing = "off" THEN "cancel"
    ELSE IF o.passing = "near" THEN "slap" ELSE "flying"

PassDisc(o) ==
    /\ phase = Pass
    /\ \/ /\ PassResult(o) = "cancel" \/ now >= phaseUntil
          /\ armed' = FALSE
          /\ Enter(Pause, now + PauseTime) /\ restUntil' = now + PauseTime
          /\ wrote' = "none"
          /\ UNCHANGED <<session, trainingController, trainingDisc, cutShot>>
       \/ /\ PassResult(o) = "slap" /\ now < phaseUntil /\ o.place = "invalid"
          /\ StopQuietly
       \/ /\ PassResult(o) = "slap" /\ now < phaseUntil /\ o.place # "invalid"
          /\ armed' = FALSE
          /\ SetVelocity(o, "slap")
          /\ Enter(Flight, now + FlightTime) /\ restUntil' = now + FlightTime
          /\ UNCHANGED <<session, trainingController, trainingDisc, cutShot>>
       \/ PassResult(o) = "flying" /\ now < phaseUntil /\ Keep

\* Bug variant of EndFlight: a flight is over at the next update.
EndFlightAtOnce(o) ==
    /\ phase = Flight
    /\ phase' = Request
    /\ wrote' = "none"
    /\ UNCHANGED <<session, trainingController, trainingDisc, phaseUntil, cutShot, armed, restUntil>>

\* Phase 3: the shot flies until it is caught or its time is up.
EndFlight(o) ==
    /\ phase = Flight
    /\ \/ /\ o.held \/ now >= phaseUntil
          /\ Enter(Pause, now + PauseTime) /\ restUntil' = now + PauseTime
          /\ wrote' = "none"
          /\ UNCHANGED <<session, trainingController, trainingDisc, cutShot, armed>>
       \/ ~o.held /\ now < phaseUntil /\ Keep

EndPause ==
    /\ phase = Pause
    /\ \/ /\ now >= phaseUntil
          /\ phase' = Request
          /\ wrote' = "none"
          /\ UNCHANGED <<session, trainingController, trainingDisc, phaseUntil, cutShot, armed, restUntil>>
       \/ now < phaseUntil /\ Keep

Work(o) ==
    \/ ResolveDisc(o)
    \/ DiscLost(o)
    \/ /\ trainingDisc \in discs /\ trainingDisc \in o.resolved
       /\ \/ phase = Staging /\ StageDisc(trainingDisc, phaseUntil, cutShot, o)
          \/ PassDisc(o)
          \/ EndFlight(o)
          \/ EndPause

\* trainerTick() for the session's own controller; `allowed` is what the
\* current match says of it.
\* (Bug variant of Expired: no deadline.)
ExpiredNever(allowed) == ~(allowed /\ discOn /\ ~fault)
Expired(allowed) == ~(allowed /\ discOn /\ ~fault) \/ now >= session.deadline

TrainerTick ==
    \E allowed \in BOOLEAN :
        \/ Expired(allowed) /\ StopQuietly
        \/ ~Expired(allowed) /\ \E o \in Observations : Work(o)

\* Phase 0: ask the game for the player's disc.  requestDisc() dispatches the
\* event at once, inside the tick: the game's own handlers may destroy scripts,
\* the session's among them, and update others for the first time.  Phase 1
\* is entered all the same.
AskForDisc(c) ==
    LET seen == controllers \cup {c}
    IN /\ session.active /\ c = trainingController /\ phase = Request
       /\ \E allowed \in BOOLEAN : ~Expired(allowed)
       /\ \E gone \in SUBSET (seen \cup discs), fresh \in SUBSET (Controllers \cup Discs) :
             /\ controllers' = (seen \ gone) \cup (fresh \cap Controllers)
             /\ discs' = (discs \ gone) \cup (fresh \cap Discs)
             /\ IF {trainingController, trainingDisc} \cap gone # {}
                THEN /\ session' = Off
                     /\ trainingController' = Null /\ trainingDisc' = Null
                     /\ armed' = FALSE /\ restUntil' = 0
                ELSE UNCHANGED <<session, trainingController, trainingDisc, armed, restUntil>>
       /\ Enter(Resolve, now + ResolveTime)
       /\ wrote' = "none"
       /\ UNCHANGED cutShot

\* updateScript(0, c), the controller script's update hook.
ControllerUpdate(c) ==
    /\ \/ /\ controllers' = controllers \cup {c}
          /\ IF session.active /\ c = trainingController THEN TrainerTick ELSE Keep
          /\ UNCHANGED discs
       \/ AskForDisc(c)
    /\ UNCHANGED <<now, discOn, fault>>

\* updateScript(1, d), the disc script's update hook.
DiscUpdate(d) ==
    /\ discs' = discs \cup {d}
    /\ Keep
    /\ UNCHANGED <<now, discOn, fault, controllers>>

\* Bug variants of ScriptDestroy: one of the two contexts is not compared.
ScriptDestroyMissesController(ctx) ==
    /\ ctx \in controllers \cup discs
    /\ controllers' = controllers \ {ctx}
    /\ discs' = discs \ {ctx}
    /\ IF ctx = trainingDisc THEN StopQuietly ELSE Keep
    /\ UNCHANGED <<now, discOn, fault>>

ScriptDestroyMissesDisc(ctx) ==
    /\ ctx \in controllers \cup discs
    /\ controllers' = controllers \ {ctx}
    /\ discs' = discs \ {ctx}
    /\ IF ctx = trainingController THEN StopQuietly ELSE Keep
    /\ UNCHANGED <<now, discOn, fault>>

\* scriptDestroy() of either kind.
ScriptDestroy(ctx) ==
    /\ ctx \in controllers \cup discs
    /\ controllers' = controllers \ {ctx}
    /\ discs' = discs \ {ctx}
    /\ IF ctx \in {trainingController, trainingDisc} THEN StopQuietly ELSE Keep
    /\ UNCHANGED <<now, discOn, fault>>

\* A press on GOALIE (dispatch()): stop, or start when exactly one controller
\* is eligible.
PressGoalie(allowed) ==
    LET eligible == IF discOn THEN allowed \cap controllers ELSE {}
    IN /\ ~fault
       /\ \/ session.active /\ StopQuietly
          \/ \E c \in eligible :
                /\ ~session.active
                /\ eligible = {c}
                /\ now + SessionTime <= MaxNow
                /\ session' = [active |-> TRUE, deadline |-> now + SessionTime]
                /\ trainingController' = c
                /\ phase' = Request
                /\ wrote' = "none"
                /\ UNCHANGED <<trainingDisc, phaseUntil, cutShot, armed, restUntil>>
       /\ UNCHANGED world

\* A press on DISC: switching the personal disc off ends the session.
PressDisc ==
    /\ ~fault
    /\ discOn' = ~discOn
    /\ IF discOn THEN StopQuietly ELSE Keep
    /\ UNCHANGED <<now, fault, controllers, discs>>

\* The root canvas of the tablet is unloaded.
RootUnloaded == StopQuietly /\ UNCHANGED world

\* fail(), from the button hook or after an access fault: only the session is
\* stopped; phase, disc and controller stay behind.
Fail ==
    /\ fault' = TRUE
    /\ session' = Off
    /\ wrote' = "none"
    /\ UNCHANGED <<trainingController, trainingDisc, phase, phaseUntil, cutShot, armed, restUntil>>
    /\ UNCHANGED <<now, discOn, controllers, discs>>

Clock ==
    /\ now < MaxNow
    /\ now' = now + 1
    /\ Keep
    /\ UNCHANGED <<discOn, fault, controllers, discs>>

Next == \/ \E c \in Controllers : ControllerUpdate(c)
        \/ \E d \in Discs : DiscUpdate(d)
        \/ \E ctx \in Controllers \cup Discs : ScriptDestroy(ctx)
        \/ \E allowed \in SUBSET Controllers : PressGoalie(allowed)
        \/ PressDisc
        \/ RootUnloaded
        \/ Fail
        \/ Clock

\* Time passes, and the game updates every controller script that exists.
Fairness == /\ WF_vars(Clock)
            /\ \A c \in Controllers : WF_vars(c \in controllers /\ ControllerUpdate(c))
Spec == Init /\ [][Next]_vars /\ Fairness

----------------------------------------------------------------------------
(* Properties *)

Contexts == Controllers \cup Discs

TypeOK ==
    /\ now \in 0 .. MaxNow
    /\ session \in [active : BOOLEAN, deadline : Nat]
    /\ discOn \in BOOLEAN /\ fault \in BOOLEAN
    /\ controllers \subseteq Controllers /\ discs \subseteq Discs
    /\ trainingController \in Controllers \cup {Null}
    /\ trainingDisc \in Discs \cup {Null}
    /\ phase \in {Request, Resolve, Staging, Flight, Pause, Pass}
    /\ phaseUntil \in Nat /\ restUntil \in Nat
    /\ cutShot \in BOOLEAN /\ armed \in BOOLEAN
    /\ wrote \in {"none", "stage", "halt", "launch", "slap"}

\* A session always has a live controller to run it, and only while the
\* personal disc is on and nothing has failed: destroying the controller,
\* switching the disc off and fail() all reach the session.
SessionHasController ==
    session.active => trainingController \in controllers /\ discOn /\ ~fault

\* The trainer never keeps a disc whose script was destroyed, so it cannot
\* write through a dangling context (scriptDestroy(), trainerTick()).
DiscIsLive == trainingDisc # Null => trainingDisc \in discs

\* The redirect is armed exactly during a pass: a shot, a pause or a staging
\* can never inherit the authority to slap (policy of cut_redirect.h).
ArmedOnlyInPass ==
    /\ phase = Pass => armed
    /\ phase \in {Staging, Flight, Pause} => ~armed

\* runtime.cpp:392 "Staging only. Once launched, never overwrite flight, a
\* bounce or save": from a launch until the shot's time is up or the disc is
\* caught, and for the pause after that, no staging write happens, unless the
\* disc vanished in between.
FlightUntouched == [][wrote' \in {"stage", "halt"} => now >= restUntil]_vars

\* Every velocity write falls inside the 60 seconds of a session started by a
\* press, while the disc is on and the session's controller exists.
WritesInsideSession ==
    [][wrote' # "none" => /\ session.active /\ now < session.deadline
                          /\ discOn /\ ~fault
                          /\ trainingController \in controllers]_vars

\* A session ends: at its deadline at the latest, without a second press.
SessionEnds == session.active ~> ~session.active
====
