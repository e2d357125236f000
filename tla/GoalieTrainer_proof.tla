---- MODULE GoalieTrainer_proof ----
(***************************************************************************)
(* The trainer's authority over the disc, for any number of script         *)
(* contexts, any durations and any length of play.                         *)
(***************************************************************************)
EXTENDS GoalieTrainer, TLAPS

\* Until when a disc that was let go of is left alone: a new staging can only
\* begin once that moment has passed.
RestInv ==
    /\ ~session.active /\ ~fault => restUntil = 0
    /\ phase \in {Request, Resolve, Staging} => restUntil <= now
    /\ phase = Pause => restUntil = phaseUntil

IInv == TypeOK /\ SessionHasController /\ DiscIsLive /\ ArmedOnlyInPass /\ RestInv

\* What one step may do to the disc's velocity.
StepIsSafe ==
    /\ wrote' \in {"stage", "halt"} => now >= restUntil
    /\ wrote' # "none" => /\ session.active /\ now < session.deadline
                          /\ discOn /\ ~fault
                          /\ trainingController \in controllers

----------------------------------------------------------------------------

LEMMA InitIInv == Init => IInv
<1> SUFFICES ASSUME Init PROVE IInv
  OBVIOUS
<1> USE DEF Init, Off, Request, Resolve, Staging, Flight, Pause, Pass
<1>1. TypeOK
  <2>1. now \in 0 .. MaxNow
    BY TimesAssumption, SMT
  <2>2. session \in [active : BOOLEAN, deadline : Nat]
    OBVIOUS
  <2> QED BY <2>1, <2>2 DEF TypeOK
<1>2. RestInv
  BY DEF RestInv
<1>3. SessionHasController /\ DiscIsLive /\ ArmedOnlyInPass
  BY DEF SessionHasController, DiscIsLive, ArmedOnlyInPass
<1> QED BY <1>1, <1>2, <1>3 DEF IInv

\* stop() leaves nothing that the invariant could object to, wherever it is
\* called from; the caller only says what it changes in the world.
LEMMA StoppedKeeps ==
    ASSUME IInv, Stopped, wrote' \in {"none", "halt"},
           now' \in 0 .. MaxNow, discOn' \in BOOLEAN, fault' \in BOOLEAN,
           controllers' \subseteq Controllers, discs' \subseteq Discs
    PROVE  IInv'
<1> USE DEF Stopped, Off, Request, Resolve, Staging, Flight, Pause, Pass
<1>1. TypeOK'
  <2>1. session' \in [active : BOOLEAN, deadline : Nat]
    OBVIOUS
  <2>2. wrote' \in {"none", "stage", "halt", "launch", "slap"}
    OBVIOUS
  <2> QED BY <2>1, <2>2 DEF IInv, TypeOK
<1>2. RestInv'
  BY SMT DEF IInv, TypeOK, RestInv
<1>3. SessionHasController' /\ DiscIsLive' /\ ArmedOnlyInPass'
  BY DEF SessionHasController, DiscIsLive, ArmedOnlyInPass
<1> QED BY <1>1, <1>2, <1>3 DEF IInv

\* Nothing of the run changes; the world may grow, and time may pass.
LEMMA KeepKeeps ==
    ASSUME IInv, Keep, now' \in 0 .. MaxNow, now <= now', discOn' = discOn, fault' = fault,
           controllers \subseteq controllers', controllers' \subseteq Controllers,
           discs \subseteq discs', discs' \subseteq Discs
    PROVE  IInv'
BY SMT
   DEF IInv, TypeOK, SessionHasController, DiscIsLive, ArmedOnlyInPass, RestInv, Keep, run,
       Request, Resolve, Staging, Flight, Pause, Pass

\* Phase 2 keeps the invariant and is within its rights, from phase 1 and from
\* itself.
LEMMA StageDiscKeeps ==
    ASSUME IInv, session.active, now < session.deadline, phase \in {Resolve, Staging},
           UNCHANGED <<now, discOn, fault, discs>>,
           controllers \subseteq controllers', controllers' \subseteq Controllers,
           NEW d \in discs, NEW until \in Nat, NEW cut \in BOOLEAN, NEW o \in Observations,
           StageDisc(d, until, cut, o)
    PROVE  IInv' /\ StepIsSafe
<1>1. wrote' \in {"none", "stage", "halt", "launch"}
  BY SMT DEF StageDisc, SetVelocity, StopQuietly
<1>2. StepIsSafe
  BY <1>1, SMT DEF StepIsSafe, IInv, TypeOK, SessionHasController, RestInv,
     Request, Resolve, Staging
<1>3. CASE Stopped
  <2>1. wrote' \in {"none", "halt"}
    BY <1>3, SMT DEF StageDisc, SetVelocity, StopQuietly, Stopped, Off, Enter, IInv, TypeOK
  <2> QED BY <1>2, <1>3, <2>1, StoppedKeeps DEF IInv, TypeOK
<1>4. CASE ~Stopped
  <2> USE DEF Request, Resolve, Staging, Flight, Pause, Pass
  <2>1. /\ trainingDisc' = d /\ cutShot' = cut
        /\ UNCHANGED <<session, trainingController>>
        /\ \/ phase' = Staging /\ phaseUntil' = until /\ armed' = FALSE /\ restUntil' = restUntil
           \/ phase' = Pass /\ phaseUntil' = now + FlightTime /\ armed' = TRUE /\ restUntil' = now + FlightTime
           \/ phase' = Flight /\ phaseUntil' = now + FlightTime /\ armed' = FALSE /\ restUntil' = now + FlightTime
    BY <1>4, SMT DEF StageDisc, StopQuietly, Enter
  <2>2. now + FlightTime \in Nat
    BY TimesAssumption, SMT DEF IInv, TypeOK
  <2>3. TypeOK'
    <3>1. wrote' \in {"none", "stage", "halt", "launch", "slap"}
      BY <1>1
    <3>2. /\ phase' \in {Request, Resolve, Staging, Flight, Pause, Pass}
          /\ phaseUntil' \in Nat /\ restUntil' \in Nat
      BY <2>1, <2>2, SMT DEF IInv, TypeOK
    <3>3. armed' \in BOOLEAN /\ cutShot' \in BOOLEAN
      BY <2>1
    <3>4. trainingDisc' \in Discs \cup {Null}
      BY <2>1 DEF IInv, TypeOK
    <3> QED BY <3>1, <3>2, <3>3, <3>4, <2>1 DEF IInv, TypeOK
  <2>4. RestInv'
    BY <2>1, SMT DEF IInv, TypeOK, RestInv
  <2>5. SessionHasController' /\ DiscIsLive' /\ ArmedOnlyInPass'
    BY <2>1, SMT DEF IInv, SessionHasController, DiscIsLive, ArmedOnlyInPass
  <2> QED BY <1>2, <2>3, <2>4, <2>5 DEF IInv
<1> QED BY <1>3, <1>4

----------------------------------------------------------------------------

\* One tick of a running session.
LEMMA WorkKeeps ==
    ASSUME IInv, session.active, now < session.deadline,
           UNCHANGED <<now, discOn, fault, discs>>,
           controllers \subseteq controllers', controllers' \subseteq Controllers,
           NEW o \in Observations, Work(o)
    PROVE  IInv' /\ StepIsSafe
<1> USE DEF Request, Resolve, Staging, Flight, Pause, Pass
<1>a. /\ now \in Nat /\ phaseUntil \in Nat /\ now \in 0 .. MaxNow
      /\ now + ResolveTime \in Nat /\ now + StageTime \in Nat
      /\ now + FlightTime \in Nat /\ now + PauseTime \in Nat
  BY TimesAssumption, SMT DEF IInv, TypeOK
<1>b. ASSUME wrote' \in {"none", "slap"} PROVE StepIsSafe
  BY <1>b, SMT DEF StepIsSafe, IInv, SessionHasController
<1>c. ASSUME StopQuietly PROVE IInv' /\ StepIsSafe
  BY <1>a, <1>b, <1>c, StoppedKeeps DEF StopQuietly, IInv, TypeOK
<1>d. ASSUME Keep PROVE IInv' /\ StepIsSafe
  <2>1. IInv'
    BY <1>a, <1>d, KeepKeeps, SMT DEF IInv, TypeOK
  <2> QED BY <1>b, <1>d, <2>1 DEF Keep
<1>2. CASE ResolveDisc(o)
  <2> DEFINE matches == o.resolved \cap discs
  <2>1. phase = Resolve
    BY <1>2 DEF ResolveDisc
  <2>2. CASE StopQuietly
    BY <2>2, <1>c
  <2>3. CASE Keep
    BY <2>3, <1>d
  <2>4. CASE \E d \in matches : /\ trainingDisc' = d /\ wrote' = "none"
                                /\ UNCHANGED <<session, trainingController, phase, phaseUntil,
                                               cutShot, armed, restUntil>>
    <3>1. IInv'
      BY <2>1, <2>4, SMT DEF IInv, TypeOK, SessionHasController, DiscIsLive, ArmedOnlyInPass, RestInv
    <3> QED BY <2>4, <3>1, <1>b
  <2>5. CASE \E d \in matches, cut \in BOOLEAN : StageDisc(d, now + StageTime, cut, o)
    BY <2>1, <2>5, <1>a, StageDiscKeeps
  <2> QED BY <1>2, <2>2, <2>3, <2>4, <2>5 DEF ResolveDisc
<1>3. CASE DiscLost(o)
  <2>1. IInv'
    BY <1>3, <1>a, SMT DEF DiscLost, IInv, TypeOK, SessionHasController, DiscIsLive,
       ArmedOnlyInPass, RestInv
  <2> QED BY <1>3, <1>b, <2>1 DEF DiscLost
<1>4. CASE trainingDisc \in discs /\ phase = Staging /\ StageDisc(trainingDisc, phaseUntil, cutShot, o)
  BY <1>4, <1>a, StageDiscKeeps DEF IInv, TypeOK
<1>5. CASE PassDisc(o)
  <2>1. CASE StopQuietly
    BY <2>1, <1>c
  <2>2. CASE Keep
    BY <2>2, <1>d
  <2>3. CASE ~StopQuietly /\ ~Keep
    <3>1. /\ UNCHANGED <<session, trainingController, trainingDisc, cutShot>>
          /\ armed' = FALSE
          /\ \/ phase' = Pause /\ phaseUntil' = now + PauseTime /\ restUntil' = now + PauseTime
             \/ phase' = Flight /\ phaseUntil' = now + FlightTime /\ restUntil' = now + FlightTime
      BY <1>5, <2>3 DEF PassDisc, Enter
    <3>2. wrote' \in {"none", "slap"}
      BY <1>5, <2>3, SMT DEF PassDisc, SetVelocity
    <3>3. TypeOK'
      <4>1. wrote' \in {"none", "stage", "halt", "launch", "slap"}
        BY <3>2
      <4>2. /\ phase' \in {Request, Resolve, Staging, Flight, Pause, Pass}
            /\ phaseUntil' \in Nat /\ restUntil' \in Nat
        BY <3>1, <1>a, SMT
      <4>3. armed' \in BOOLEAN
        BY <3>1
      <4> QED BY <3>1, <4>1, <4>2, <4>3 DEF IInv, TypeOK
    <3>4. SessionHasController' /\ DiscIsLive' /\ ArmedOnlyInPass' /\ RestInv'
      BY <3>1, <1>a, SMT DEF IInv, TypeOK, SessionHasController, DiscIsLive, ArmedOnlyInPass, RestInv
    <3> QED BY <3>2, <3>3, <3>4, <1>b DEF IInv
  <2> QED BY <2>1, <2>2, <2>3
<1>6. CASE EndFlight(o)
  <2>1. CASE Keep
    BY <2>1, <1>d
  <2>2. CASE ~Keep
    <3>1. /\ phase = Flight /\ phase' = Pause /\ wrote' = "none"
          /\ phaseUntil' = now + PauseTime /\ restUntil' = now + PauseTime
          /\ UNCHANGED <<session, trainingController, trainingDisc, cutShot, armed>>
      BY <1>6, <2>2 DEF EndFlight, Enter
    <3>2. IInv'
      BY <3>1, <1>a, SMT DEF IInv, TypeOK, SessionHasController, DiscIsLive,
         ArmedOnlyInPass, RestInv
    <3> QED BY <3>1, <3>2, <1>b
  <2> QED BY <2>1, <2>2
<1>7. CASE EndPause
  <2>1. CASE Keep
    BY <2>1, <1>d
  <2>2. CASE ~Keep
    <3>1. /\ phase = Pause /\ phase' = Request /\ wrote' = "none" /\ now >= phaseUntil
          /\ UNCHANGED <<session, trainingController, trainingDisc, phaseUntil, cutShot, armed, restUntil>>
      BY <1>7, <2>2 DEF EndPause
    <3>2. IInv'
      BY <3>1, <1>a, SMT DEF IInv, TypeOK, SessionHasController, DiscIsLive,
         ArmedOnlyInPass, RestInv
    <3> QED BY <3>1, <3>2, <1>b
  <2> QED BY <2>1, <2>2
<1> QED BY <1>2, <1>3, <1>4, <1>5, <1>6, <1>7 DEF Work

\* The request for a disc, whatever the game does to the scripts before it
\* returns: a session whose own scripts went away in it is over.
LEMMA AskForDiscKeeps ==
    ASSUME IInv, NEW c \in Controllers, AskForDisc(c), UNCHANGED <<now, discOn, fault>>
    PROVE  IInv' /\ wrote' = "none"
<1> USE DEF Request, Resolve, Staging, Flight, Pause, Pass
<1>1. /\ phase = Request /\ phase' = Resolve /\ phaseUntil' = now + ResolveTime
      /\ wrote' = "none" /\ cutShot' = cutShot
  BY DEF AskForDisc, Enter
<1>2. now + ResolveTime \in Nat
  BY TimesAssumption, SMT DEF IInv, TypeOK
<1>3. PICK gone \in SUBSET (controllers \cup {c} \cup discs), fresh \in SUBSET (Controllers \cup Discs) :
         /\ controllers' = ((controllers \cup {c}) \ gone) \cup (fresh \cap Controllers)
         /\ discs' = (discs \ gone) \cup (fresh \cap Discs)
         /\ IF {trainingController, trainingDisc} \cap gone # {}
            THEN /\ session' = Off
                 /\ trainingController' = Null /\ trainingDisc' = Null
                 /\ armed' = FALSE /\ restUntil' = 0
            ELSE UNCHANGED <<session, trainingController, trainingDisc, armed, restUntil>>
  BY DEF AskForDisc
<1>4. controllers' \subseteq Controllers /\ discs' \subseteq Discs
  BY <1>3 DEF IInv, TypeOK
<1>5. CASE {trainingController, trainingDisc} \cap gone # {}
  <2>1. /\ session' = Off /\ trainingController' = Null /\ trainingDisc' = Null
        /\ armed' = FALSE /\ restUntil' = 0
    BY <1>3, <1>5
  <2>2. TypeOK'
    <3>1. session' \in [active : BOOLEAN, deadline : Nat]
      BY <2>1 DEF Off
    <3>2. phaseUntil' \in Nat /\ restUntil' \in Nat
      BY <1>1, <1>2, <2>1
    <3> QED BY <1>1, <1>4, <2>1, <3>1, <3>2 DEF IInv, TypeOK
  <2>3. RestInv'
    BY <1>1, <2>1, SMT DEF IInv, TypeOK, RestInv
  <2> QED BY <1>1, <2>1, <2>2, <2>3 DEF Off, IInv, SessionHasController, DiscIsLive, ArmedOnlyInPass
<1>6. CASE {trainingController, trainingDisc} \cap gone = {}
  <2>1. UNCHANGED <<session, trainingController, trainingDisc, armed, restUntil>>
    BY <1>3, <1>6
  <2>2. /\ trainingController \in controllers => trainingController \in controllers'
        /\ trainingDisc \in discs => trainingDisc \in discs'
    BY <1>3, <1>6
  <2>3. TypeOK'
    BY <1>1, <1>2, <1>4, <2>1 DEF IInv, TypeOK
  <2>4. RestInv'
    BY <1>1, <2>1, SMT DEF IInv, TypeOK, RestInv
  <2> QED BY <1>1, <2>1, <2>2, <2>3, <2>4 DEF IInv, SessionHasController, DiscIsLive, ArmedOnlyInPass
<1> QED BY <1>1, <1>5, <1>6

----------------------------------------------------------------------------

\* Every step keeps the invariant, and what it writes it may write.
LEMMA NextIInv == IInv /\ [Next]_vars => IInv' /\ (Next => StepIsSafe)
<1> SUFFICES ASSUME IInv, [Next]_vars PROVE IInv' /\ (Next => StepIsSafe)
  OBVIOUS
<1> USE DEF Request, Resolve, Staging, Flight, Pause, Pass
<1>a. /\ now \in 0 .. MaxNow /\ discOn \in BOOLEAN /\ fault \in BOOLEAN
      /\ controllers \subseteq Controllers /\ discs \subseteq Discs
  BY DEF IInv, TypeOK
<1>b. ASSUME wrote' = "none" PROVE StepIsSafe
  BY <1>b DEF StepIsSafe
<1>1. ASSUME NEW c \in Controllers, ControllerUpdate(c) PROVE IInv' /\ StepIsSafe
  <2> USE <1>1 DEF ControllerUpdate
  <2>0. CASE AskForDisc(c)
    BY <2>0, AskForDiscKeeps, <1>b
  <2> SUFFICES ASSUME /\ controllers' = controllers \cup {c}
                      /\ IF session.active /\ c = trainingController THEN TrainerTick ELSE Keep
                      /\ UNCHANGED discs
               PROVE  IInv' /\ StepIsSafe
    BY <2>0
  <2>1. /\ controllers \subseteq controllers' /\ controllers' \subseteq Controllers
        /\ UNCHANGED <<now, discOn, fault, discs>>
    BY <1>a
  <2>2. CASE Keep
    <3>1. IInv'
      BY <2>1, <2>2, <1>a, KeepKeeps, SMT
    <3> QED BY <2>2, <3>1, <1>b DEF Keep
  <2>3. CASE StopQuietly
    BY <2>1, <2>3, <1>a, <1>b, StoppedKeeps DEF StopQuietly
  <2>4. ASSUME NEW allowed \in BOOLEAN, session.active, ~Expired(allowed),
               NEW o \in Observations, Work(o)
        PROVE  IInv' /\ StepIsSafe
    <3>1. now < session.deadline
      BY <2>4, <1>a, SMT DEF Expired, IInv, TypeOK
    <3> QED BY <2>1, <2>4, <3>1, WorkKeeps
  <2> QED BY <2>2, <2>3, <2>4 DEF TrainerTick
<1>2. ASSUME NEW d \in Discs, DiscUpdate(d) PROVE IInv' /\ StepIsSafe
  <2>1. IInv'
    BY <1>2, <1>a, KeepKeeps, SMT DEF DiscUpdate
  <2> QED BY <1>2, <2>1, <1>b DEF DiscUpdate, Keep
<1>3. ASSUME NEW ctx \in Controllers \cup Discs, ScriptDestroy(ctx) PROVE IInv' /\ StepIsSafe
  <2> USE <1>3 DEF ScriptDestroy
  <2>1. /\ controllers' = controllers \ {ctx} /\ discs' = discs \ {ctx}
        /\ UNCHANGED <<now, discOn, fault>>
    OBVIOUS
  <2>2. CASE StopQuietly
    BY <2>1, <2>2, <1>a, <1>b, StoppedKeeps DEF StopQuietly
  <2>3. CASE ctx \notin {trainingController, trainingDisc} /\ Keep
    <3>1. IInv'
      BY <2>1, <2>3, <1>a, SMT DEF Keep, run, IInv, TypeOK, SessionHasController, DiscIsLive,
         ArmedOnlyInPass, RestInv
    <3> QED BY <2>3, <3>1, <1>b DEF Keep
  <2> QED BY <2>2, <2>3
<1>4. ASSUME NEW allowed \in SUBSET Controllers, PressGoalie(allowed) PROVE IInv' /\ StepIsSafe
  <2> USE <1>4 DEF PressGoalie, world
  <2>1. CASE StopQuietly
    BY <2>1, <1>a, <1>b, StoppedKeeps DEF StopQuietly
  <2>2. CASE ~StopQuietly
    <3>1. /\ session' = [active |-> TRUE, deadline |-> now + SessionTime]
          /\ trainingController' \in controllers /\ discOn /\ ~fault /\ ~session.active
          /\ phase' = Request /\ wrote' = "none"
          /\ UNCHANGED <<trainingDisc, phaseUntil, cutShot, armed, restUntil>>
          /\ UNCHANGED world
      BY <2>2
    <3>2. now + SessionTime \in Nat
      BY <1>a, TimesAssumption, SMT
    <3>3. IInv'
      BY <3>1, <3>2, <1>a, SMT DEF IInv, TypeOK, SessionHasController, DiscIsLive,
         ArmedOnlyInPass, RestInv
    <3> QED BY <3>1, <3>3, <1>b
  <2> QED BY <2>1, <2>2
<1>5. ASSUME PressDisc PROVE IInv' /\ StepIsSafe
  <2> USE <1>5 DEF PressDisc
  <2>1. CASE discOn
    BY <2>1, <1>a, <1>b, StoppedKeeps DEF StopQuietly
  <2>2. CASE ~discOn
    <3>1. IInv'
      BY <2>2, <1>a, SMT DEF Keep, run, IInv, TypeOK, SessionHasController, DiscIsLive,
         ArmedOnlyInPass, RestInv
    <3> QED BY <2>2, <3>1, <1>b DEF Keep
  <2> QED BY <2>1, <2>2
<1>6. ASSUME RootUnloaded PROVE IInv' /\ StepIsSafe
  BY <1>6, <1>a, <1>b, StoppedKeeps DEF RootUnloaded, StopQuietly, world
<1>7. ASSUME Fail PROVE IInv' /\ StepIsSafe
  <2>1. IInv'
    BY <1>7, <1>a, SMT DEF Fail, Off, IInv, TypeOK, SessionHasController, DiscIsLive,
       ArmedOnlyInPass, RestInv
  <2> QED BY <1>7, <2>1, <1>b DEF Fail
<1>8. ASSUME Clock PROVE IInv' /\ StepIsSafe
  <2>1. now' \in 0 .. MaxNow /\ now <= now'
    BY <1>8, <1>a, TimesAssumption, SMT DEF Clock
  <2>2. IInv'
    BY <1>8, <2>1, <1>a, KeepKeeps DEF Clock
  <2> QED BY <1>8, <2>2, <1>b DEF Clock, Keep
<1>9. ASSUME UNCHANGED vars PROVE IInv'
  BY <1>9 DEF vars, IInv, TypeOK, SessionHasController, DiscIsLive, ArmedOnlyInPass, RestInv
<1> QED BY <1>1, <1>2, <1>3, <1>4, <1>5, <1>6, <1>7, <1>8, <1>9 DEF Next

\* The invariant holds in every state of the trainer, whatever its constants.
THEOREM Invariance == Spec => []IInv
<1>1. IInv /\ [Next]_vars => IInv'
  BY NextIInv
<1> QED BY InitIInv, <1>1, PTL DEF Spec

\* Types.
THEOREM TypeCorrect == Spec => []TypeOK
<1>1. IInv => TypeOK
  BY DEF IInv
<1> QED BY Invariance, <1>1, PTL

\* A session always has its live controller (stop(), fail(), scriptDestroy()).
THEOREM ControllerIsLive == Spec => []SessionHasController
<1>1. IInv => SessionHasController
  BY DEF IInv
<1> QED BY Invariance, <1>1, PTL

\* The trainer never keeps a destroyed disc (scriptDestroy(), trainerTick()).
THEOREM DiscNeverDangles == Spec => []DiscIsLive
<1>1. IInv => DiscIsLive
  BY DEF IInv
<1> QED BY Invariance, <1>1, PTL

\* The redirect is armed only during a pass (cut_redirect.h).
THEOREM SlapOnlyInPass == Spec => []ArmedOnlyInPass
<1>1. IInv => ArmedOnlyInPass
  BY DEF IInv
<1> QED BY Invariance, <1>1, PTL

\* A shot in flight and its pause are never staged over (trainerTick()).
THEOREM NeverOverwritesFlight == Spec => FlightUntouched
<1>1. IInv /\ [Next]_vars => [wrote' \in {"stage", "halt"} => now >= restUntil]_vars
  BY NextIInv DEF StepIsSafe
<1> QED BY Invariance, <1>1, PTL DEF Spec, FlightUntouched

\* No velocity is written outside a session (trainerTick(), setVelocity()).
THEOREM NeverWritesOutsideSession == Spec => WritesInsideSession
<1>1. IInv /\ [Next]_vars =>
        [wrote' # "none" => /\ session.active /\ now < session.deadline
                            /\ discOn /\ ~fault
                            /\ trainingController \in controllers]_vars
  BY NextIInv DEF StepIsSafe
<1> QED BY Invariance, <1>1, PTL DEF Spec, WritesInsideSession
====
