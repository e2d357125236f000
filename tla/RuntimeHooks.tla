---- MODULE RuntimeHooks ----
(***************************************************************************)
(* How the trainer gets into the game: three wrapper DLLs stand in for     *)
(* Echo's own scripts (wrapper.cpp), delegate to the preserved original    *)
(* and then call BindTrainer of the runtime, which installs its hooks once *)
(* and for all (runtime.cpp: initialize, hook, BindTrainer).  The hooked   *)
(* functions run on threads of the game: script updates and destroys,      *)
(* button dispatch.  They share the tracked script contexts and one        *)
(* recursive lock.                                                         *)
(*                                                                         *)
(* A level transition may load, set up and free a wrapper again; a free    *)
(* that leaves hooks without their code ends the game and the behaviour.   *)
(***************************************************************************)
EXTENDS Sequences, FiniteSets

CONSTANTS Threads,
          ControllerScripts, DiscScripts,  \* addresses of script contexts
          DoomEnabled,                     \* the build flag DOOM_ENABLED
          None

Kinds == {"controller", "disc", "tablet"}
Scripts == ControllerScripts \cup DiscScripts

ASSUME ScriptsAssumption == ControllerScripts \cap DiscScripts = {} /\ Scripts \cap Kinds = {}
ASSUME NoneAssumption == None \notin Threads \cup Scripts \cup Kinds
ASSUME DoomAssumption == DoomEnabled \in BOOLEAN

VARIABLES initialized, fault,
          session,             \* session.active
          bound,               \* kinds whose scripts[kind].module is set
          pinned,              \* the runtime can no longer be freed
          tracked,             \* controllers and discs of runtime.cpp
          lock, leaked,        \* owner; an owner that forgot to let go
          pc, arg,             \* per thread: where it is and with what
          left,                \* hooks the binding thread has still to install
          hooks,               \* enabled hooks
          wrappers, live,      \* loaded wrappers, script contexts that exist
          updated, touched     \* history: see Discovered and StaleNeverTouched

runtime == <<initialized, fault, session, bound, pinned, tracked>>
locking == <<lock, leaked>>
game == <<wrappers, live>>
vars == <<initialized, fault, session, bound, pinned, tracked, lock, leaked, pc, arg, left,
          hooks, wrappers, live, updated, touched>>

KindOf(s) == IF s \in ControllerScripts THEN "controller" ELSE "disc"

HookName == {"loaded", "unload", "dispatch", "button", "canvasRender", "elementsRender",
             "allowed", "update", "destroy"}

\* What initialize() hooks in the executable, and BindTrainer in a script.
CoreHooks ==
    << <<"loaded", "tablet">>, <<"unload", "tablet">>, <<"dispatch", "tablet">>, <<"button", "tablet">> >>
    \o IF DoomEnabled THEN << <<"canvasRender", "tablet">>, <<"elementsRender", "tablet">> >> ELSE <<>>

\* Bug variant of ScriptHooks: the disc's contexts are never discovered.
ScriptHooksNoDisc(kind) ==
    IF kind # "controller" THEN <<>>
    ELSE << <<"allowed", kind>>, <<"update", kind>>, <<"destroy", kind>> >>

ScriptHooks(kind) ==
    IF kind = "tablet" THEN <<>>
    ELSE << <<"allowed", kind>>, <<"update", kind>>, <<"destroy", kind>> >>

Places == {"idle", "setup", "bind", "update", "destroy", "destroying", "press"}

Init == /\ initialized = FALSE /\ fault = FALSE /\ session = FALSE
        /\ bound = {} /\ pinned = FALSE /\ tracked = {}
        /\ lock = None /\ leaked = FALSE
        /\ pc = [t \in Threads |-> "idle"] /\ arg = [t \in Threads |-> None]
        /\ left = <<>> /\ hooks = {}
        /\ wrappers = {} /\ live = {}
        /\ updated = {} /\ touched = {}

----------------------------------------------------------------------------
(* Helpers *)

InMemory == wrappers # {} \/ pinned
\* Hooks, or threads on their way through one, whose code is gone: the game
\* ends, and with it every step below.
Crashed == ~InMemory /\ (hooks # {} \/ \E t \in Threads : pc[t] # "idle")
Hooked(what, s) == <<what, KindOf(s)>> \in hooks
\* Bug variant of Free: no lock_guard.
FreeAlways(t) == TRUE
\* The lock is recursive: its owner may take it again.
Free(t) == lock \in {None, t}
Busy(s) == \E t \in Threads : arg[t] = s

Goto(t, place, what) == pc' = [pc EXCEPT ![t] = place] /\ arg' = [arg EXCEPT ![t] = what]

\* Bug variant of Fails: the session goes on.
FailsAlone == fault' = TRUE /\ UNCHANGED session
\* fail(): the session and, through `fault`, everything the tablet starts.
Fails == fault' = TRUE /\ session' = FALSE

\* No script context is looked at.
Quiet == touched' = {} /\ UNCHANGED updated

----------------------------------------------------------------------------
(* setup_bindings() and BindTrainer() *)

\* The loader calls the wrapper's export, the first time or again: the
\* original fills the table, then BindTrainer waits for the lock.  (An original
\* that is missing terminates the process.)
Setup(t, kind) ==
    /\ ~Crashed /\ pc[t] = "idle"
    /\ wrappers' = wrappers \cup {kind}
    /\ Goto(t, "setup", kind)
    /\ Quiet /\ UNCHANGED <<runtime, locking, left, hooks, live>>

Returns(t) == Goto(t, "idle", None) /\ left' = <<>>
Unlock(t) == lock' = (IF leaked THEN t ELSE None) /\ UNCHANGED leaked

\* A version, a signature or MinHook is not as expected: nothing is hooked.
Refused(t) ==
    /\ initialized' = TRUE /\ Fails /\ Returns(t)
    /\ UNCHANGED <<locking, bound, hooks, pinned>>

EnterBind(t) ==
    /\ pc[t] = "setup" /\ Free(t)
    /\ \/ /\ initialized /\ (fault \/ arg[t] \in bound)
          /\ Returns(t)
          /\ UNCHANGED <<initialized, fault, session, bound, hooks, pinned, locking>>
       \/ ~initialized /\ Refused(t)
       \/ /\ ~(initialized /\ (fault \/ arg[t] \in bound))
          /\ initialized' = TRUE
          /\ left' = IF initialized THEN <<>> ELSE CoreHooks
          /\ Goto(t, "bind", arg[t])
          /\ lock' = t
          /\ UNCHANGED <<fault, session, bound, hooks, pinned, leaked>>
    /\ Quiet /\ UNCHANGED <<tracked, game>>

\* hook(): create and enable, or fail() and give up: initialize() then
\* disables what it has hooked, BindTrainer leaves everything as it is.
InstallHook(t) ==
    /\ pc[t] = "bind" /\ left # <<>>
    /\ \/ /\ hooks' = hooks \cup {Head(left)}
          /\ left' = Tail(left)
          /\ UNCHANGED <<fault, session, pc, arg, locking>>
       \/ /\ hooks' = IF arg[t] \in bound THEN hooks ELSE {}
          /\ Fails /\ Returns(t) /\ Unlock(t)
    /\ Quiet /\ UNCHANGED <<initialized, bound, pinned, tracked, game>>

\* The script is marked as bound first; a guard that differs is a fault.
BindScript(t) ==
    /\ pc[t] = "bind" /\ left = <<>> /\ arg[t] \notin bound
    /\ bound' = bound \cup {arg[t]}
    /\ \/ /\ left' = ScriptHooks(arg[t])
          /\ UNCHANGED <<fault, session, pc, arg, locking>>
       \/ /\ arg[t] # "tablet"
          /\ Fails /\ Returns(t) /\ Unlock(t)
    /\ Quiet /\ UNCHANGED <<initialized, hooks, pinned, tracked, game>>

\* Bug variant of Pin: only for the scripts.
PinScripts(t) ==
    /\ pc[t] = "bind" /\ left = <<>> /\ arg[t] \in bound
    /\ pinned' = (pinned \/ arg[t] # "tablet")
    /\ Returns(t) /\ Unlock(t)
    /\ Quiet /\ UNCHANGED <<initialized, fault, session, bound, hooks, tracked, game>>

\* The last line: only a complete binding pins the runtime.
Pin(t) ==
    /\ pc[t] = "bind" /\ left = <<>> /\ arg[t] \in bound
    /\ pinned' = TRUE
    /\ Returns(t) /\ Unlock(t)
    /\ Quiet /\ UNCHANGED <<initialized, fault, session, bound, hooks, tracked, game>>

----------------------------------------------------------------------------
(* The hooked functions *)

\* A binding of this kind has ended well.
Complete(kind) == ~fault /\ kind \in bound /\ \A t \in Threads : ~(pc[t] = "bind" /\ arg[t] = kind)

\* scriptUpdate(): the original runs first, then safeUpdate waits for the lock;
\* without the hook the original is all there is.
Update(t, s) ==
    /\ pc[t] = "idle" /\ s \in live /\ ~Busy(s)
    /\ IF Hooked("update", s)
       THEN Goto(t, "update", s) /\ UNCHANGED updated
       ELSE /\ updated' = IF Complete(KindOf(s)) THEN updated \cup {s} ELSE updated
            /\ UNCHANGED <<pc, arg>>
    /\ touched' = {}
    /\ UNCHANGED <<runtime, locking, left, hooks, game>>

\* updateScript(): the context is tracked; a controller's update runs the
\* trainer, which reads every disc it knows and may end the session.
UpdateBody(t) ==
    /\ pc[t] = "update" /\ Free(t)
    /\ LET s == arg[t]
           ticks == session /\ KindOf(s) = "controller"
       IN /\ tracked' = tracked \cup {s}
          /\ updated' = updated \cup {s}
          /\ touched' = IF ticks THEN tracked' \cap DiscScripts ELSE {}
          /\ \/ /\ session' \in (IF ticks THEN BOOLEAN ELSE {session})
                /\ UNCHANGED <<fault, locking>>
             \* An access fault: __except calls fail(), and /EHsc does not
             \* promise that the lock_guard was unwound.
             \/ /\ Fails
                /\ \/ UNCHANGED locking
                   \/ lock' = t /\ leaked' = TRUE
    /\ Goto(t, "idle", None)
    /\ UNCHANGED <<initialized, bound, pinned, left, hooks, game>>

\* scriptDestroy(): forget the context, then destroy it.
Destroy(t, s) ==
    /\ pc[t] = "idle" /\ s \in live /\ ~Busy(s)
    /\ Goto(t, IF Hooked("destroy", s) THEN "destroy" ELSE "destroying", s)
    /\ Quiet /\ UNCHANGED <<runtime, locking, left, hooks, game>>

\* Stopping is the trainer's business when the context is its own.
Forget(t) ==
    /\ pc[t] = "destroy" /\ Free(t)
    /\ tracked' = tracked \ {arg[t]}
    /\ session' \in {session, FALSE}
    /\ Goto(t, "destroying", arg[t])
    /\ Quiet /\ UNCHANGED <<initialized, fault, bound, pinned, locking, left, hooks, game>>

Destroyed(t) ==
    /\ pc[t] = "destroying"
    /\ live' = live \ {arg[t]}
    /\ updated' = updated \ {arg[t]}
    /\ touched' = {}
    /\ Goto(t, "idle", None)
    /\ UNCHANGED <<runtime, locking, left, hooks, wrappers>>

\* dispatch(): a press on GOALIE looks at every controller it knows; nothing
\* is looked at or started after a fault.
Press(t) ==
    /\ InMemory /\ pc[t] = "idle" /\ <<"dispatch", "tablet">> \in hooks
    /\ Goto(t, "press", None)
    /\ Quiet /\ UNCHANGED <<runtime, locking, left, hooks, game>>

PressBody(t) ==
    /\ InMemory /\ pc[t] = "press" /\ Free(t)
    /\ IF fault THEN touched' = {} /\ UNCHANGED session
       ELSE /\ touched' = IF session THEN {} ELSE tracked \cap ControllerScripts
            /\ session' \in (IF session \/ touched' = {} THEN {FALSE} ELSE BOOLEAN)
    /\ Goto(t, "idle", None)
    /\ UNCHANGED <<initialized, fault, bound, pinned, tracked, locking, left, hooks, game, updated>>

\* gate() of the button hook finds masks it did not expect.
GateFails(t) ==
    /\ InMemory /\ pc[t] = "idle" /\ <<"button", "tablet">> \in hooks /\ Free(t)
    /\ Fails
    /\ Quiet /\ UNCHANGED <<initialized, bound, pinned, tracked, locking, pc, arg, left, hooks, game>>

----------------------------------------------------------------------------
(* The game *)

Create(s) ==
    /\ KindOf(s) \in wrappers
    /\ live' = live \cup {s}
    /\ s \notin live
    /\ Quiet /\ UNCHANGED <<runtime, locking, pc, arg, left, hooks, wrappers>>

\* The last wrapper takes an unpinned runtime and its globals with it.
FreeWrapper(kind) ==
    /\ kind \in wrappers
    /\ \A s \in live : KindOf(s) # kind
    /\ \A t \in Threads : arg[t] # kind
    /\ wrappers' = wrappers \ {kind}
    /\ IF wrappers = {kind} /\ ~pinned /\ hooks = {} /\ \A t \in Threads : pc[t] = "idle"
       THEN /\ initialized' = FALSE /\ fault' = FALSE /\ session' = FALSE /\ bound' = {}
            /\ tracked' = {} /\ lock' = None /\ leaked' = FALSE
            /\ UNCHANGED pinned
       ELSE UNCHANGED <<runtime, locking>>
    /\ Quiet /\ UNCHANGED <<pc, arg, left, hooks, live>>

Next == \/ \E t \in Threads, kind \in Kinds : Setup(t, kind)
        \/ \E t \in Threads : EnterBind(t) \/ InstallHook(t) \/ BindScript(t) \/ Pin(t)
        \/ \E t \in Threads, s \in Scripts : Update(t, s) \/ Destroy(t, s)
        \/ \E t \in Threads : UpdateBody(t) \/ Forget(t) \/ Destroyed(t)
        \/ \E t \in Threads : Press(t) \/ PressBody(t) \/ GateFails(t)
        \/ \E s \in Scripts : Create(s)
        \/ \E kind \in Kinds : FreeWrapper(kind)

Spec == Init /\ [][Next]_vars

----------------------------------------------------------------------------
(* Properties *)

FlagsOK == /\ initialized \in BOOLEAN /\ fault \in BOOLEAN /\ session \in BOOLEAN
           /\ pinned \in BOOLEAN /\ leaked \in BOOLEAN

NamesOK ==
    /\ bound \subseteq Kinds /\ wrappers \subseteq Kinds
    /\ tracked \subseteq Scripts /\ live \subseteq Scripts
    /\ updated \subseteq live /\ touched \subseteq Scripts
    /\ lock \in Threads \cup {None}
    /\ pc \in [Threads -> Places]
    /\ \A t \in Threads : pc[t] = "bind" => lock = t
    /\ arg \in [Threads -> Kinds \cup Scripts \cup {None}]
    /\ left \in Seq(HookName \X Kinds)

TypeOK == FlagsOK /\ NamesOK

\* What the trainer looks at exists: a press on GOALIE and a trainer tick reach
\* only script contexts that have not been destroyed, also when a destroy hook
\* could not be installed or a fault left contexts behind.
StaleNeverTouched == touched \subseteq live

\* The runtime stays in memory as long as the game can reach its hooks: the
\* wrappers may all be freed, but only after a binding that pinned it.  Not so
\* after a fault: the binding that failed last may be the one that would have.
HooksStayLoaded == ~fault => ~Crashed

\* runtime.cpp:571 "Hook the actual functions once so every table, including
\* later ones, discovers and invalidates live instances": a script updated
\* since its kind was bound is known to the trainer until it is destroyed.
Discovered ==
    ~fault => updated \ {s \in Scripts : \E t \in Threads : arg[t] = s} \subseteq tracked
====
