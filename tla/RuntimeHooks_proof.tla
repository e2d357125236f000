---- MODULE RuntimeHooks_proof ----
(***************************************************************************)
(* The hooks and the tracked scripts, for any number of threads of the     *)
(* game and any number of script contexts.                                 *)
(***************************************************************************)
EXTENDS RuntimeHooks, TLAPS

Binds(t) == pc[t] = "bind"
CoreNames == {"loaded", "unload", "dispatch", "button", "canvasRender", "elementsRender"}

\* What a thread holds: a call of the loader holds its wrapper, a call of the
\* game its script, and no two calls the same script.
ThreadInv ==
    /\ \A t \in Threads : pc[t] \in {"setup", "bind"} => arg[t] \in wrappers
    /\ \A t \in Threads : pc[t] \in {"update", "destroy", "destroying"} => arg[t] \in live
    /\ \A t \in Threads : pc[t] \in {"idle", "press"} => arg[t] = None
    /\ \A t, u \in Threads : arg[t] \in Scripts /\ arg[u] = arg[t] => t = u
    /\ \A s \in live : KindOf(s) \in wrappers

\* The lock is held by a binding, or for ever after a fault.
LockInv ==
    /\ leaked => fault
    /\ lock # None => leaked \/ Binds(lock)

\* How far a binding has come: what it has still to do, and what it has done.
\* The destroy hook is the last one.
BindInv ==
    /\ bound # {} \/ (\E t \in Threads : Binds(t)) => initialized
    /\ \A t \in Threads : Binds(t) =>
          /\ arg[t] \notin bound => \A i \in DOMAIN left : left[i][1] \in CoreNames
          /\ arg[t] \in bound =>
                LET k == arg[t]
                IN k # "tablet" => \/ left = ScriptHooks(k)
                                   \/ left = << <<"update", k>>, <<"destroy", k>> >>
                                   \/ left = << <<"destroy", k>> >> /\ <<"update", k>> \in hooks
                                   \/ left = <<>> /\ {<<"update", k>>, <<"destroy", k>>} \subseteq hooks
          /\ arg[t] = "tablet" => \A i \in DOMAIN left : left[i][1] \in CoreNames
    /\ \A k \in {"controller", "disc"} :
          /\ k \in bound =>
                \/ {<<"update", k>>, <<"destroy", k>>} \subseteq hooks
                \/ \E t \in Threads : Binds(t) /\ arg[t] = k
          /\ <<"update", k>> \in hooks => k \in bound
    /\ hooks # {} => pinned \/ \E t \in Threads : Binds(t)

\* What is tracked exists and will be forgotten in time.
TrackInv ==
    /\ tracked \subseteq live
    /\ \A t \in Threads : pc[t] = "destroying" => arg[t] \notin tracked
    /\ \A s \in tracked : Hooked("destroy", s)
    /\ \A t \in Threads : pc[t] = "update" => Hooked("update", arg[t])
    /\ \A t \in Threads : pc[t] = "press" => hooks # {}

IInv ==
    /\ TypeOK /\ StaleNeverTouched
    /\ ThreadInv /\ LockInv
    /\ fault => ~session
    /\ ~fault => BindInv /\ TrackInv /\ Discovered

Base == TypeOK /\ ThreadInv /\ LockInv

----------------------------------------------------------------------------
(* The hooks to install *)

LEMMA CoreHooksAreCore ==
    /\ CoreHooks \in Seq(HookName \X Kinds)
    /\ \A i \in DOMAIN CoreHooks : CoreHooks[i][1] \in CoreNames
<1>1. CASE DoomEnabled
  BY <1>1, SMT DEF CoreHooks, HookName, Kinds, CoreNames
<1>2. CASE ~DoomEnabled
  BY <1>2, SMT DEF CoreHooks, HookName, Kinds, CoreNames
<1> QED BY <1>1, <1>2

LEMMA UnlockFrees ==
    ASSUME NEW t, Unlock(t)
    PROVE  lock' \in {t, None} /\ (~leaked => lock' = None) /\ leaked' = leaked
<1>1. CASE leaked
  BY <1>1 DEF Unlock
<1>2. CASE ~leaked
  BY <1>2 DEF Unlock
<1> QED BY <1>1, <1>2

LEMMA RestType ==
    ASSUME NEW S, NEW q \in Seq(S), q # <<>>
    PROVE  Tail(q) \in Seq(S) /\ <<>> \in Seq(S)
OBVIOUS

LEMMA ScriptHooksType ==
    ASSUME NEW kind \in Kinds
    PROVE  ScriptHooks(kind) \in Seq(HookName \X Kinds)
<1>1. <<>> \in Seq(HookName \X Kinds)
  OBVIOUS
<1>2. << <<"allowed", kind>>, <<"update", kind>>, <<"destroy", kind>> >> \in Seq(HookName \X Kinds)
  BY SMT DEF HookName
<1> QED BY <1>1, <1>2 DEF ScriptHooks

----------------------------------------------------------------------------
(* Types, threads and the lock *)

LEMMA InitBase == Init => Base
<1> SUFFICES ASSUME Init PROVE Base
  OBVIOUS
<1> USE NoneAssumption DEF Init
<1>1. FlagsOK
  BY DEF FlagsOK
<1>2. NamesOK
  BY SMT DEF NamesOK, Places
<1>3. ThreadInv /\ LockInv
  BY SMT DEF ThreadInv, LockInv, Places
<1> QED BY <1>1, <1>2, <1>3 DEF Base, TypeOK

LEMMA BaseStep == Base /\ [Next]_vars => Base'
<1> SUFFICES ASSUME Base, [Next]_vars PROVE Base'
  OBVIOUS
<1> USE ScriptsAssumption, NoneAssumption
<1> USE DEF Base, runtime, locking, game, Quiet, Goto, Free, Binds
<1>1. ASSUME NEW t \in Threads, NEW kind \in Kinds, Setup(t, kind) PROVE Base'
  <2> USE <1>1 DEF Setup
  <2>1. FlagsOK'
    BY DEF TypeOK, FlagsOK
  <2>1n. NamesOK'
    BY SMT DEF TypeOK, NamesOK, Places
  <2>2. ThreadInv'
    BY SMT DEF TypeOK, NamesOK, ThreadInv
  <2>3. LockInv'
    BY SMT DEF TypeOK, NamesOK, LockInv
  <2> QED BY <2>1, <2>1n, <2>2, <2>3 DEF TypeOK
<1>2. ASSUME NEW t \in Threads, EnterBind(t) PROVE Base'
  <2> USE <1>2 DEF EnterBind
  <2>a. left' \in Seq(HookName \X Kinds)
    <3>1. left' \in {<<>>, CoreHooks}
      BY DEF Refused, Returns
    <3>2. <<>> \in Seq(HookName \X Kinds)
      OBVIOUS
    <3> QED BY <3>1, <3>2, CoreHooksAreCore
  <2>b. /\ pc[t] = "setup" /\ lock \in {None, t}
        /\ \/ pc' = [pc EXCEPT ![t] = "idle"] /\ arg' = [arg EXCEPT ![t] = None] /\ lock' = lock
           \/ pc' = [pc EXCEPT ![t] = "bind"] /\ arg' = [arg EXCEPT ![t] = arg[t]] /\ lock' = t
        /\ leaked' = leaked /\ (fault => fault') /\ touched' = {}
        /\ UNCHANGED <<updated, tracked, wrappers, live>>
        /\ bound' = bound
    BY DEF Refused, Returns, Fails
  <2>1. FlagsOK'
    BY DEF TypeOK, FlagsOK, Refused, Returns, Fails
  <2>1n. NamesOK'
    BY <2>a, <2>b, SMT DEF TypeOK, NamesOK, Places
  <2>2. ThreadInv'
    BY <2>b, SMT DEF TypeOK, NamesOK, ThreadInv
  <2>3. LockInv'
    BY <2>b, SMT DEF TypeOK, NamesOK, LockInv
  <2> QED BY <2>1, <2>1n, <2>2, <2>3 DEF TypeOK
<1>3. ASSUME NEW t \in Threads, InstallHook(t) PROVE Base'
  <2>a. left' \in Seq(HookName \X Kinds)
    <3>1. left \in Seq(HookName \X Kinds) /\ left # <<>>
      BY <1>3 DEF InstallHook, TypeOK, NamesOK
    <3>2. left' = Tail(left) \/ left' = <<>>
      BY <1>3 DEF InstallHook, Returns
    <3> QED BY <3>1, <3>2, RestType
  <2>b. /\ pc[t] = "bind"
        /\ \/ UNCHANGED <<pc, arg, lock>>
           \/ /\ pc' = [pc EXCEPT ![t] = "idle"] /\ arg' = [arg EXCEPT ![t] = None]
              /\ lock' \in {t, None} /\ (~leaked => lock' = None)
        /\ leaked' = leaked /\ (fault => fault') /\ touched' = {}
        /\ UNCHANGED <<updated, tracked, wrappers, live, bound>>
    BY <1>3, UnlockFrees DEF InstallHook, Returns, Fails
  <2>1. FlagsOK'
    BY <1>3 DEF InstallHook, TypeOK, FlagsOK, Returns, Unlock, Fails
  <2>1n. NamesOK'
    <3>1. /\ bound' \subseteq Kinds /\ wrappers' \subseteq Kinds
          /\ tracked' \subseteq Scripts /\ live' \subseteq Scripts
          /\ updated' \subseteq live' /\ touched' \subseteq Scripts
      BY <2>b DEF TypeOK, NamesOK
    <3>2. /\ lock' \in Threads \cup {None}
          /\ pc' \in [Threads -> Places]
          /\ \A u \in Threads : pc'[u] = "bind" => lock' = u
          /\ arg' \in [Threads -> Kinds \cup Scripts \cup {None}]
      <4>1. CASE UNCHANGED <<pc, arg, lock>>
        BY <4>1, SMT DEF TypeOK, NamesOK
      <4>2. CASE /\ pc' = [pc EXCEPT ![t] = "idle"] /\ arg' = [arg EXCEPT ![t] = None]
                 /\ lock' \in {t, None}
        BY <2>b, <4>2, SMT DEF TypeOK, NamesOK, Places
      <4> QED BY <2>b, <4>1, <4>2
    <3> QED BY <2>a, <3>1, <3>2 DEF NamesOK
  <2>2. ThreadInv'
    BY <2>b, SMT DEF TypeOK, NamesOK, ThreadInv
  <2>3. LockInv'
    BY <2>b, SMT DEF TypeOK, NamesOK, LockInv
  <2> QED BY <2>1, <2>1n, <2>2, <2>3 DEF TypeOK
<1>4. ASSUME NEW t \in Threads, BindScript(t) PROVE Base'
  <2> USE <1>4 DEF BindScript
  <2>0. arg[t] \in Kinds
    BY SMT DEF TypeOK, NamesOK, ThreadInv
  <2>a. left' \in Seq(HookName \X Kinds)
    <3>1. left' \in {<<>>, ScriptHooks(arg[t])}
      BY DEF Returns
    <3>2. <<>> \in Seq(HookName \X Kinds)
      OBVIOUS
    <3> QED BY <2>0, <3>1, <3>2, ScriptHooksType
  <2>b. /\ pc[t] = "bind" /\ bound' = bound \cup {arg[t]}
        /\ \/ UNCHANGED <<pc, arg, lock>>
           \/ /\ pc' = [pc EXCEPT ![t] = "idle"] /\ arg' = [arg EXCEPT ![t] = None]
              /\ lock' \in {t, None} /\ (~leaked => lock' = None)
        /\ leaked' = leaked /\ (fault => fault') /\ touched' = {}
        /\ UNCHANGED <<updated, tracked, wrappers, live>>
    BY UnlockFrees DEF Returns, Fails
  <2>1. FlagsOK'
    BY DEF TypeOK, FlagsOK, Returns, Unlock, Fails
  <2>1n. NamesOK'
    BY <2>0, <2>a, <2>b, SMT DEF TypeOK, NamesOK, Places
  <2>2. ThreadInv'
    BY <2>b, SMT DEF TypeOK, NamesOK, ThreadInv
  <2>3. LockInv'
    BY <2>b, SMT DEF TypeOK, NamesOK, LockInv
  <2> QED BY <2>1, <2>1n, <2>2, <2>3 DEF TypeOK
<1>5. ASSUME NEW t \in Threads, Pin(t) PROVE Base'
  <2> USE <1>5 DEF Pin, Returns, Unlock
  <2>1. FlagsOK'
    BY DEF TypeOK, FlagsOK
  <2>1n. NamesOK'
    BY SMT DEF TypeOK, NamesOK, Places
  <2>2. ThreadInv'
    BY SMT DEF TypeOK, NamesOK, ThreadInv
  <2>3. LockInv'
    BY SMT DEF TypeOK, NamesOK, LockInv
  <2> QED BY <2>1, <2>1n, <2>2, <2>3 DEF TypeOK
<1>6. ASSUME NEW t \in Threads, NEW s \in Scripts, Update(t, s) PROVE Base'
  <2> USE <1>6 DEF Update, Busy
  <2>1. FlagsOK'
    BY DEF TypeOK, FlagsOK
  <2>1n. NamesOK'
    BY SMT DEF TypeOK, NamesOK, Places
  <2>2. ThreadInv'
    BY SMT DEF TypeOK, NamesOK, ThreadInv
  <2>3. LockInv'
    BY SMT DEF TypeOK, NamesOK, LockInv
  <2> QED BY <2>1, <2>1n, <2>2, <2>3 DEF TypeOK
<1>7. ASSUME NEW t \in Threads, NEW s \in Scripts, Destroy(t, s) PROVE Base'
  <2> USE <1>7 DEF Destroy, Busy
  <2>1. FlagsOK'
    BY DEF TypeOK, FlagsOK
  <2>1n. NamesOK'
    BY SMT DEF TypeOK, NamesOK, Places
  <2>2. ThreadInv'
    BY SMT DEF TypeOK, NamesOK, ThreadInv
  <2>3. LockInv'
    BY SMT DEF TypeOK, NamesOK, LockInv
  <2> QED BY <2>1, <2>1n, <2>2, <2>3 DEF TypeOK
<1>8. ASSUME NEW t \in Threads, UpdateBody(t) PROVE Base'
  <2> USE <1>8 DEF UpdateBody, Fails
  <2>0. arg[t] \in live
    BY DEF ThreadInv
  <2>1. FlagsOK'
    BY DEF TypeOK, FlagsOK
  <2>1n. NamesOK'
    BY <2>0, SMT DEF TypeOK, NamesOK, Places, Scripts
  <2>2. ThreadInv'
    BY SMT DEF TypeOK, NamesOK, ThreadInv
  <2>3. LockInv'
    BY SMT DEF TypeOK, NamesOK, LockInv
  <2> QED BY <2>1, <2>1n, <2>2, <2>3 DEF TypeOK
<1>9. ASSUME NEW t \in Threads, Forget(t) PROVE Base'
  <2> USE <1>9 DEF Forget
  <2>1. FlagsOK'
    BY DEF TypeOK, FlagsOK
  <2>1n. NamesOK'
    BY SMT DEF TypeOK, NamesOK, Places
  <2>2. ThreadInv'
    BY SMT DEF TypeOK, NamesOK, ThreadInv
  <2>3. LockInv'
    BY SMT DEF TypeOK, NamesOK, LockInv
  <2> QED BY <2>1, <2>1n, <2>2, <2>3 DEF TypeOK
<1>10. ASSUME NEW t \in Threads, Destroyed(t) PROVE Base'
  <2> USE <1>10 DEF Destroyed
  <2>1. FlagsOK'
    BY DEF TypeOK, FlagsOK
  <2>1n. NamesOK'
    BY SMT DEF TypeOK, NamesOK, Places
  <2>2. ThreadInv'
    BY SMT DEF TypeOK, NamesOK, ThreadInv
  <2>3. LockInv'
    BY SMT DEF TypeOK, NamesOK, LockInv
  <2> QED BY <2>1, <2>1n, <2>2, <2>3 DEF TypeOK
<1>11. ASSUME NEW t \in Threads, Press(t) \/ PressBody(t) \/ GateFails(t) PROVE Base'
  <2>a. touched' \in SUBSET Scripts
    BY <1>11 DEF Press, PressBody, GateFails, Scripts
  <2>b. /\ \/ pc[t] = "idle" /\ pc' = [pc EXCEPT ![t] = "press"] /\ arg' = [arg EXCEPT ![t] = None]
           \/ pc[t] = "press" /\ pc' = [pc EXCEPT ![t] = "idle"] /\ arg' = [arg EXCEPT ![t] = None]
           \/ UNCHANGED <<pc, arg>>
        /\ UNCHANGED <<lock, leaked, left, updated, tracked, wrappers, live, bound>>
        /\ fault => fault'
    <3>1. CASE Press(t)
      BY <3>1 DEF Press
    <3>2. CASE PressBody(t)
      BY <3>2 DEF PressBody
    <3>3. CASE GateFails(t)
      BY <3>3 DEF GateFails, Fails
    <3> QED BY <1>11, <3>1, <3>2, <3>3
  <2>1. FlagsOK'
    <3>1. CASE Press(t) \/ GateFails(t)
      BY <3>1 DEF TypeOK, FlagsOK, Press, GateFails, Fails
    <3>2. CASE PressBody(t)
      <4>1. session' \in BOOLEAN
        BY <3>2 DEF PressBody, TypeOK, FlagsOK
      <4> QED BY <3>2, <4>1 DEF PressBody, TypeOK, FlagsOK
    <3> QED BY <1>11, <3>1, <3>2
  <2>1n. NamesOK'
    BY <2>a, <2>b, SMT DEF TypeOK, NamesOK, Places
  <2>2. ThreadInv'
    BY <2>b, SMT DEF TypeOK, NamesOK, ThreadInv
  <2>3. LockInv'
    BY <2>b, SMT DEF TypeOK, NamesOK, LockInv
  <2> QED BY <2>1, <2>1n, <2>2, <2>3 DEF TypeOK
<1>12. ASSUME NEW s \in Scripts, Create(s) PROVE Base'
  <2> USE <1>12 DEF Create
  <2>1. FlagsOK'
    BY DEF TypeOK, FlagsOK
  <2>1n. NamesOK'
    BY SMT DEF TypeOK, NamesOK
  <2>2. ThreadInv'
    BY SMT DEF TypeOK, NamesOK, ThreadInv
  <2>3. LockInv'
    BY SMT DEF TypeOK, NamesOK, LockInv
  <2> QED BY <2>1, <2>1n, <2>2, <2>3 DEF TypeOK
<1>13. ASSUME NEW kind \in Kinds, FreeWrapper(kind) PROVE Base'
  <2> USE <1>13 DEF FreeWrapper
  <2>1. FlagsOK'
    BY DEF TypeOK, FlagsOK
  <2>1n. NamesOK'
    BY SMT DEF TypeOK, NamesOK
  <2>2. ThreadInv'
    BY SMT DEF TypeOK, NamesOK, ThreadInv
  <2>3. LockInv'
    BY SMT DEF TypeOK, NamesOK, LockInv
  <2> QED BY <2>1, <2>1n, <2>2, <2>3 DEF TypeOK
<1>14. ASSUME UNCHANGED vars PROVE Base'
  BY <1>14 DEF vars, TypeOK, FlagsOK, NamesOK, ThreadInv, LockInv
<1> QED BY <1>1, <1>2, <1>3, <1>4, <1>5, <1>6, <1>7, <1>8, <1>9, <1>10, <1>11, <1>12, <1>13, <1>14
        DEF Next

----------------------------------------------------------------------------
(* A fault ends the session. *)

LEMMA FaultStep == Base /\ (fault => ~session) /\ [Next]_vars => (fault' => ~session')
<1> SUFFICES ASSUME Base, fault => ~session, [Next]_vars PROVE fault' => ~session'
  OBVIOUS
<1>0. fault \in BOOLEAN /\ session \in BOOLEAN
  BY DEF Base, TypeOK, FlagsOK
<1>1. CASE fault' = fault /\ session' = session
  BY <1>1
<1>2. CASE Fails
  BY <1>2 DEF Fails
<1>3. ASSUME NEW t \in Threads, UpdateBody(t) PROVE fault' => ~session'
  <2>1. CASE session
    BY <1>0, <1>2, <1>3, <2>1 DEF UpdateBody
  <2>2. CASE ~session
    BY <1>0, <1>2, <1>3, <2>2 DEF UpdateBody
  <2> QED BY <2>1, <2>2
<1>4. ASSUME NEW t \in Threads, Forget(t) PROVE fault' => ~session'
  BY <1>4 DEF Forget
<1>5. ASSUME NEW t \in Threads, PressBody(t) PROVE fault' => ~session'
  BY <1>5 DEF PressBody
<1>6. ASSUME NEW kind \in Kinds, FreeWrapper(kind) PROVE fault' => ~session'
  BY <1>6 DEF FreeWrapper, runtime
<1>7. ASSUME NEW t \in Threads, EnterBind(t) \/ InstallHook(t) \/ BindScript(t) \/ Pin(t)
      PROVE  fault' => ~session'
  BY <1>1, <1>2, <1>7 DEF EnterBind, Refused, InstallHook, BindScript, Pin
<1>8. ASSUME NEW t \in Threads,
             \/ \E kind \in Kinds : Setup(t, kind)
             \/ \E s \in Scripts : Update(t, s) \/ Destroy(t, s) \/ Create(s)
             \/ Destroyed(t) \/ Press(t) \/ GateFails(t)
      PROVE  fault' => ~session'
  BY <1>1, <1>2, <1>8 DEF Setup, Update, Destroy, Create, Destroyed, Press, GateFails, runtime
<1>9. ASSUME NEW s \in Scripts, Create(s) PROVE fault' => ~session'
  BY <1>9 DEF Create, runtime
<1>10. CASE UNCHANGED vars
  BY <1>10 DEF vars
<1> QED BY <1>3, <1>4, <1>5, <1>6, <1>7, <1>8, <1>9, <1>10 DEF Next

----------------------------------------------------------------------------
(* The binding *)

\* Steps of other threads do not move a binding.
LEMMA BindKept ==
    ASSUME BindInv, UNCHANGED <<initialized, bound, pinned, left, hooks>>,
           \A t \in Threads : /\ pc'[t] = "bind" <=> pc[t] = "bind"
                              /\ pc[t] = "bind" => arg'[t] = arg[t]
    PROVE  BindInv'
BY SMT DEF BindInv, Binds, ScriptHooks

\* Only the owner of the lock binds, and whoever may take the lock and is not
\* binding knows that nobody is.
LEMMA OneBinds ==
    ASSUME Base, NEW t \in Threads, Free(t)
    PROVE  /\ \A u \in Threads : pc[u] = "bind" => u = t
BY NoneAssumption DEF Base, TypeOK, NamesOK, Free

LEMMA BindStep == Base /\ Base' /\ (~fault => BindInv) /\ [Next]_vars => (~fault' => BindInv')
<1> SUFFICES ASSUME Base, Base', ~fault => BindInv, [Next]_vars, ~fault' PROVE BindInv'
  OBVIOUS
<1>a. /\ pc \in [Threads -> Places] /\ arg \in [Threads -> Kinds \cup Scripts \cup {None}]
      /\ left \in Seq(HookName \X Kinds) /\ bound \subseteq Kinds
  BY DEF Base, TypeOK, NamesOK
<1>1. ASSUME NEW t \in Threads, EnterBind(t) PROVE BindInv'
  <2>1. ~fault /\ BindInv
    BY <1>1 DEF EnterBind, Refused, Fails
  <2>0. pc[t] = "setup" /\ \A u \in Threads : pc[u] # "bind"
    BY <1>1, OneBinds DEF EnterBind
  <2>2. CASE Returns(t) /\ UNCHANGED <<initialized, bound, hooks, pinned>>
    <3>1. \A u \in Threads : pc'[u] # "bind"
      BY <1>a, <2>0, <2>2, SMT DEF Returns, Goto
    <3> QED BY <2>0, <2>1, <2>2, <3>1 DEF BindInv, Binds
  <2>3. CASE ~(Returns(t) /\ UNCHANGED <<initialized, bound, hooks, pinned>>)
    <3>1. /\ ~(initialized /\ arg[t] \in bound)
          /\ initialized' = TRUE
          /\ left' = IF initialized THEN <<>> ELSE CoreHooks
          /\ pc' = [pc EXCEPT ![t] = "bind"] /\ arg' = [arg EXCEPT ![t] = arg[t]]
          /\ UNCHANGED <<bound, hooks, pinned>>
      BY <1>1, <2>1, <2>3 DEF EnterBind, Refused, Goto, Fails
    <3>2. /\ pc'[t] = "bind" /\ arg'[t] = arg[t]
          /\ \A u \in Threads : pc'[u] = "bind" => u = t
      BY <1>a, <2>0, <3>1, SMT
    <3>3. arg[t] \notin bound
      BY <2>0, <2>1, <3>1 DEF BindInv, Binds
    <3>4. \A i \in DOMAIN left' : left'[i][1] \in CoreNames
      <4>1. CASE initialized
        BY <3>1, <4>1, SMT
      <4>2. CASE ~initialized
        BY <3>1, <4>2, CoreHooksAreCore
      <4> QED BY <4>1, <4>2
    <3> QED BY <2>0, <2>1, <3>1, <3>2, <3>3, <3>4 DEF BindInv, Binds
  <2> QED BY <2>2, <2>3
<1>2. ASSUME NEW t \in Threads, InstallHook(t) PROVE BindInv'
  <2>1. ~fault /\ BindInv
    BY <1>2 DEF InstallHook, Fails
  <2>2. /\ pc[t] = "bind" /\ left # <<>>
        /\ hooks' = hooks \cup {Head(left)} /\ left' = Tail(left)
        /\ UNCHANGED <<initialized, bound, pinned, pc, arg>>
    BY <1>2 DEF InstallHook, Fails
  <2>3. \A u \in Threads : pc[u] = "bind" => u = t
    BY <2>2 DEF Base, TypeOK, NamesOK
  <2>4. CASE arg[t] \notin bound \/ arg[t] = "tablet"
    <3>1. \A i \in DOMAIN left : left[i][1] \in CoreNames
      BY <2>1, <2>2, <2>4 DEF BindInv, Binds
    <3>2. \A i \in DOMAIN left' : left'[i][1] \in CoreNames
      BY <1>a, <2>2, <3>1, SMT
    <3>3. Head(left)[1] \in CoreNames
      BY <1>a, <2>2, <3>1, SMT
    <3>4. \A k \in {"controller", "disc"} : <<"update", k>> # Head(left)
      BY <3>3, SMT DEF CoreNames
    <3>5. \A k \in {"controller", "disc"} : <<"update", k>> \in hooks' => <<"update", k>> \in hooks
      BY <2>2, <3>4
    <3> QED BY <2>1, <2>2, <2>3, <2>4, <3>2, <3>5 DEF BindInv, Binds
  <2>5. CASE arg[t] \in bound /\ arg[t] # "tablet"
    <3> DEFINE k == arg[t]
    <3>1. k \in {"controller", "disc"}
      BY <1>a, <2>5 DEF Kinds
    <3>2. \/ /\ left = << <<"allowed", k>>, <<"update", k>>, <<"destroy", k>> >>
             /\ left' = << <<"update", k>>, <<"destroy", k>> >> /\ hooks' = hooks \cup { <<"allowed", k>> }
          \/ /\ left = << <<"update", k>>, <<"destroy", k>> >>
             /\ left' = << <<"destroy", k>> >> /\ hooks' = hooks \cup { <<"update", k>> }
          \/ /\ left = << <<"destroy", k>> >> /\ <<"update", k>> \in hooks
             /\ left' = <<>> /\ hooks' = hooks \cup { <<"destroy", k>> }
      <4>1. \/ left = << <<"allowed", k>>, <<"update", k>>, <<"destroy", k>> >>
            \/ left = << <<"update", k>>, <<"destroy", k>> >>
            \/ left = << <<"destroy", k>> >> /\ <<"update", k>> \in hooks
        BY <2>1, <2>2, <2>5 DEF BindInv, Binds, ScriptHooks
      <4>2. CASE left = << <<"allowed", k>>, <<"update", k>>, <<"destroy", k>> >>
        BY <4>2, <2>2, SMT
      <4>3. CASE left = << <<"update", k>>, <<"destroy", k>> >>
        BY <4>3, <2>2, SMT
      <4>4. CASE left = << <<"destroy", k>> >> /\ <<"update", k>> \in hooks
        BY <4>4, <2>2, SMT
      <4> QED BY <4>1, <4>2, <4>3, <4>4
    <3>3. \A j \in {"controller", "disc"} : <<"update", j>> \in hooks' =>
             j = k \/ <<"update", j>> \in hooks
      BY <3>2, SMT
    <3>4. hooks \subseteq hooks' /\ (left' = << <<"destroy", k>> >> => <<"update", k>> \in hooks')
          /\ (left' = <<>> => {<<"update", k>>, <<"destroy", k>>} \subseteq hooks')
      BY <3>2, SMT
    <3>5. \/ left' = << <<"update", k>>, <<"destroy", k>> >>
          \/ left' = << <<"destroy", k>> >>
          \/ left' = <<>>
      BY <3>2
    <3> QED BY <2>1, <2>2, <2>3, <2>5, <3>1, <3>3, <3>4, <3>5 DEF BindInv, Binds
  <2> QED BY <2>4, <2>5
<1>3. ASSUME NEW t \in Threads, BindScript(t) PROVE BindInv'
  <2>1. ~fault /\ BindInv
    BY <1>3 DEF BindScript, Fails
  <2>2. /\ pc[t] = "bind" /\ left = <<>> /\ arg[t] \notin bound
        /\ bound' = bound \cup {arg[t]} /\ left' = ScriptHooks(arg[t])
        /\ UNCHANGED <<initialized, hooks, pinned, pc, arg>>
    BY <1>3 DEF BindScript, Fails
  <2>3. \A u \in Threads : pc[u] = "bind" => u = t
    BY <2>2 DEF Base, TypeOK, NamesOK
  <2>4. arg[t] = "tablet" => \A i \in DOMAIN left' : left'[i][1] \in CoreNames
    BY <2>2, SMT DEF ScriptHooks
  <2>5. initialized
    BY <2>1, <2>2 DEF BindInv, Binds
  <2> QED BY <2>1, <2>2, <2>3, <2>4, <2>5 DEF BindInv, Binds
<1>4. ASSUME NEW t \in Threads, Pin(t) PROVE BindInv'
  <2>1. ~fault /\ BindInv
    BY <1>4 DEF Pin
  <2>2. /\ pc[t] = "bind" /\ left = <<>> /\ arg[t] \in bound /\ pinned' = TRUE
        /\ pc' = [pc EXCEPT ![t] = "idle"]
        /\ UNCHANGED <<initialized, bound, hooks>>
    BY <1>4 DEF Pin, Returns, Goto
  <2>3. \A u \in Threads : pc'[u] # "bind"
    BY <1>a, <2>2, SMT DEF Base, TypeOK, NamesOK
  <2>4. \A u \in Threads : pc[u] = "bind" => u = t
    BY <2>2 DEF Base, TypeOK, NamesOK
  <2>5. arg[t] # "tablet" => {<<"update", arg[t]>>, <<"destroy", arg[t]>>} \subseteq hooks
    BY <2>1, <2>2, SMT DEF BindInv, Binds, ScriptHooks
  <2> QED BY <2>1, <2>2, <2>3, <2>4, <2>5 DEF BindInv, Binds
<1>5. ASSUME NEW kind \in Kinds, FreeWrapper(kind) PROVE BindInv'
  <2>1. CASE UNCHANGED <<runtime, locking>>
    BY <1>5, <2>1, BindKept DEF FreeWrapper, runtime
  <2>2. CASE /\ initialized' = FALSE /\ bound' = {} /\ hooks' = {}
             /\ \A t \in Threads : pc[t] = "idle" /\ pc'[t] = pc[t]
    BY <2>2 DEF BindInv, Binds
  <2> QED BY <1>5, <2>1, <2>2 DEF FreeWrapper
<1>6. ASSUME UNCHANGED <<initialized, bound, pinned, left, hooks>>, ~fault,
             NEW t \in Threads, NEW place \in Places \ {"bind"}, NEW what,
             pc[t] # "bind", pc' = [pc EXCEPT ![t] = place], arg' = [arg EXCEPT ![t] = what]
      PROVE  BindInv'
  <2>1. \A u \in Threads : /\ pc'[u] = "bind" <=> pc[u] = "bind"
                           /\ pc[u] = "bind" => arg'[u] = arg[u]
    BY <1>a, <1>6, SMT
  <2> QED BY <1>6, <2>1, BindKept
<1>7. ASSUME UNCHANGED <<initialized, bound, pinned, left, hooks, pc, arg>>, ~fault PROVE BindInv'
  BY <1>7, BindKept
<1>8. ASSUME NEW t \in Threads, NEW kind \in Kinds, Setup(t, kind) PROVE BindInv'
  <2>1. ~fault /\ pc[t] # "bind" /\ pc' = [pc EXCEPT ![t] = "setup"] /\ arg' = [arg EXCEPT ![t] = kind]
        /\ UNCHANGED <<initialized, bound, pinned, left, hooks>>
    BY <1>8 DEF Setup, Goto, runtime
  <2> QED BY <1>6, <2>1 DEF Places
<1>9. ASSUME NEW t \in Threads, NEW s \in Scripts, Update(t, s) PROVE BindInv'
  <2>1. ~fault /\ pc[t] # "bind" /\ UNCHANGED <<initialized, bound, pinned, left, hooks>>
        /\ \/ pc' = [pc EXCEPT ![t] = "update"] /\ arg' = [arg EXCEPT ![t] = s]
           \/ UNCHANGED <<pc, arg>>
    BY <1>9 DEF Update, Goto, runtime
  <2> QED BY <1>6, <1>7, <2>1 DEF Places
<1>10. ASSUME NEW t \in Threads, NEW s \in Scripts, Destroy(t, s) PROVE BindInv'
  <2>1. /\ ~fault /\ pc[t] # "bind" /\ UNCHANGED <<initialized, bound, pinned, left, hooks>>
        /\ arg' = [arg EXCEPT ![t] = s]
        /\ \/ pc' = [pc EXCEPT ![t] = "destroy"]
           \/ pc' = [pc EXCEPT ![t] = "destroying"]
    BY <1>10 DEF Destroy, Goto, runtime
  <2> QED BY <1>6, <2>1 DEF Places
<1>11. ASSUME NEW t \in Threads, UpdateBody(t) PROVE BindInv'
  <2>1. ~fault /\ pc[t] # "bind" /\ pc' = [pc EXCEPT ![t] = "idle"] /\ arg' = [arg EXCEPT ![t] = None]
        /\ UNCHANGED <<initialized, bound, pinned, left, hooks>>
    BY <1>11 DEF UpdateBody, Goto, Fails
  <2> QED BY <1>6, <2>1 DEF Places
<1>12. ASSUME NEW t \in Threads, Forget(t) PROVE BindInv'
  <2>1. /\ ~fault /\ pc[t] # "bind" /\ pc' = [pc EXCEPT ![t] = "destroying"]
        /\ arg' = [arg EXCEPT ![t] = arg[t]]
        /\ UNCHANGED <<initialized, bound, pinned, left, hooks>>
    BY <1>12 DEF Forget, Goto
  <2> QED BY <1>6, <2>1 DEF Places
<1>13. ASSUME NEW t \in Threads, Destroyed(t) PROVE BindInv'
  <2>1. ~fault /\ pc[t] # "bind" /\ pc' = [pc EXCEPT ![t] = "idle"] /\ arg' = [arg EXCEPT ![t] = None]
        /\ UNCHANGED <<initialized, bound, pinned, left, hooks>>
    BY <1>13 DEF Destroyed, Goto, runtime
  <2> QED BY <1>6, <2>1 DEF Places
<1>14. ASSUME NEW t \in Threads, Press(t) \/ PressBody(t) PROVE BindInv'
  <2>1. /\ ~fault /\ pc[t] # "bind" /\ arg' = [arg EXCEPT ![t] = None]
        /\ \/ pc' = [pc EXCEPT ![t] = "idle"]
           \/ pc' = [pc EXCEPT ![t] = "press"]
        /\ UNCHANGED <<initialized, bound, pinned, left, hooks>>
    <3>1. CASE Press(t)
      BY <3>1 DEF Press, Goto, runtime
    <3>2. CASE PressBody(t)
      BY <3>2 DEF PressBody, Goto
    <3> QED BY <1>14, <3>1, <3>2
  <2> QED BY <1>6, <2>1 DEF Places
<1>15. ASSUME NEW t \in Threads, GateFails(t) PROVE BindInv'
  BY <1>15 DEF GateFails, Fails
<1>16. ASSUME NEW s \in Scripts, Create(s) PROVE BindInv'
  BY <1>16, <1>7 DEF Create, runtime
<1>17. CASE UNCHANGED vars
  BY <1>17, <1>7 DEF vars
<1> QED BY <1>1, <1>2, <1>3, <1>4, <1>5, <1>8, <1>9, <1>10, <1>11, <1>12, <1>13, <1>14, <1>15, <1>16, <1>17
        DEF Next

----------------------------------------------------------------------------
(* What is tracked, looked at and updated *)

Watch == TrackInv /\ Discovered

\* Hooks never go away without a fault, and a script that is being updated by
\* the trainer will be forgotten when it is destroyed.
LEMMA HooksStay ==
    ASSUME Base, [Next]_vars, ~fault', ~fault
    PROVE  hooks \subseteq hooks'
BY DEF Next, vars, Setup, EnterBind, Refused, InstallHook, BindScript, Pin, Update, UpdateBody, Destroy, Forget,
       Destroyed, Press, PressBody, GateFails, Create, FreeWrapper, Fails

LEMMA DestroyInPlace ==
    ASSUME Base, BindInv, NEW t \in Threads, Free(t), pc[t] = "update", NEW s \in Scripts,
           Hooked("update", s)
    PROVE  Hooked("destroy", s)
<1>1. KindOf(s) \in {"controller", "disc"}
  BY DEF KindOf
<1>2. KindOf(s) \in bound
  BY <1>1 DEF BindInv, Hooked
<1>3. \A u \in Threads : ~Binds(u)
  BY OneBinds DEF Binds
<1> QED BY <1>1, <1>2, <1>3 DEF BindInv, Hooked

\* A thread that starts a call on a script, or none, and leaves the rest alone.
LEMMA WatchCall ==
    ASSUME Base, Watch, hooks \subseteq hooks', UNCHANGED <<tracked, live>>, ~fault, ~fault',
           NEW t \in Threads, NEW place \in Places, NEW what,
           pc' = [pc EXCEPT ![t] = place], arg' = [arg EXCEPT ![t] = what],
           arg[t] \in Scripts => what = arg[t],
           updated' = updated,
           place = "destroying" => what \notin tracked,
           place = "update" => Hooked("update", what),
           place = "press" => hooks # {}
    PROVE  Watch'
<1>a. pc \in [Threads -> Places] /\ arg \in [Threads -> Kinds \cup Scripts \cup {None}]
  BY DEF Base, TypeOK, NamesOK
<1>b. /\ pc'[t] = place /\ arg'[t] = what
      /\ \A u \in Threads : u # t => pc'[u] = pc[u] /\ arg'[u] = arg[u]
  BY <1>a, SMT
<1>1. TrackInv'
  BY <1>b DEF Watch, TrackInv, Hooked
<1>2. {s \in Scripts : \E u \in Threads : arg[u] = s} \subseteq {s \in Scripts : \E u \in Threads : arg'[u] = s}
  BY <1>b
<1>3. Discovered'
  BY <1>2 DEF Watch, Discovered
<1> QED BY <1>1, <1>3 DEF Watch

LEMMA WatchStep ==
    Base /\ Base' /\ (~fault => BindInv /\ Watch) /\ [Next]_vars => (~fault' => Watch')
<1> SUFFICES ASSUME Base, Base', ~fault => BindInv /\ Watch, [Next]_vars, ~fault' PROVE Watch'
  OBVIOUS
<1>a. /\ pc \in [Threads -> Places] /\ arg \in [Threads -> Kinds \cup Scripts \cup {None}]
      /\ Scripts \cap Kinds = {} /\ None \notin Scripts
  BY ScriptsAssumption, NoneAssumption DEF Base, TypeOK, NamesOK
<1>b. ~fault => hooks \subseteq hooks'
  BY HooksStay
<1>c. \A u \in Threads : pc[u] \in {"idle", "press", "setup", "bind"} => arg[u] \notin Scripts
  BY <1>a, NoneAssumption, SMT DEF Base, TypeOK, NamesOK, ThreadInv
<1>1. ASSUME NEW t \in Threads, NEW kind \in Kinds, Setup(t, kind) PROVE Watch'
  <2>1. /\ ~fault /\ pc' = [pc EXCEPT ![t] = "setup"] /\ arg' = [arg EXCEPT ![t] = kind]
        /\ UNCHANGED <<tracked, live, updated>> /\ pc[t] = "idle"
    BY <1>1 DEF Setup, Goto, runtime, Quiet
  <2> QED BY <1>a, <1>b, <1>c, <2>1, WatchCall DEF Places
<1>2. ASSUME NEW t \in Threads, EnterBind(t) \/ InstallHook(t) \/ BindScript(t) \/ Pin(t) PROVE Watch'
  <2>1. /\ ~fault /\ pc[t] \in {"setup", "bind"} /\ UNCHANGED <<tracked, live, updated>>
        /\ \E place \in {"idle", "setup", "bind"}, what \in {None, arg[t]} :
              pc' = [pc EXCEPT ![t] = place] /\ arg' = [arg EXCEPT ![t] = what]
    <3>1. \/ UNCHANGED <<pc, arg>>
          \/ \E place \in {"idle", "setup", "bind"}, what \in {None, arg[t]} :
                pc' = [pc EXCEPT ![t] = place] /\ arg' = [arg EXCEPT ![t] = what]
      BY <1>2 DEF EnterBind, Refused, InstallHook, BindScript, Pin, Returns, Goto
    <3>2. /\ ~fault /\ pc[t] \in {"setup", "bind"} /\ UNCHANGED <<tracked, live, updated>>
      BY <1>2 DEF EnterBind, Refused, InstallHook, BindScript, Pin, Fails, Quiet, game
    <3>3. CASE UNCHANGED <<pc, arg>>
      BY <1>a, <3>2, <3>3
    <3> QED BY <3>1, <3>2, <3>3
  <2>2. arg[t] \notin Scripts
    BY <1>c, <2>1
  <2> QED BY <1>b, <2>1, <2>2, WatchCall DEF Places
<1>3. ASSUME NEW t \in Threads, NEW s \in Scripts, Update(t, s) PROVE Watch'
  <2>1. /\ ~fault /\ UNCHANGED <<tracked, live, hooks>> /\ pc[t] = "idle"
    BY <1>3 DEF Update, runtime, game
  <2>2. CASE Hooked("update", s)
    <3>1. pc' = [pc EXCEPT ![t] = "update"] /\ arg' = [arg EXCEPT ![t] = s] /\ updated' = updated
      BY <1>3, <2>2 DEF Update, Goto
    <3> QED BY <1>b, <1>c, <2>1, <2>2, <3>1, WatchCall DEF Places
  <2>3. CASE ~Hooked("update", s)
    <3>1. KindOf(s) \in {"controller", "disc"}
      BY DEF KindOf
    <3>2. ~Complete(KindOf(s))
      BY <2>1, <2>3, <3>1 DEF Complete, BindInv, Hooked, Binds
    <3>3. UNCHANGED <<pc, arg, updated>>
      BY <1>3, <2>3, <3>2 DEF Update
    <3> QED BY <2>1, <3>3 DEF Watch, TrackInv, Discovered, Hooked
  <2> QED BY <2>2, <2>3
<1>4. ASSUME NEW t \in Threads, NEW s \in Scripts, Destroy(t, s) PROVE Watch'
  <2>1. /\ ~fault /\ UNCHANGED <<tracked, live, hooks, updated>> /\ pc[t] = "idle"
        /\ pc' = [pc EXCEPT ![t] = IF Hooked("destroy", s) THEN "destroy" ELSE "destroying"]
        /\ arg' = [arg EXCEPT ![t] = s]
    BY <1>4 DEF Destroy, runtime, game, Goto, Quiet
  <2>2. CASE Hooked("destroy", s)
    <3>1. pc' = [pc EXCEPT ![t] = "destroy"]
      BY <2>1, <2>2
    <3> QED BY <1>b, <1>c, <2>1, <2>2, <3>1, WatchCall DEF Places
  <2>3. CASE ~Hooked("destroy", s)
    <3>1. s \notin tracked
      BY <2>1, <2>3 DEF Watch, TrackInv
    <3>2. pc' = [pc EXCEPT ![t] = "destroying"]
      BY <2>1, <2>3
    <3> QED BY <1>b, <1>c, <2>1, <3>1, <3>2, WatchCall DEF Places
  <2> QED BY <2>2, <2>3
<1>5. ASSUME NEW t \in Threads, Press(t) \/ PressBody(t) PROVE Watch'
  <2>1. /\ ~fault /\ UNCHANGED <<tracked, live, updated>> /\ pc[t] \in {"idle", "press"}
        /\ arg' = [arg EXCEPT ![t] = None]
        /\ \/ pc' = [pc EXCEPT ![t] = "idle"]
           \/ pc' = [pc EXCEPT ![t] = "press"] /\ hooks # {}
    <3>1. CASE Press(t)
      BY <3>1 DEF Press, Goto, runtime, game, Quiet
    <3>2. CASE PressBody(t)
      BY <3>2 DEF PressBody, Goto, game
    <3> QED BY <1>5, <3>1, <3>2
  <2> QED BY <1>b, <1>c, <2>1, WatchCall DEF Places
<1>6. ASSUME NEW t \in Threads, UpdateBody(t) PROVE Watch'
  <2> DEFINE s == arg[t]
  <2>1. /\ ~fault /\ pc[t] = "update" /\ Free(t) /\ UNCHANGED <<live, hooks>>
        /\ tracked' = tracked \cup {s} /\ updated' = updated \cup {s}
        /\ pc' = [pc EXCEPT ![t] = "idle"] /\ arg' = [arg EXCEPT ![t] = None]
    BY <1>6 DEF UpdateBody, Goto, Fails, game
  <2>2. s \in live /\ s \in Scripts
    BY <2>1 DEF Base, TypeOK, NamesOK, ThreadInv
  <2>3. Hooked("destroy", s)
    BY <2>1, <2>2, DestroyInPlace DEF Watch, TrackInv
  <2>4. /\ pc'[t] = "idle" /\ arg'[t] = None
        /\ \A u \in Threads : u # t => pc'[u] = pc[u] /\ arg'[u] = arg[u] /\ arg[u] # s
    BY <1>a, <2>1, <2>2, SMT DEF Base, ThreadInv
  <2>5. TrackInv'
    BY <2>1, <2>2, <2>3, <2>4 DEF Watch, TrackInv, Hooked
  <2>6. Discovered'
    BY <2>1, <2>4 DEF Watch, Discovered
  <2> QED BY <2>5, <2>6 DEF Watch
<1>7. ASSUME NEW t \in Threads, Forget(t) PROVE Watch'
  <2> DEFINE s == arg[t]
  <2>1. /\ ~fault /\ pc[t] = "destroy" /\ UNCHANGED <<live, hooks, updated>>
        /\ tracked' = tracked \ {s}
        /\ pc' = [pc EXCEPT ![t] = "destroying"] /\ arg' = [arg EXCEPT ![t] = s]
    BY <1>7 DEF Forget, Goto, Quiet, game
  <2>2. s \in live /\ s \in Scripts
    BY <2>1 DEF Base, TypeOK, NamesOK, ThreadInv
  <2>3. /\ pc'[t] = "destroying" /\ arg'[t] = s
        /\ \A u \in Threads : u # t => pc'[u] = pc[u] /\ arg'[u] = arg[u]
    BY <1>a, <2>1, SMT
  <2>4. TrackInv'
    BY <2>1, <2>3 DEF Watch, TrackInv, Hooked
  <2>5. Discovered'
    BY <2>1, <2>2, <2>3 DEF Watch, Discovered
  <2> QED BY <2>4, <2>5 DEF Watch
<1>8. ASSUME NEW t \in Threads, Destroyed(t) PROVE Watch'
  <2> DEFINE s == arg[t]
  <2>1. /\ ~fault /\ pc[t] = "destroying" /\ UNCHANGED <<tracked, hooks>>
        /\ live' = live \ {s} /\ updated' = updated \ {s}
        /\ pc' = [pc EXCEPT ![t] = "idle"] /\ arg' = [arg EXCEPT ![t] = None]
    BY <1>8 DEF Destroyed, Goto, runtime
  <2>2. s \in live /\ s \in Scripts /\ s \notin tracked
    BY <2>1 DEF Base, TypeOK, NamesOK, ThreadInv, Watch, TrackInv
  <2>3. /\ pc'[t] = "idle" /\ arg'[t] = None
        /\ \A u \in Threads : u # t => pc'[u] = pc[u] /\ arg'[u] = arg[u]
    BY <1>a, <2>1, SMT
  <2>4. TrackInv'
    BY <2>1, <2>2, <2>3 DEF Watch, TrackInv, Hooked
  <2>5. Discovered'
    BY <2>1, <2>3 DEF Watch, Discovered
  <2> QED BY <2>4, <2>5 DEF Watch
<1>9. ASSUME NEW s \in Scripts, Create(s) PROVE Watch'
  BY <1>9 DEF Create, runtime, Quiet, Watch, TrackInv, Discovered, Hooked
<1>10. ASSUME NEW kind \in Kinds, FreeWrapper(kind) PROVE Watch'
  <2>1. UNCHANGED <<pc, arg, hooks, live, updated>>
    BY <1>10 DEF FreeWrapper, Quiet
  <2>2. CASE UNCHANGED <<runtime, locking>>
    BY <2>1, <2>2 DEF runtime, Watch, TrackInv, Discovered, Hooked
  <2>3. CASE /\ wrappers = {kind} /\ hooks = {} /\ \A t \in Threads : pc[t] = "idle"
             /\ tracked' = {}
    <3>1. live = {}
      BY <1>10, <2>3 DEF FreeWrapper, Base, ThreadInv
    <3>2. updated = {}
      BY <3>1 DEF Base, TypeOK, NamesOK
    <3> QED BY <2>1, <2>3, <3>2 DEF Watch, TrackInv, Discovered
  <2> QED BY <1>10, <2>2, <2>3 DEF FreeWrapper
<1>11. ASSUME NEW t \in Threads, GateFails(t) PROVE Watch'
  BY <1>11 DEF GateFails, Fails
<1>12. CASE UNCHANGED vars
  BY <1>12 DEF vars, Watch, TrackInv, Discovered, Hooked
<1> QED BY <1>1, <1>2, <1>3, <1>4, <1>5, <1>6, <1>7, <1>8, <1>9, <1>10, <1>11, <1>12 DEF Next

LEMMA TouchStep ==
    Base /\ (fault => ~session) /\ (~fault => TrackInv) /\ [Next]_vars => (touched \subseteq live => StaleNeverTouched')
<1> SUFFICES ASSUME Base, fault => ~session, ~fault => TrackInv, [Next]_vars, touched \subseteq live
             PROVE  StaleNeverTouched'
  OBVIOUS
<1>1. CASE touched' = {}
  BY <1>1 DEF StaleNeverTouched
<1>2. ASSUME NEW t \in Threads, UpdateBody(t) PROVE StaleNeverTouched'
  <2>1. pc[t] = "update" /\ live' = live /\ tracked' = tracked \cup {arg[t]}
    BY <1>2 DEF UpdateBody, game
  <2>2. arg[t] \in live
    BY <2>1 DEF Base, ThreadInv
  <2>3. CASE session
    <3>1. tracked \subseteq live
      BY <2>3 DEF TrackInv
    <3>2. touched' \subseteq tracked'
      BY <1>2 DEF UpdateBody
    <3> QED BY <2>1, <2>2, <3>1, <3>2 DEF StaleNeverTouched
  <2>4. CASE ~session
    BY <1>1, <1>2, <2>4 DEF UpdateBody
  <2> QED BY <2>3, <2>4
<1>3. ASSUME NEW t \in Threads, PressBody(t) PROVE StaleNeverTouched'
  <2>1. live' = live
    BY <1>3 DEF PressBody, game
  <2>2. CASE fault
    BY <1>1, <1>3, <2>2 DEF PressBody
  <2>3. CASE ~fault
    BY <1>3, <2>1, <2>3 DEF PressBody, TrackInv, StaleNeverTouched
  <2> QED BY <2>2, <2>3
<1>4. CASE UNCHANGED vars
  BY <1>4 DEF vars, StaleNeverTouched
<1> QED BY <1>1, <1>2, <1>3, <1>4
        DEF Next, Setup, EnterBind, InstallHook, BindScript, Pin, Update, Destroy, Forget,
            Destroyed, Press, GateFails, Create, FreeWrapper, Quiet

----------------------------------------------------------------------------
(* Theorems *)

LEMMA InitIInv == Init => IInv
<1> SUFFICES ASSUME Init PROVE IInv
  OBVIOUS
<1>1. Base
  BY InitBase
<1>2. BindInv /\ TrackInv /\ Discovered /\ StaleNeverTouched /\ ~session
  BY DEF Init, BindInv, Binds, TrackInv, Discovered, StaleNeverTouched
<1> QED BY <1>1, <1>2 DEF IInv, Base

LEMMA NextIInv == IInv /\ [Next]_vars => IInv'
<1> SUFFICES ASSUME IInv, [Next]_vars PROVE IInv'
  OBVIOUS
<1>1. Base /\ Base'
  BY BaseStep DEF IInv, Base
<1>2. fault' => ~session'
  BY <1>1, FaultStep DEF IInv
<1>3. ~fault' => BindInv'
  BY <1>1, BindStep DEF IInv
<1>4. ~fault' => Watch'
  BY <1>1, WatchStep DEF IInv, Watch
<1>5. StaleNeverTouched'
  BY <1>1, TouchStep DEF IInv, StaleNeverTouched
<1> QED BY <1>1, <1>2, <1>3, <1>4, <1>5 DEF IInv, Base, Watch

\* The invariant of hooks, threads and tracked scripts, whatever the game does.
THEOREM Invariance == Spec => []IInv
BY InitIInv, NextIInv, PTL DEF Spec

\* Types.
THEOREM TypeCorrect == Spec => []TypeOK
<1>1. IInv => TypeOK
  BY DEF IInv
<1> QED BY Invariance, <1>1, PTL

\* Only scripts that exist are looked at (dispatch(), trainerTick()).
THEOREM NeverTouchesStale == Spec => []StaleNeverTouched
<1>1. IInv => StaleNeverTouched
  BY DEF IInv
<1> QED BY Invariance, <1>1, PTL

\* Without a fault the code behind the hooks stays loaded (BindTrainer()).
THEOREM CodeStaysLoaded == Spec => []HooksStayLoaded
<1>1. IInv => HooksStayLoaded
  <2> SUFFICES ASSUME IInv, ~fault, wrappers = {}, ~pinned,
                      hooks # {} \/ \E t \in Threads : pc[t] # "idle"
               PROVE  FALSE
    BY DEF HooksStayLoaded, Crashed, InMemory
  <2>1. \A t \in Threads : pc[t] \notin {"setup", "bind", "update", "destroy", "destroying"}
    BY DEF IInv, ThreadInv
  <2>2. hooks = {}
    BY <2>1 DEF IInv, BindInv, Binds
  <2>3. \A t \in Threads : pc[t] # "press"
    BY <2>2 DEF IInv, TrackInv
  <2> QED BY <2>1, <2>2, <2>3 DEF IInv, TypeOK, NamesOK, Places
<1> QED BY Invariance, <1>1, PTL

\* Without a fault every updated script of a bound kind is known (BindTrainer()).
THEOREM EveryScriptDiscovered == Spec => []Discovered
<1>1. IInv => Discovered
  BY DEF IInv, Discovered
<1> QED BY Invariance, <1>1, PTL
====
