------------------------- MODULE WiltoncallInitProofs -------------------------
(***************************************************************************)
(* Proofs about WiltoncallInit, for any number of threads, builtin calls   *)
(* and configurations.  The flag lets one call through, whatever is loaded *)
(* meanwhile, and a configuration that is loaded stays.  Only that it is   *)
(* the one of that call needs that the text "" is not a configuration, so  *)
(* that nobody else can load one: this is an invariant of its own, above   *)
(* the first one.                                                          *)
(***************************************************************************)
EXTENDS WiltoncallInit, TLAPS

\* The flag is set from the moment a call is let through, and that call has not
\* registered anything before it registers the first one.
FlagIsSet ==
    /\ ~initialized => configured = NoConfig
    /\ \A t \in Threads :
           /\ Initializing(t) => initialized
           /\ pc[t] \in {"flag", "config"} => registered[t] = 0

\* The calls registered so far are the program's own or have been removed.
BuiltinsSoFar ==
    \A t \in Threads : \A k \in 1..Len(Builtins) :
        pc[t] = "register" /\ k <= registered[t] =>
            map[Builtins[k]] = BuiltinFun \/ Builtins[k] \in gone

Inv ==
    /\ TypeOK
    /\ OneInitializer
    /\ FlagIsSet
    /\ DefaultEngineIsCurrent
    /\ BuiltinsSoFar
    /\ SuccessIsComplete

\* Builtin calls are names.
LEMMA BuiltinNames ==
    /\ Len(Builtins) \in Nat
    /\ \A k \in 1..Len(Builtins) : Builtins[k] \in Names
  BY InitAssumption

\* The initial state satisfies the invariant.
LEMMA InitInv == Init => Inv
<1> SUFFICES ASSUME Init PROVE Inv
  OBVIOUS
<1>1. TypeOK
  <2>1. 0 \in 0..Len(Builtins)
    BY BuiltinNames
  <2>2. registered \in [Threads -> 0..Len(Builtins)]
    BY <2>1 DEF Init
  <2>3. config_json \in [Threads -> Texts] /\ reply \in [Threads -> Replies]
    BY DEF Init, Texts, Replies
  <2> QED
    BY <2>2, <2>3 DEF Init, TypeOK
<1>2. OneInitializer /\ FlagIsSet /\ DefaultEngineIsCurrent
  BY DEF Init, OneInitializer, FlagIsSet, DefaultEngineIsCurrent,
         Initializing
<1>3. BuiltinsSoFar /\ SuccessIsComplete
  BY DEF Init, BuiltinsSoFar, SuccessIsComplete
<1> QED
  BY <1>1, <1>2, <1>3 DEF Inv

\* A change of the map that loses no registered builtin call, unless it is
\* noted as removed, loses nothing that has been achieved.
LEMMA MapStep ==
    ASSUME Inv, gone \subseteq gone', UNCHANGED <<pc, registered, configured>>,
           \A n \in Names : map[n] = BuiltinFun => map'[n] = BuiltinFun \/ n \in gone'
    PROVE  BuiltinsSoFar' /\ SuccessIsComplete'
  BY BuiltinNames DEF Inv, BuiltinsSoFar, SuccessIsComplete

\* A configuration that is loaded stays, whatever text comes later.
LEMMA Loaded ==
    ASSUME TypeOK, NEW text \in Texts
    PROVE  /\ cf # NoConfig => ConfigAfter(text) = cf
           /\ ConfigAfter(text) \in Configs \cup {NoConfig}
           /\ default_engine # NoConfig => default_engine \in WithEngine /\ default_engine \in Configs
  BY InitAssumption DEF TypeOK, Texts, ConfigAfter

\* Every step preserves the invariant.
LEMMA StepInv ==
    ASSUME Inv, [Next]_vars
    PROVE  Inv'
<1> USE InitAssumption, BuiltinNames, CallAssumption
    DEF Inv, TypeOK, Texts, Replies, Initializing
<1>1. ASSUME NEW t \in Threads, NEW text \in Texts, CallInit(t, text)
      PROVE  Inv'
  <2>1. TypeOK' /\ OneInitializer' /\ FlagIsSet'
    BY <1>1 DEF CallInit, Tell, OneInitializer, FlagIsSet
  <2>2. DefaultEngineIsCurrent'
    BY <1>1 DEF CallInit, DefaultEngineIsCurrent
  <2>3. BuiltinsSoFar' /\ SuccessIsComplete'
    BY <1>1 DEF CallInit, BuiltinsSoFar, SuccessIsComplete
  <2> QED
    BY <2>1, <2>2, <2>3
<1>2. ASSUME NEW t \in Threads, TestAndSet(t)
      PROVE  Inv'
  <2>1. TypeOK' /\ OneInitializer' /\ FlagIsSet'
    BY <1>2 DEF TestAndSet, Tell, OneInitializer, FlagIsSet
  <2>2. DefaultEngineIsCurrent'
    BY <1>2 DEF TestAndSet, DefaultEngineIsCurrent
  <2>3. BuiltinsSoFar' /\ SuccessIsComplete'
    BY <1>2 DEF TestAndSet, BuiltinsSoFar, SuccessIsComplete
  <2> QED
    BY <2>1, <2>2, <2>3
<1>3. ASSUME NEW t \in Threads, SetConfig(t)
      PROVE  Inv'
  <2>1. registered[t] = 0 /\ configured = NoConfig /\ pc[t] = "config"
    BY <1>3 DEF SetConfig, FlagIsSet, OneInitializer
  <2>2. cf' \in Configs \cup {NoConfig} /\ (cf # NoConfig => cf' = cf)
    BY <1>3, Loaded DEF SetConfig
  <2>3. TypeOK' /\ OneInitializer' /\ FlagIsSet'
    BY <1>3, <2>1, <2>2 DEF SetConfig, Tell, OneInitializer, FlagIsSet
  <2>4. DefaultEngineIsCurrent'
    BY <1>3, <2>2, Loaded DEF SetConfig, DefaultEngineIsCurrent
  <2>5. BuiltinsSoFar' /\ SuccessIsComplete'
    BY <1>3, <2>1 DEF SetConfig, BuiltinsSoFar, SuccessIsComplete
  <2> QED
    BY <2>3, <2>4, <2>5
<1>4. ASSUME NEW t \in Threads, RegisterBuiltin(t)
      PROVE  Inv'
  <2> DEFINE n == Builtins[registered[t] + 1]
  <2>1. n \in Names /\ registered[t] + 1 \in 1..Len(Builtins) /\ configured = NoConfig
    BY <1>4 DEF RegisterBuiltin, OneInitializer
  <2>2. CASE CanPut(n) /\ map' = [map EXCEPT ![n] = BuiltinFun]
             /\ registered' = [registered EXCEPT ![t] = @ + 1] /\ UNCHANGED <<pc, reply>>
    <3> HIDE DEF n
    <3>1. TypeOK' /\ OneInitializer' /\ FlagIsSet'
      BY <1>4, <2>1, <2>2 DEF RegisterBuiltin, OneInitializer, FlagIsSet
    <3>2. DefaultEngineIsCurrent' /\ SuccessIsComplete'
      BY <1>4, <2>1
      DEF RegisterBuiltin, DefaultEngineIsCurrent, SuccessIsComplete
    <3>3. BuiltinsSoFar'
      <4> SUFFICES ASSUME NEW u \in Threads, NEW k \in 1..Len(Builtins),
                          pc[u] = "register", k <= registered'[u]
                   PROVE  map'[Builtins[k]] = BuiltinFun \/ Builtins[k] \in gone
        BY <1>4, <2>2 DEF BuiltinsSoFar, RegisterBuiltin
      <4>1. u = t
        BY <1>4 DEF RegisterBuiltin, OneInitializer
      <4>2. CASE k = registered[t] + 1
        BY <2>1, <2>2, <4>2 DEF n
      <4>3. CASE k <= registered[t]
        BY <2>1, <2>2, <4>1, <4>3 DEF BuiltinsSoFar
      <4> QED
        BY <2>2, <4>1, <4>2, <4>3
    <3> QED
      BY <3>1, <3>2, <3>3
  <2>3. CASE pc' = [pc EXCEPT ![t] = "idle"] /\ Tell(t, "init_failed")
             /\ UNCHANGED <<map, registered>>
    <3>1. TypeOK' /\ OneInitializer' /\ FlagIsSet'
      BY <1>4, <2>3 DEF RegisterBuiltin, Tell, OneInitializer, FlagIsSet
    <3>2. DefaultEngineIsCurrent' /\ SuccessIsComplete'
      BY <1>4, <2>1
      DEF RegisterBuiltin, DefaultEngineIsCurrent, SuccessIsComplete
    <3>3. BuiltinsSoFar'
      BY <1>4, <2>3 DEF RegisterBuiltin, BuiltinsSoFar
    <3> QED
      BY <3>1, <3>2, <3>3
  <2> QED
    BY <1>4, <2>2, <2>3 DEF RegisterBuiltin
<1>5. ASSUME NEW t \in Threads, ReturnInitialized(t)
      PROVE  Inv'
  <2>1. pc[t] = "register" /\ registered[t] = Len(Builtins) /\ initialized
        /\ \A u \in Threads \ {t} : ~Initializing(u)
    BY <1>5 DEF ReturnInitialized, OneInitializer, FlagIsSet
  <2>2. TypeOK' /\ OneInitializer' /\ FlagIsSet'
    BY <1>5, <2>1 DEF ReturnInitialized, Tell, OneInitializer, FlagIsSet
  <2>3. DefaultEngineIsCurrent'
    BY <1>5, <2>1 DEF ReturnInitialized, DefaultEngineIsCurrent
  <2>4. BuiltinsSoFar'
    BY <1>5 DEF ReturnInitialized, BuiltinsSoFar
  <2>5. SuccessIsComplete'
    BY <1>5, <2>1 DEF ReturnInitialized, BuiltinsSoFar, SuccessIsComplete
  <2> QED
    BY <2>2, <2>3, <2>4, <2>5
<1>6. ASSUME UNCHANGED <<initialized, cf, default_engine, pc, config_json, registered,
                         reply, configured>>,
             map' \in [Names -> Funs \cup {NoFun}], gone' \in SUBSET Names,
             BuiltinsSoFar', SuccessIsComplete'
      PROVE  Inv'
  BY <1>6 DEF OneInitializer, FlagIsSet, DefaultEngineIsCurrent
<1>7. ASSUME NEW t \in Threads, NEW n \in Names, NEW f \in Funs, Register(t, n, f)
      PROVE  Inv'
  <2>1. map[n] # BuiltinFun
    BY <1>7 DEF Register, CanPut, Registered
  <2>2. BuiltinsSoFar' /\ SuccessIsComplete'
    BY <1>7, <2>1, MapStep DEF Register
  <2> QED
    BY <1>6, <1>7, <2>2 DEF Register
<1>8. ASSUME NEW t \in Threads, NEW n \in Names, Remove(t, n)
      PROVE  Inv'
  <2>1. BuiltinsSoFar' /\ SuccessIsComplete'
    BY <1>8, MapStep DEF Remove
  <2> QED
    BY <1>6, <1>8, <2>1 DEF Remove
<1>9. ASSUME NEW t \in Threads, ReadConfig(t) \/ Runscript(t)
      PROVE  Inv'
  <2>1. UNCHANGED <<initialized, map, pc, config_json, registered, configured, gone>>
    BY <1>9 DEF ReadConfig, Runscript
  <2>2. cf' \in Configs \cup {NoConfig} /\ (cf # NoConfig => cf' = cf)
    BY <1>9, Loaded DEF ReadConfig, Runscript
  <2>3. UNCHANGED default_engine \/ (cf' \in WithEngine /\ default_engine' = cf')
    BY <1>9 DEF ReadConfig, Runscript
  <2>4. reply' \in [Threads -> Replies]
    BY <1>9 DEF ReadConfig, Runscript, Tell
  <2>5. TypeOK'
    BY <2>1, <2>2, <2>3, <2>4
  <2>6. OneInitializer' /\ FlagIsSet'
    BY <2>1 DEF OneInitializer, FlagIsSet
  <2>8. DefaultEngineIsCurrent'
    BY <2>2, <2>3, Loaded DEF DefaultEngineIsCurrent
  <2>7. BuiltinsSoFar' /\ SuccessIsComplete'
    BY <2>1 DEF BuiltinsSoFar, SuccessIsComplete
  <2> QED
    BY <2>5, <2>6, <2>7, <2>8
<1>10. CASE UNCHANGED vars
  BY <1>10
  DEF vars, OneInitializer, FlagIsSet, DefaultEngineIsCurrent,
      BuiltinsSoFar, SuccessIsComplete
<1> QED
  BY <1>1, <1>2, <1>3, <1>4, <1>5, <1>7, <1>8, <1>9, <1>10 DEF Next

\* The program is initialized by one call, which registers every builtin call
\* before it reports success (wiltoncall_init), and a default engine that
\* wiltoncall_runscript has cached is that of the configuration: also when the
\* configuration has been loaded by somebody else.
THEOREM Initialization ==
    Spec => [](TypeOK /\ OneInitializer /\ SuccessIsComplete /\ DefaultEngineIsCurrent)
<1>1. Inv /\ [Next]_vars => Inv'
  BY StepInv
<1>2. Inv => TypeOK /\ OneInitializer /\ SuccessIsComplete /\ DefaultEngineIsCurrent
  BY DEF Inv
<1> QED
  BY InitInv, <1>1, <1>2, PTL DEF Spec

\* A step that changes the reply of a thread to that of an exception is one of
\* wiltoncall_runscript that finds no default engine.
LEMMA EscapeStep ==
    ASSUME Inv, [Next]_vars, NEW t \in Threads,
           reply'[t] = "escaped", reply[t] # "escaped"
    PROVE  Runscript(t) /\ cf' \notin WithEngine
<1> USE DEF Inv, TypeOK, Tell
<1>1. PICK u \in Threads :
          \/ \E text \in Texts : CallInit(u, text)
          \/ TestAndSet(u) \/ SetConfig(u) \/ RegisterBuiltin(u) \/ ReturnInitialized(u)
          \/ ReadConfig(u) \/ Runscript(u)
  BY DEF vars, Next, Register, Remove
<1>2. ~\E text \in Texts : CallInit(u, text)
  BY DEF CallInit
<1>3. ~TestAndSet(u) /\ ~SetConfig(u)
  BY DEF TestAndSet, SetConfig
<1>4. ~RegisterBuiltin(u) /\ ~ReturnInitialized(u) /\ ~ReadConfig(u)
  BY DEF RegisterBuiltin, ReturnInitialized, ReadConfig
<1>5. Runscript(u)
  BY <1>1, <1>2, <1>3, <1>4
<1>6. u = t /\ cf' \notin WithEngine
  BY <1>5 DEF Runscript
<1> QED
  BY <1>5, <1>6

\* A configuration that is loaded is not replaced.
LEMMA LoadedStays ==
    ASSUME Inv, [Next]_vars, cf # NoConfig PROVE cf' = cf
<1> USE InitAssumption, Loaded DEF Inv
<1>1. ASSUME NEW t \in Threads, SetConfig(t) \/ ReadConfig(t) \/ Runscript(t) PROVE cf' = cf
  <2>1. config_json[t] \in Texts /\ EmptyText \in Texts
    BY DEF TypeOK, Texts
  <2> QED
    BY <1>1, <2>1 DEF SetConfig, ReadConfig, Runscript
<1> QED
  BY <1>1
  DEF vars, Next, CallInit, TestAndSet, RegisterBuiltin, ReturnInitialized, Register, Remove

\* Once a configuration with a default engine is loaded no exception leaves
\* wiltoncall_runscript any more, whoever has loaded it.
THEOREM NoLaterEscape == Spec => NoEscapeOnceConfigured
<1> DEFINE A == \A t \in Threads :
                    cf \in WithEngine =>
                        /\ cf' = cf
                        /\ (reply'[t] = "escaped" => reply[t] = "escaped")
<1>1. ASSUME Inv, [Next]_vars, NEW t \in Threads, cf \in WithEngine
      PROVE  cf' = cf /\ (reply'[t] = "escaped" => reply[t] = "escaped")
  <2>1. cf' = cf
    BY <1>1, InitAssumption, LoadedStays
  <2> QED
    BY <1>1, <2>1, EscapeStep
<1>2. Inv /\ [Next]_vars => [A]_vars
  BY <1>1
<1>3. Inv /\ [Next]_vars => Inv'
  BY StepInv
<1> QED
  BY InitInv, <1>2, <1>3, PTL DEF Spec, NoEscapeOnceConfigured

-----------------------------------------------------------------------------
(* An initialization that fails.                                           *)

\* Whoever was told of a failure has left the flag set.
FailedInv ==
    /\ FailedForGood
    /\ \A t \in Threads : reply[t] = "init_failed" => initialized

LEMMA FailedStep ==
    ASSUME Inv, FailedInv, [Next]_vars
    PROVE  FailedInv'
<1> USE DEF Inv, TypeOK, FailedInv, FailedForGood, Initializing, Tell
<1>1. ASSUME UNCHANGED <<initialized, pc, configured>>,
             \A u \in Threads : reply'[u] = "init_failed" => reply[u] = "init_failed"
      PROVE  FailedInv'
  BY <1>1
<1>2. ASSUME NEW t \in Threads, NEW text \in Texts, CallInit(t, text) PROVE FailedInv'
  BY <1>2 DEF CallInit
<1>3. ASSUME NEW t \in Threads, TestAndSet(t) PROVE FailedInv'
  BY <1>3 DEF TestAndSet
<1>4. ASSUME NEW t \in Threads, SetConfig(t) \/ RegisterBuiltin(t) PROVE FailedInv'
  <2>1. /\ configured' = NoConfig /\ initialized' = initialized /\ initialized
        /\ \A u \in Threads \ {t} : ~Initializing(u) /\ pc'[u] = pc[u] /\ reply'[u] = reply[u]
    BY <1>4 DEF SetConfig, RegisterBuiltin, OneInitializer, FlagIsSet
  <2>2. \A u \in Threads : reply[u] # "init_failed"
    BY <1>4 DEF SetConfig, RegisterBuiltin
  <2>3. reply' = reply \/ pc'[t] = "idle"
    BY <1>4 DEF SetConfig, RegisterBuiltin
  <2> QED
    BY <2>1, <2>2, <2>3
<1>5. ASSUME NEW t \in Threads, ReturnInitialized(t) PROVE FailedInv'
  BY <1>5 DEF ReturnInitialized
<1>6. ASSUME NEW t \in Threads, ReadConfig(t) \/ Runscript(t) PROVE FailedInv'
  BY <1>1, <1>6 DEF ReadConfig, Runscript
<1> QED
  BY <1>1, <1>2, <1>3, <1>4, <1>5, <1>6 DEF vars, Next, Register, Remove

\* When an initialization has failed no other has succeeded, before or after: the
\* flag that the failed one has set stays set (wiltoncall_init).
THEOREM FailureIsFinal == Spec => []FailedForGood
<1>1. Inv /\ [Next]_vars => Inv'
  BY StepInv
<1>2. Init => FailedInv
  BY DEF Init, FailedInv, FailedForGood
<1>3. Inv /\ FailedInv /\ [Next]_vars => FailedInv'
  BY FailedStep
<1>4. FailedInv => FailedForGood
  BY DEF FailedInv
<1> QED
  BY InitInv, <1>1, <1>2, <1>3, <1>4, PTL DEF Spec

-----------------------------------------------------------------------------
(* Where the configuration comes from.                                     *)

\* No configuration is loaded before the call that is let through loads the one
\* it was given.
OnlyInitLoads ==
    /\ ~initialized => cf = NoConfig
    /\ \A t \in Threads :
           /\ pc[t] = "config" => cf = NoConfig
           /\ pc[t] = "register" => cf = config_json[t]

LoadInv == OnlyInitLoads /\ ConfigIsFromInit

LEMMA LoadInvStep ==
    ASSUME EmptyText = Malformed, Inv, LoadInv, [Next]_vars
    PROVE  LoadInv'
<1> USE InitAssumption DEF Inv, TypeOK, Texts, Initializing, LoadInv
<1>1. ASSUME UNCHANGED <<initialized, cf, pc, config_json, configured>> PROVE LoadInv'
  BY <1>1 DEF OnlyInitLoads, ConfigIsFromInit
<1>2. ASSUME NEW t \in Threads, NEW text \in Texts, CallInit(t, text) PROVE LoadInv'
  BY <1>2 DEF CallInit, OnlyInitLoads, ConfigIsFromInit
<1>3. ASSUME NEW t \in Threads, TestAndSet(t) PROVE LoadInv'
  BY <1>3 DEF TestAndSet, OnlyInitLoads, ConfigIsFromInit
<1>4. ASSUME NEW t \in Threads, SetConfig(t) PROVE LoadInv'
  <2>1. pc[t] = "config" /\ cf = NoConfig /\ configured = NoConfig /\ initialized
    BY <1>4 DEF SetConfig, OnlyInitLoads, OneInitializer, FlagIsSet
  <2>2. cf' = IF config_json[t] \in Configs THEN config_json[t] ELSE NoConfig
    BY <1>4, <2>1 DEF SetConfig, ConfigAfter
  <2>3. \A u \in Threads \ {t} : ~Initializing(u)
    BY <2>1 DEF OneInitializer
  <2> QED
    BY <1>4, <2>1, <2>2, <2>3 DEF SetConfig, OnlyInitLoads, ConfigIsFromInit
<1>5. ASSUME NEW t \in Threads, RegisterBuiltin(t) \/ ReturnInitialized(t) PROVE LoadInv'
  <2>1. UNCHANGED <<initialized, cf, config_json>> /\ cf = config_json[t]
    BY <1>5 DEF RegisterBuiltin, ReturnInitialized, OnlyInitLoads
  <2>2. \A u \in Threads : pc'[u] = pc[u] \/ pc'[u] = "idle"
    BY <1>5 DEF RegisterBuiltin, ReturnInitialized
  <2>3. configured' \in {configured, config_json[t]}
    BY <1>5 DEF RegisterBuiltin, ReturnInitialized
  <2> QED
    BY <2>1, <2>2, <2>3 DEF OnlyInitLoads, ConfigIsFromInit
<1>6. ASSUME NEW t \in Threads, ReadConfig(t) \/ Runscript(t) PROVE LoadInv'
  <2>1. ConfigAfter(EmptyText) = cf
    BY DEF ConfigAfter
  <2> QED
    BY <1>1, <1>6, <2>1 DEF ReadConfig, Runscript
<1> QED
  BY <1>1, <1>2, <1>3, <1>4, <1>5, <1>6 DEF vars, Next, Register, Remove

\* The configuration of an initialized program is the one that was passed to
\* wiltoncall_init, when the text "", which wilton_config and
\* wiltoncall_runscript would load, does not parse.
THEOREM ConfigurationIsGiven ==
    ASSUME EmptyText = Malformed
    PROVE  Spec => []ConfigIsFromInit
<1>1. Inv /\ [Next]_vars => Inv'
  BY StepInv
<1>2. Init => LoadInv
  BY DEF Init, LoadInv, OnlyInitLoads, ConfigIsFromInit
<1>3. Inv /\ LoadInv /\ [Next]_vars => LoadInv'
  BY LoadInvStep
<1>4. LoadInv => ConfigIsFromInit
  BY DEF LoadInv
<1> QED
  BY InitInv, <1>1, <1>2, <1>3, <1>4, PTL DEF Spec
=============================================================================
