--------------------------- MODULE WiltoncallInit ---------------------------
(***************************************************************************)
(* The start of the program: wiltoncall_init and what it races with.       *)
(* Several threads may call it, and nothing keeps other entry points from  *)
(* being called before it has returned: modules register and remove calls, *)
(* wilton_config reads the configuration, wiltoncall_runscript caches the  *)
(* default engine.  The two static variables involved, the configuration   *)
(* and the default engine, are constructed by whoever comes first, and not *)
(* constructed when the constructor throws.  The registry's operations are *)
(* atomic (WiltoncallRegistryProofs, Refinement).                          *)
(***************************************************************************)
EXTENDS CallInterface, Sequences

CONSTANTS
    Builtins,            \* the calls wiltoncall_init registers, in order
    BuiltinFun,          \* their callbacks, which the rest does not register
    Configs,             \* configurations: the JSON texts that parse
    WithEngine,          \* those with a non-empty defaultScriptEngine
    NoConfig,            \* nothing has been loaded
    Malformed,           \* a text that does not parse
    EmptyText            \* what the text "" parses to: Malformed if it does not

ASSUME InitAssumption ==
    /\ Builtins \in Seq(Names)
    /\ BuiltinFun \in Funs
    /\ WithEngine \subseteq Configs
    /\ NoConfig \notin Configs
    /\ Malformed \notin Configs
    /\ EmptyText \in Configs \cup {Malformed}

VARIABLES
    initialized,       \* the atomic flag
    cf,                \* the static of shared_wiltoncall_config
    default_engine,    \* the configuration the static default_engine is from
    map,               \* the registry's map
    pc,                \* where in wiltoncall_init each thread is
    config_json,       \* the configuration each thread has passed to it
    registered,        \* how many calls it has registered
    reply,             \* what the last call of each thread was told
    configured,        \* history: what an initialization has succeeded with
    gone               \* history: the names that have been removed

vars == <<initialized, cf, default_engine, map, pc, config_json, registered, reply,
          configured, gone>>

Texts == Configs \cup {Malformed}

Replies == {"none", "initialized", "already_initialized", "init_failed",
            "config", "config_error", "called", "escaped"}

Initializing(t) == pc[t] \in {"config", "register"}

TypeOK ==
    /\ initialized \in BOOLEAN
    /\ cf \in Configs \cup {NoConfig}
    /\ default_engine \in WithEngine \cup {NoConfig}
    /\ map \in [Names -> Funs \cup {NoFun}]
    /\ pc \in [Threads -> {"idle", "flag", "config", "register"}]
    /\ config_json \in [Threads -> Texts]
    /\ registered \in [Threads -> 0..Len(Builtins)]
    /\ reply \in [Threads -> Replies]
    /\ configured \in Texts \cup {NoConfig}
    /\ gone \subseteq Names

Init ==
    /\ initialized = FALSE
    /\ cf = NoConfig
    /\ default_engine = NoConfig
    /\ map = [n \in Names |-> NoFun]
    /\ pc = [t \in Threads |-> "idle"]
    /\ config_json = [t \in Threads |-> Malformed]
    /\ registered = [t \in Threads |-> 0]
    /\ reply = [t \in Threads |-> "none"]
    /\ configured = NoConfig
    /\ gone = {}

-----------------------------------------------------------------------------
Tell(t, what) == reply' = [reply EXCEPT ![t] = what]

\* Variant: the configuration is parsed from every text anew.
ConfigReparsed(text) ==
    IF text \in Configs THEN text ELSE NoConfig

\* Variant: the text is kept whether it parses or not.
ConfigUnparsed(text) ==
    IF cf # NoConfig THEN cf ELSE text

\* shared_wiltoncall_config(text): the static is constructed from the text of
\* the first call that does not throw, later texts are not looked at.
ConfigAfter(text) ==
    IF cf # NoConfig THEN cf ELSE IF text \in Configs THEN text ELSE NoConfig

\* A text that is null or of a bad length is refused before anything is looked
\* at, which changes nothing and is left out.
CallInit(t, text) ==
    /\ pc[t] = "idle"
    /\ pc' = [pc EXCEPT ![t] = "flag"]
    /\ config_json' = [config_json EXCEPT ![t] = text]
    /\ registered' = [registered EXCEPT ![t] = 0]
    /\ Tell(t, "none")
    /\ UNCHANGED <<initialized, cf, default_engine, map, configured, gone>>

\* Variant: the flag is tested only.
TestOnly(t) ==
    /\ pc[t] = "flag"
    /\ \/ /\ initialized
          /\ pc' = [pc EXCEPT ![t] = "idle"]
          /\ Tell(t, "already_initialized")
       \/ /\ ~initialized
          /\ pc' = [pc EXCEPT ![t] = "config"]
          /\ UNCHANGED reply
    /\ UNCHANGED <<initialized, cf, default_engine, map, config_json, registered,
                   configured, gone>>

TestAndSet(t) ==
    /\ pc[t] = "flag"
    /\ initialized' = TRUE
    /\ \/ /\ initialized
          /\ pc' = [pc EXCEPT ![t] = "idle"]
          /\ Tell(t, "already_initialized")
       \/ /\ ~initialized
          /\ pc' = [pc EXCEPT ![t] = "config"]
          /\ UNCHANGED reply
    /\ UNCHANGED <<cf, default_engine, map, config_json, registered, configured, gone>>

\* Variant: the flag is given back when the configuration does not parse.
SetConfigAgain(t) ==
    /\ pc[t] = "config"
    /\ cf' = ConfigAfter(config_json[t])
    /\ \/ /\ cf' = NoConfig
          /\ pc' = [pc EXCEPT ![t] = "idle"]
          /\ initialized' = FALSE
          /\ Tell(t, "init_failed")
       \/ /\ cf' # NoConfig
          /\ pc' = [pc EXCEPT ![t] = "register"]
          /\ UNCHANGED <<initialized, reply>>
    /\ UNCHANGED <<default_engine, map, config_json, registered, configured, gone>>

\* The flag stays set when the configuration does not parse.
SetConfig(t) ==
    /\ pc[t] = "config"
    /\ cf' = ConfigAfter(config_json[t])
    /\ \/ /\ cf' = NoConfig
          /\ pc' = [pc EXCEPT ![t] = "idle"]
          /\ Tell(t, "init_failed")
       \/ /\ cf' # NoConfig
          /\ pc' = [pc EXCEPT ![t] = "register"]
          /\ UNCHANGED reply
    /\ UNCHANGED <<initialized, default_engine, map, config_json, registered,
                   configured, gone>>

CanPut(n) == ~Full(map) /\ n \notin Registered(map)

\* Variant: the error of a registration is ignored.
RegisterIgnoring(t) ==
    /\ pc[t] = "register"
    /\ registered[t] < Len(Builtins)
    /\ LET n == Builtins[registered[t] + 1] IN
           map' = IF CanPut(n) THEN [map EXCEPT ![n] = BuiltinFun] ELSE map
    /\ registered' = [registered EXCEPT ![t] = @ + 1]
    /\ UNCHANGED <<initialized, cf, default_engine, pc, config_json, reply,
                   configured, gone>>

\* register_wiltoncall throws when the registry refuses the name; the calls
\* registered before stay registered.
RegisterBuiltin(t) ==
    /\ pc[t] = "register"
    /\ registered[t] < Len(Builtins)
    /\ LET n == Builtins[registered[t] + 1] IN
           \/ /\ CanPut(n)
              /\ map' = [map EXCEPT ![n] = BuiltinFun]
              /\ registered' = [registered EXCEPT ![t] = @ + 1]
              /\ UNCHANGED <<pc, reply>>
           \/ /\ ~CanPut(n)
              /\ pc' = [pc EXCEPT ![t] = "idle"]
              /\ Tell(t, "init_failed")
              /\ UNCHANGED <<map, registered>>
    /\ UNCHANGED <<initialized, cf, default_engine, config_json, configured, gone>>

ReturnInitialized(t) ==
    /\ pc[t] = "register"
    /\ registered[t] = Len(Builtins)
    /\ pc' = [pc EXCEPT ![t] = "idle"]
    /\ Tell(t, "initialized")
    /\ configured' = config_json[t]
    /\ UNCHANGED <<initialized, cf, default_engine, map, config_json, registered, gone>>

-----------------------------------------------------------------------------
\* wiltoncall_register and wiltoncall_remove, called by anyone at any time.
Register(t, n, f) ==
    /\ pc[t] = "idle"
    /\ CanPut(n)
    /\ map' = [map EXCEPT ![n] = f]
    /\ UNCHANGED <<initialized, cf, default_engine, pc, config_json, registered,
                   reply, configured, gone>>

Remove(t, n) ==
    /\ pc[t] = "idle"
    /\ n \in Registered(map)
    /\ map' = [map EXCEPT ![n] = NoFun]
    /\ gone' = gone \cup {n}
    /\ UNCHANGED <<initialized, cf, default_engine, pc, config_json, registered,
                   reply, configured>>

\* Variant: the value is moved out of the static to be written.
ReadMoved(t) ==
    /\ pc[t] = "idle"
    /\ cf' = NoConfig
    /\ Tell(t, IF cf = NoConfig THEN "config_error" ELSE "config")
    /\ UNCHANGED <<initialized, default_engine, map, pc, config_json, registered,
                   configured, gone>>

\* wilton_config and the call get_wiltoncall_config: they pass the default
\* argument "" to shared_wiltoncall_config.
ReadConfig(t) ==
    /\ pc[t] = "idle"
    /\ cf' = ConfigAfter(EmptyText)
    /\ Tell(t, IF cf' = NoConfig THEN "config_error" ELSE "config")
    /\ UNCHANGED <<initialized, default_engine, map, pc, config_json, registered,
                   configured, gone>>

\* wiltoncall_runscript: the static is constructed outside of the try block,
\* whatever engine the caller asks for, so that its exception reaches the
\* caller.  What follows is the check of the parameters and an ordinary
\* wiltoncall.
Runscript(t) ==
    /\ pc[t] = "idle"
    /\ \/ /\ default_engine # NoConfig
          /\ Tell(t, "called")
          /\ UNCHANGED <<cf, default_engine>>
       \/ /\ default_engine = NoConfig
          /\ cf' = ConfigAfter(EmptyText)
          /\ \/ /\ cf' \in WithEngine
                /\ default_engine' = cf'
                /\ Tell(t, "called")
             \/ /\ cf' \notin WithEngine
                /\ Tell(t, "escaped")
                /\ UNCHANGED default_engine
    /\ UNCHANGED <<initialized, map, pc, config_json, registered, configured, gone>>

Next ==
    \E t \in Threads :
        \/ \E text \in Texts : CallInit(t, text)
        \/ TestAndSet(t) \/ SetConfig(t) \/ RegisterBuiltin(t) \/ ReturnInitialized(t)
        \/ \E n \in Names, f \in Funs \ {BuiltinFun} : Register(t, n, f)
        \/ \E n \in Names : Remove(t, n)
        \/ ReadConfig(t) \/ Runscript(t)

Spec == Init /\ [][Next]_vars

-----------------------------------------------------------------------------
\* The program is initialized by one call of wiltoncall_init: while one runs no
\* other does, and when one has succeeded none runs again (the atomic flag).
OneInitializer ==
    \A t \in Threads :
        Initializing(t) =>
            /\ configured = NoConfig
            /\ \A u \in Threads \ {t} : ~Initializing(u)

\* The configuration of an initialized program is the one its initialization
\* was given, although wilton_config and wiltoncall_runscript load one too when
\* they are called first (shared_wiltoncall_config).
ConfigIsFromInit == configured # NoConfig => cf = configured

\* An initialization that reports success has registered every builtin call,
\* and each is still the program's unless somebody has removed it: names taken
\* by others before or meanwhile make it fail.
SuccessIsComplete ==
    configured # NoConfig =>
        \A k \in 1..Len(Builtins) :
            map[Builtins[k]] = BuiltinFun \/ Builtins[k] \in gone

\* Of the calls of wiltoncall_init one gets past the flag, for good: when that one
\* has failed, wherever it stopped, no other has initialized the program or will,
\* so that the calls it left behind are never those of an initialized program.
FailedForGood ==
    (\E t \in Threads : reply[t] = "init_failed") =>
        configured = NoConfig /\ \A u \in Threads : ~Initializing(u)

\* The default engine that wiltoncall_runscript has cached is that of the
\* configuration, at whatever moment each of the two statics was constructed.
DefaultEngineIsCurrent ==
    default_engine # NoConfig => default_engine = cf

\* While a configuration with a default engine is loaded no exception leaves
\* wiltoncall_runscript, and that stays so: initialization with such a
\* configuration closes the window in which exceptions cross the C interface.
NoEscapeOnceConfigured ==
    [][\A t \in Threads :
           cf \in WithEngine =>
               /\ cf' = cf
               /\ (reply'[t] = "escaped" => reply[t] = "escaped")]_vars
=============================================================================
