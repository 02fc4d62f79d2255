--------------------------- MODULE RegistryProofs ---------------------------
(***************************************************************************)
(* What holds of the configuration, the routes and the registry of caches  *)
(* for any files, any names and any number of concurrent calls.  IInv is   *)
(* shown to be inductive, one part after the other; the theorems at the    *)
(* end follow from it and from what ConfigProofs and RouterProofs say of   *)
(* one configuration.                                                      *)
(***************************************************************************)
EXTENDS RegistryProperties, ConfigProofs, RouterProofs, WellFoundedInduction

-----------------------------------------------------------------------------
(***************************************************************************)
(* Configurations in force.                                                *)
(***************************************************************************)
Loaded(c) == \E f \in Files : Accepted(f) /\ c = Effective(f)

\* A loaded configuration can be worked with (config.go:229).
LEMMA LoadedIsUsable ==
    ASSUME NEW c, Loaded(c)
    PROVE  Usable(c)
<1>1. PICK f \in Files : Accepted(f) /\ c = Effective(f)
    BY DEF Loaded
<1>2. f \in RawConfigs
    BY FilesAssumption
<1> QED
    BY <1>1, <1>2, AcceptedIsUsable

\* Its proxies are listed, named as in the file, and known.
LEMMA LoadedParts ==
    ASSUME NEW c, Loaded(c)
    PROVE  /\ \E n \in Nat : DOMAIN c.proxies = 1..n
           /\ \A i \in DOMAIN c.proxies :
                 /\ c.proxies[i].name \in Names
                 /\ c.proxies[i].name \in Seq(STRING)
                 /\ c.proxies[i] \in Settings
           /\ c # None
<1>1. PICK f \in Files : Accepted(f) /\ c = Effective(f)
    BY DEF Loaded
<1>2. f \in RawConfigs
    BY FilesAssumption
<1>3. f.proxies \in Seq(RawProxies)
    BY <1>2 DEF RawConfigs
<1>4. c.proxies = [i \in DOMAIN f.proxies |-> ProxyDefaults(f.proxies[i])]
    BY <1>1, <1>2 DEF Effective, RawConfigs
<1>5. DOMAIN c.proxies = 1..Len(f.proxies) /\ Len(f.proxies) \in Nat
    BY <1>3, <1>4
<1>6. ASSUME NEW i \in DOMAIN c.proxies
      PROVE  /\ c.proxies[i].name \in Names
             /\ c.proxies[i].name \in Seq(STRING)
             /\ c.proxies[i] \in Settings
    <2>1. i \in DOMAIN f.proxies /\ f.proxies[i] \in RawProxies
        BY <1>3, <1>4
    <2>2. c.proxies[i].name = f.proxies[i].name
        <3>1. ProxyDefaults(f.proxies[i]).name = f.proxies[i].name
            BY <2>1 DEF ProxyDefaults, RawProxies
        <3> QED
            BY <1>4, <2>1, <3>1
    <2>3. f.proxies[i].name \in Seq(STRING)
        BY <2>1 DEF RawProxies
    <2>4. f.proxies[i].name \in Names
        BY <1>1, <2>1, FilesAssumption DEF NamesIn
    <2>5. c.proxies[i] \in {Effective(f).proxies[j] : j \in DOMAIN f.proxies}
        BY <1>1, <2>1
    <2>6. c.proxies[i] \in Settings
        BY <1>1, <2>5 DEF Settings
    <2> QED
        BY <2>2, <2>3, <2>4, <2>6
<1>7. c # None
    BY <1>1, NoneAssumption
<1> QED
    BY <1>5, <1>6, <1>7

\* The routes of a loaded configuration are those RouterProofs speaks of.
LEMMA LoadedIsNamed ==
    ASSUME NEW c, Loaded(c)
    PROVE  Named(c)
<1>1. PICK n \in Nat : DOMAIN c.proxies = 1..n
    BY LoadedParts
<1>2. DOMAIN c.proxies \subseteq Nat \ {0}
    BY <1>1
<1> QED
    BY <1>2, LoadedParts DEF Named

\* The list of its names has these names.
LEMMA LoadedNames ==
    ASSUME NEW c, Loaded(c)
    PROVE  /\ NamesOf(c) \in Seq(Names)
           /\ Elements(NamesOf(c)) = NamesIn(c)
           /\ NamesIn(c) \subseteq Names
<1>1. PICK n \in Nat : DOMAIN c.proxies = 1..n
    BY LoadedParts
<1>2. NamesOf(c) = [i \in 1..n |-> c.proxies[i].name]
    BY <1>1 DEF NamesOf
<1>3. \A i \in 1..n : c.proxies[i].name \in Names
    BY <1>1, LoadedParts
<1>4. NamesOf(c) \in Seq(Names)
    BY <1>2, <1>3
<1>5. Elements(NamesOf(c)) = {c.proxies[i].name : i \in 1..n}
    BY <1>2 DEF Elements
<1>6. NamesIn(c) = {c.proxies[i].name : i \in 1..n}
    BY <1>1 DEF NamesIn
<1> QED
    BY <1>3, <1>4, <1>5, <1>6

\* A set of numbers has a least element.
LEMMA Least ==
    ASSUME NEW T, T \subseteq Nat, T # {}
    PROVE  \E x \in T : \A y \in T : x <= y
<1> DEFINE R == OpToRel(<, Nat)
<1>1. IsWellFoundedOn(R, Nat)
    BY NatLessThanWellFounded
<1>2. \A x, y \in Nat : y < x => <<y, x>> \in R
    BY DEF OpToRel
<1> HIDE DEF R
<1>3. PICK x \in T : \A y \in T : ~(<<y, x>> \in R)
    BY <1>1, WFMin
<1>4. \A y \in T : ~(y < x)
    BY <1>2, <1>3
<1> QED
    BY <1>4

\* BuildInstance finds a proxy of the name it looks for (cache.go:103).
LEMMA FirstIsNamed ==
    ASSUME NEW c, Loaded(c), NEW n \in NamesIn(c)
    PROVE  FirstNamed(c, n).name = n /\ FirstNamed(c, n) \in Settings
<1> DEFINE T == {i \in DOMAIN c.proxies : c.proxies[i].name = n}
           Is(i) == /\ c.proxies[i].name = n
                    /\ \A j \in DOMAIN c.proxies : c.proxies[j].name = n => i <= j
<1>1. DOMAIN c.proxies \subseteq Nat
    BY LoadedIsNamed DEF Named
<1>2. T \subseteq Nat /\ T # {}
    BY <1>1 DEF NamesIn
<1>3. PICK x \in T : \A y \in T : x <= y
    BY <1>2, Least
<1>4. \E i \in DOMAIN c.proxies : Is(i)
    BY <1>3
<1> DEFINE k == CHOOSE i \in DOMAIN c.proxies : Is(i)
<1>5. k \in DOMAIN c.proxies /\ Is(k)
    BY <1>4
<1>6. FirstNamed(c, n) = c.proxies[k]
    BY DEF FirstNamed
<1>7. c.proxies[k].name = n /\ c.proxies[k] \in Settings
    BY <1>5, LoadedParts
<1> QED
    BY <1>6, <1>7

\* What a configuration in force may hold is named.
LEMMA SettingsNamed ==
    ASSUME NEW p \in Settings
    PROVE  p.name \in Names /\ p # None
<1>1. PICK f \in {g \in Files : Accepted(g)} :
         p \in {Effective(f).proxies[i] : i \in DOMAIN f.proxies}
    BY DEF Settings
<1>2. PICK i \in DOMAIN f.proxies : p = Effective(f).proxies[i]
    BY <1>1
<1> DEFINE c == Effective(f)
<1>3. Loaded(c)
    BY <1>1 DEF Loaded
<1>4. DOMAIN c.proxies = DOMAIN f.proxies
    <2>1. f \in RawConfigs
        BY <1>1, FilesAssumption
    <2> QED
        BY <2>1 DEF Effective, RawConfigs
<1> HIDE DEF c
<1>5. c.proxies[i].name \in Names
    BY <1>2, <1>3, <1>4, LoadedParts
<1>6. p = c.proxies[i]
    BY <1>2 DEF c
<1> QED
    BY <1>5, <1>6, NoneAssumption

-----------------------------------------------------------------------------
(***************************************************************************)
(* The inductive invariant, in parts.  First the types, what a process     *)
(* that is down lacks, and what a call that builds has in hand.            *)
(***************************************************************************)
Building(c) == pc[c] \in {"open", "register", "store"}

Typed ==
    /\ up \in BOOLEAN
    /\ DOMAIN caches = Names
    /\ registered \subseteq Names
    /\ pc \in [Calls -> Labels]
    /\ todo \in [Calls -> Seq(Names)]
    /\ building \in [Calls -> Settings \cup {None}]
    /\ keep \in [Calls -> SUBSET Names]
    /\ doomed \in [Calls -> SUBSET Names]
    /\ DOMAIN answer = Calls
    /\ started \in 0..MaxCalls
    /\ overlapped \in [Calls -> BOOLEAN]
    /\ spoiled \in BOOLEAN

InForce == up => Loaded(config) /\ Loaded(wired)

Down == ~up => registered = {} /\ serving = <<>> /\ \A c \in Calls : pc[c] = "idle"

InHand == \A c \in Calls : building[c] # None <=> Building(c)

Base == Typed /\ InForce /\ Down /\ InHand

\* A process that boots has loaded a configuration.
LEMMA BootLoads ==
    ASSUME Boot
    PROVE  /\ ~up /\ up' = TRUE
           /\ Loaded(config') /\ wired' = config'
           /\ registered' = NamesIn(wired')
           /\ caches' = [n \in Names |->
                           IF n \in NamesIn(wired')
                             THEN NewCache(FirstNamed(wired', n), "boot") ELSE None]
           /\ serving' = [i \in DOMAIN wired'.proxies |-> caches'[wired'.proxies[i].name]]
           /\ UNCHANGED <<callVars, history>>
<1>1. PICK f \in {g \in Files : Accepted(g)} :
          LET c == Effective(f)
              built == [n \in Names |->
                          IF n \in NamesIn(c) THEN NewCache(FirstNamed(c, n), "boot") ELSE None]
          IN  /\ config' = c
              /\ caches' = built
              /\ registered' = NamesIn(c)
              /\ wired' = c
              /\ serving' = [i \in DOMAIN c.proxies |-> built[c.proxies[i].name]]
    BY DEF Boot
<1>2. Loaded(Effective(f))
    BY <1>1 DEF Loaded
<1> QED
    BY <1>1, <1>2 DEF Boot

\* Nothing is lost at a boot that a new process would have.
LEMMA BootKeepsBase ==
    ASSUME Base, Boot
    PROVE  Base'
<1>1. /\ up' = TRUE /\ Loaded(config') /\ Loaded(wired')
      /\ registered' = NamesIn(wired')
      /\ DOMAIN caches' = Names
      /\ UNCHANGED <<callVars, history>>
    BY BootLoads
<1>2. registered' \subseteq Names
    BY <1>1, LoadedNames
<1> QED
    BY <1>1, <1>2 DEF Base, Typed, InForce, Down, InHand, Building, callVars, history

\* A process that dies leaves what it began with.
LEMMA DieKeepsBase ==
    ASSUME Base, Die
    PROVE  Base'
<1>1. /\ up' = FALSE /\ registered' = {} /\ serving' = <<>>
      /\ DOMAIN caches' = Names
      /\ pc' = [c \in Calls |-> "idle"]
      /\ todo' = [c \in Calls |-> <<>>]
      /\ building' = [c \in Calls |-> None]
      /\ keep' = [c \in Calls |-> {}]
      /\ doomed' = [c \in Calls |-> {}]
      /\ DOMAIN answer' = Calls
      /\ started' = 0
      /\ overlapped' = [c \in Calls |-> FALSE]
      /\ spoiled' = FALSE
    BY DEF Die
<1>2. todo' \in [Calls -> Seq(Names)]
    BY <1>1
<1>3. started' \in 0..MaxCalls
    BY <1>1, FilesAssumption
<1> QED
    BY <1>1, <1>2, <1>3 DEF Base, Typed, InForce, Down, InHand, Building, Labels

\* A call that is not idle belongs to a process that is up.
LEMMA BusyIsUp ==
    ASSUME Base, NEW c \in Calls, pc[c] # "idle"
    PROVE  up = TRUE
BY DEF Base, Typed, Down

\* What Finish leaves of a call.
LEMMA FinishKeeps ==
    ASSUME Base, NEW c \in Calls, NEW call, NEW status, NEW error,
           Finish(c, call, status, error),
           up' = up, UNCHANGED <<wired, serving>>, DOMAIN caches' = Names,
           up => Loaded(config'),
           registered' \subseteq Names, up = TRUE,
           started' \in 0..MaxCalls, overlapped' \in [Calls -> BOOLEAN], spoiled' \in BOOLEAN
    PROVE  Base'
<1>1. /\ pc' = [pc EXCEPT ![c] = "idle"]
      /\ todo' = [todo EXCEPT ![c] = <<>>]
      /\ building' = [building EXCEPT ![c] = None]
      /\ keep' = [keep EXCEPT ![c] = {}]
      /\ doomed' = [doomed EXCEPT ![c] = {}]
      /\ DOMAIN answer' = DOMAIN answer
    BY DEF Finish, Goto
<1>2. Typed'
    <2>1. <<>> \in Seq(Names)
        OBVIOUS
    <2> QED
        BY <1>1, <2>1 DEF Base, Typed, Labels
<1>3. InHand'
    BY <1>1 DEF Base, Typed, InHand, Building
<1> QED
    BY <1>2, <1>3 DEF Base, InForce, Down

\* A call goes on without a proxy in hand: it had none, or lets go of it.
LEMMA GoesOnEmpty ==
    ASSUME Base, NEW c \in Calls, NEW label \in Labels \ {"open", "register", "store"},
           Goto(c, label), building' = [building EXCEPT ![c] = None]
    PROVE  InHand' /\ pc' \in [Calls -> Labels] /\ building' \in [Calls -> Settings \cup {None}]
BY DEF Base, Typed, InHand, Building, Goto

\* What is in hand stays what it was where pc moves between labels of a kind.
LEMMA HandUnchanged ==
    ASSUME Base, NEW c \in Calls, NEW label \in Labels,
           Goto(c, label), UNCHANGED building,
           label \in {"open", "register", "store"} <=> Building(c)
    PROVE  InHand' /\ pc' \in [Calls -> Labels] /\ building' \in [Calls -> Settings \cup {None}]
BY DEF Base, Typed, InHand, Building, Goto

\* The steps of a reload keep the base of the invariant.
LEMMA LoadKeepsBase ==
    ASSUME Base, NEW c \in Calls, Load(c)
    PROVE  Base'
<1>1. pc[c] = "load" /\ up = TRUE
    BY BusyIsUp DEF Load
<1>2. UNCHANGED <<up, wired, serving, caches, registered, started, overlapped, spoiled>>
    BY DEF Load, history
<1>3. CASE Finish(c, "reload", "failed", "unreadable") /\ UNCHANGED config
    BY <1>1, <1>2, <1>3, FinishKeeps DEF Base, Typed, InForce
<1>4. CASE \E f \in Files : Finish(c, "reload", "failed", Refusal(f)) /\ UNCHANGED config
    <2>1. PICK f \in Files : Finish(c, "reload", "failed", Refusal(f)) /\ UNCHANGED config
        BY <1>4
    <2> QED
        BY <1>1, <1>2, <2>1, FinishKeeps DEF Base, Typed, InForce
<1>5. CASE \E f \in Files : /\ Accepted(f) /\ config' = Effective(f)
                            /\ Goto(c, "init")
                            /\ UNCHANGED <<todo, building, keep, doomed, answer>>
    <2>1. Loaded(config')
        BY <1>5 DEF Loaded
    <2>2. InHand' /\ pc' \in [Calls -> Labels] /\ building' \in [Calls -> Settings \cup {None}]
        BY <1>1, <1>5, HandUnchanged DEF Labels, Building
    <2> QED
        BY <1>1, <1>2, <1>5, <2>1, <2>2 DEF Base, Typed, InForce, Down
<1> QED
    BY <1>3, <1>4, <1>5 DEF Load

\* cache.Init lists the names that are configured.
LEMMA BeginInitKeepsBase ==
    ASSUME Base, NEW c \in Calls, BeginInit(c)
    PROVE  Base'
<1>1. pc[c] = "init" /\ up = TRUE
    BY BusyIsUp DEF BeginInit
<1>2. NamesOf(config) \in Seq(Names)
    BY <1>1, LoadedNames DEF Base, InForce
<1>3. InHand' /\ pc' \in [Calls -> Labels] /\ building' \in [Calls -> Settings \cup {None}]
    BY <1>1, HandUnchanged DEF Labels, Building, BeginInit
<1> QED
    BY <1>1, <1>2, <1>3
    DEF BeginInit, Base, Typed, InForce, Down, regVars, history

\* A name without a cache is looked up, and its proxy is taken in hand.
LEMMA NextProxyKeepsBase ==
    ASSUME Base, NEW c \in Calls, NextProxy(c)
    PROVE  Base'
<1>1. pc[c] = "next" /\ up = TRUE /\ todo[c] # <<>> /\ todo[c] \in Seq(Names)
    BY BusyIsUp DEF NextProxy, Base, Typed
<1>2. Tail(todo[c]) \in Seq(Names)
    BY <1>1
<1>3. InHand' /\ pc' \in [Calls -> Labels] /\ building' \in [Calls -> Settings \cup {None}]
    <2> DEFINE n == Head(todo[c])
    <2>1. CASE /\ n \in NamesIn(config)
               /\ building' = [building EXCEPT ![c] = FirstNamed(config, n)]
               /\ Goto(c, "open")
        <3>1. FirstNamed(config, n) \in Settings
            BY <1>1, <2>1, FirstIsNamed DEF Base, InForce
        <3>2. FirstNamed(config, n) # None
            BY <3>1, SettingsNamed
        <3> HIDE DEF n
        <3> QED
            BY <2>1, <3>1, <3>2 DEF Base, Typed, InHand, Building, Goto, Labels
    <2>2. CASE UNCHANGED <<building, pc>>
        BY <2>2 DEF Base, Typed, InHand, Building
    <2> QED
        BY <2>1, <2>2 DEF NextProxy
<1> QED
    BY <1>1, <1>2, <1>3
    DEF NextProxy, Base, Typed, InForce, Down, regVars, history

\* The levels of a cache open, or the reload fails and lets go of the proxy.
LEMMA OpenLevelsKeepsBase ==
    ASSUME Base, NEW c \in Calls, OpenLevels(c)
    PROVE  Base'
<1>1. pc[c] = "open" /\ up = TRUE
    BY BusyIsUp DEF OpenLevels
<1>2. UNCHANGED <<regVars, started, overlapped>>
    BY DEF OpenLevels
<1>3. CASE Finish(c, "reload", "failed", "ErrBuildInstance") /\ spoiled' = TRUE
    BY <1>1, <1>2, <1>3, FinishKeeps DEF Base, Typed, InForce, regVars
<1>4. CASE Goto(c, "register") /\ UNCHANGED <<todo, building, keep, doomed, answer, spoiled>>
    <2>1. InHand' /\ pc' \in [Calls -> Labels] /\ building' \in [Calls -> Settings \cup {None}]
        BY <1>1, <1>4, HandUnchanged DEF Labels, Building
    <2> QED
        BY <1>1, <1>2, <1>4, <2>1 DEF Base, Typed, InForce, Down, regVars
<1> QED
    BY <1>3, <1>4 DEF OpenLevels

\* The metrics are registered, or registering them panics.
LEMMA RegisterKeepsBase ==
    ASSUME Base, NEW c \in Calls, Register(c)
    PROVE  Base'
<1>1. pc[c] = "register" /\ up = TRUE
    BY BusyIsUp DEF Register
<1>2. UNCHANGED <<up, config, wired, serving, caches, started, overlapped>>
    BY DEF Register
<1>3. building[c].name \in Names
    <2>1. building[c] \in Settings
        BY <1>1 DEF Base, Typed, InHand, Building
    <2> QED
        BY <2>1, SettingsNamed
<1>4. CASE /\ Finish(c, "reload", "panic", "duplicate metrics")
           /\ spoiled' = TRUE
           /\ UNCHANGED registered
    BY <1>1, <1>2, <1>4, FinishKeeps DEF Base, Typed, InForce
<1>5. CASE /\ registered' = registered \cup {building[c].name}
           /\ Goto(c, "store")
           /\ UNCHANGED <<todo, building, keep, doomed, answer, spoiled>>
    <2>1. InHand' /\ pc' \in [Calls -> Labels] /\ building' \in [Calls -> Settings \cup {None}]
        BY <1>1, <1>5, HandUnchanged DEF Labels, Building
    <2>2. registered' \subseteq Names
        BY <1>3, <1>5 DEF Base, Typed
    <2> QED
        BY <1>1, <1>2, <1>5, <2>1, <2>2 DEF Base, Typed, InForce, Down
<1> QED
    BY <1>4, <1>5 DEF Register

\* The new cache is stored and the proxy let go of.
LEMMA StoreKeepsBase ==
    ASSUME Base, NEW c \in Calls, Store(c)
    PROVE  Base'
<1>1. pc[c] = "store" /\ up = TRUE
    BY BusyIsUp DEF Store
<1>2. DOMAIN caches' = Names
    BY DEF Store, Base, Typed
<1>3. InHand' /\ pc' \in [Calls -> Labels] /\ building' \in [Calls -> Settings \cup {None}]
    BY GoesOnEmpty DEF Store, Labels
<1> QED
    BY <1>1, <1>2, <1>3 DEF Store, Base, Typed, InForce, Down, history

\* Caches are wiped.
LEMMA WipeStepsKeepBase ==
    ASSUME Base, NEW c \in Calls, BeginWipe(c) \/ Wipe(c) \/ EndReload(c)
    PROVE  Base'
<1>1. CASE BeginWipe(c)
    <2>1. pc[c] = "next" /\ up = TRUE
        BY <1>1, BusyIsUp DEF BeginWipe
    <2>2. NamesIn(config) \subseteq Names
        BY <2>1, LoadedNames DEF Base, InForce
    <2>3. InHand' /\ pc' \in [Calls -> Labels] /\ building' \in [Calls -> Settings \cup {None}]
        BY <1>1, <2>1, HandUnchanged DEF Labels, Building, BeginWipe
    <2> QED
        BY <1>1, <2>1, <2>2, <2>3
        DEF BeginWipe, Base, Typed, InForce, Down, Cached, regVars, history
<1>2. CASE Wipe(c)
    <2>1. pc[c] = "wipe" /\ up = TRUE
        BY <1>2, BusyIsUp DEF Wipe
    <2>2. DOMAIN caches' = Names
        BY <1>2 DEF Wipe, Base, Typed
    <2> QED
        BY <1>2, <2>1, <2>2
        DEF Wipe, Base, Typed, InForce, Down, InHand, Building, callVars, history
<1>3. CASE EndReload(c)
    <2>1. pc[c] = "wipe" /\ up = TRUE
        BY <1>3, BusyIsUp DEF EndReload
    <2>2. /\ UNCHANGED <<regVars, started, overlapped>>
          /\ spoiled' \in BOOLEAN
          /\ Finish(c, "reload", "ok", "none")
        BY <1>3 DEF EndReload, Base, Typed
    <2> QED
        BY <2>1, <2>2, FinishKeeps DEF Base, Typed, InForce, regVars
<1> QED
    BY <1>1, <1>2, <1>3

\* A flush goes on to its next name, panics, or ends.
LEMMA FlushStepsKeepBase ==
    ASSUME Base, NEW c \in Calls, FlushNext(c) \/ EndFlush(c)
    PROVE  Base'
<1>1. pc[c] = "flush" /\ up = TRUE
    BY BusyIsUp DEF FlushNext, EndFlush
<1>2. UNCHANGED <<regVars, history>>
    BY DEF FlushNext, EndFlush
<1>3. CASE Finish(c, "flush", "panic", "nil cache") \/ Finish(c, "flush", "ok", "none")
    BY <1>1, <1>2, <1>3, FinishKeeps DEF Base, Typed, InForce, regVars, history
<1>4. CASE /\ todo[c] # <<>>
           /\ todo' = [todo EXCEPT ![c] = Tail(@)]
           /\ UNCHANGED <<pc, building, keep, doomed, answer>>
    <2>1. todo[c] \in Seq(Names)
        BY DEF Base, Typed
    <2>2. Tail(todo[c]) \in Seq(Names)
        BY <1>4, <2>1
    <2> QED
        BY <1>2, <1>4, <2>2
        DEF Base, Typed, InForce, Down, InHand, Building, regVars, history
<1> QED
    BY <1>3, <1>4 DEF FlushNext, EndFlush

\* Calls that begin.
BeginsFlush(c) ==
    BeginFlushAll(c) \/ FlushAllBySlash(c) \/ \E n \in Names : BeginFlush(c, n)

\* A reload begins.
LEMMA BeginReloadKeepsBase ==
    ASSUME Base, NEW c \in Calls, BeginReload(c)
    PROVE  Base'
<1>1. /\ pc[c] = "idle" /\ up /\ started < MaxCalls /\ started' = started + 1
    BY DEF BeginReload, Begin
<1>2. started' \in 0..MaxCalls
    BY <1>1, FilesAssumption DEF Base, Typed
<1>3. InHand' /\ pc' \in [Calls -> Labels] /\ building' \in [Calls -> Settings \cup {None}]
    BY <1>1, HandUnchanged DEF Labels, Building, BeginReload
<1>4. overlapped' \in [Calls -> BOOLEAN]
    <2>1. \A d \in Calls : overlapped[d] \in BOOLEAN
        BY DEF Base, Typed
    <2>2. overlapped' = [d \in Calls |->
              IF d = c THEN \E e \in Calls : Reloading(e)
              ELSE overlapped[d] \/ pc[d] # "idle"]
        BY DEF BeginReload
    <2>3. \A d \in Calls : overlapped'[d] \in BOOLEAN
        BY <2>1, <2>2
    <2> QED
        BY <2>2, <2>3
<1>5. DOMAIN answer' = Calls
    BY DEF BeginReload, Base, Typed
<1> QED
    BY <1>1, <1>2, <1>3, <1>4, <1>5
    DEF BeginReload, Base, Typed, InForce, Down, regVars

\* A flush begins, or is answered at once.
LEMMA BeginsFlushKeepsBase ==
    ASSUME Base, NEW c \in Calls, BeginsFlush(c)
    PROVE  Base'
<1>1. /\ pc[c] = "idle" /\ up /\ started < MaxCalls /\ started' = started + 1
    BY DEF BeginsFlush, BeginFlushAll, FlushAllBySlash, BeginFlush, Begin
<1>2. started' \in 0..MaxCalls
    BY <1>1, FilesAssumption DEF Base, Typed
<1>3. BeginAnyFlush(c)
    BY DEF BeginsFlush, BeginFlushAll, FlushAllBySlash, BeginFlush
<1>4. UNCHANGED <<regVars, spoiled>> /\ overlapped' \in [Calls -> BOOLEAN]
    <2>1. overlapped' = [overlapped EXCEPT ![c] = \E d \in Calls : Reloading(d)]
        BY <1>3 DEF BeginAnyFlush
    <2>2. (\E d \in Calls : Reloading(d)) \in BOOLEAN
        OBVIOUS
    <2> QED
        BY <1>3, <2>1, <2>2 DEF BeginAnyFlush, Base, Typed
<1>5. ASSUME NEW names \in Seq(Names), WithNames(c, names)
      PROVE  Base'
    <2>1. InHand' /\ pc' \in [Calls -> Labels] /\ building' \in [Calls -> Settings \cup {None}]
        BY <1>1, <1>5, HandUnchanged DEF Labels, Building, WithNames
    <2> QED
        BY <1>1, <1>2, <1>4, <1>5, <2>1
        DEF WithNames, Base, Typed, InForce, Down, regVars
<1>6. CASE Finish(c, "flush", "panic", "no name") \/ Finish(c, "flush", "notFound", "none")
    BY <1>1, <1>2, <1>4, <1>6, FinishKeeps DEF Base, Typed, InForce, regVars
<1>7. CASE BeginFlushAll(c)
    <2>1. NamesOf(config) \in Seq(Names)
        BY <1>1, LoadedNames DEF Base, InForce
    <2> QED
        BY <1>5, <1>7, <2>1 DEF BeginFlushAll
<1>8. CASE FlushAllBySlash(c)
    BY <1>6, <1>8 DEF FlushAllBySlash
<1>9. ASSUME NEW n \in Names, BeginFlush(c, n)
      PROVE  Base'
    <2>1. <<n>> \in Seq(Names)
        OBVIOUS
    <2> QED
        BY <1>5, <1>6, <1>9, <2>1 DEF BeginFlush
<1> QED
    BY <1>7, <1>8, <1>9 DEF BeginsFlush

-----------------------------------------------------------------------------
(***************************************************************************)
(* The steps, by what the other parts need to know of them.                *)
(***************************************************************************)

\* A step is a boot, the end of the process, the beginning of a call, a step
\* of one, or nothing.
LEMMA Steps ==
    ASSUME [Next]_vars
    PROVE  \/ Boot \/ Die
           \/ \E c \in Calls : BeginReload(c) \/ BeginsFlush(c) \/ Step(c)
           \/ UNCHANGED vars
BY DEF Next, BeginsFlush

\* The base of the invariant holds at first.
LEMMA BaseAtFirst == Init => Base
<1> SUFFICES ASSUME Init
             PROVE  Base
    OBVIOUS
<1>1. todo \in [Calls -> Seq(Names)]
    BY DEF Init
<1>2. started \in 0..MaxCalls
    BY FilesAssumption DEF Init
<1> QED
    BY <1>1, <1>2 DEF Init, Base, Typed, InForce, Down, InHand, Building, Labels

\* It is kept by every step.
LEMMA BaseKept ==
    ASSUME Base, [Next]_vars
    PROVE  Base'
<1>1. ASSUME NEW c \in Calls, Step(c)
      PROVE  Base'
    BY <1>1, LoadKeepsBase, BeginInitKeepsBase, NextProxyKeepsBase, OpenLevelsKeepsBase,
       RegisterKeepsBase, StoreKeepsBase, WipeStepsKeepBase, FlushStepsKeepBase DEF Step
<1>2. CASE UNCHANGED vars
    BY <1>2 DEF vars, regVars, callVars, history, Base, Typed, InForce, Down, InHand, Building
<1> QED
    BY <1>1, <1>2, Steps, BootKeepsBase, DieKeepsBase, BeginReloadKeepsBase,
       BeginsFlushKeepsBase

\* What the calls that do not move keep.
Kept(d) ==
    /\ pc'[d] = pc[d] /\ todo'[d] = todo[d] /\ building'[d] = building[d]
    /\ keep'[d] = keep[d] /\ doomed'[d] = doomed[d] /\ answer'[d] = answer[d]

OthersKept(c) == \A d \in Calls \ {c} : Kept(d)

\* Finish concerns one call.
LEMMA FinishKeepsOthers ==
    ASSUME Base, NEW c \in Calls, NEW call, NEW status, NEW error,
           Finish(c, call, status, error)
    PROVE  OthersKept(c) /\ pc'[c] = "idle" /\ todo'[c] = <<>>
BY DEF Base, Typed, Finish, Goto, OthersKept, Kept

\* The steps of a call leave other calls, the routes and the history of
\* overlaps alone; none makes a reload of what was not one, and those of a
\* flush change nothing that is shared.
Local(c) ==
    /\ UNCHANGED <<up, wired, serving, overlapped>>
    /\ OthersKept(c)
    /\ Reloading(c)' => Reloading(c)
    /\ pc'[c] = "flush" => pc[c] = "flush"
    /\ pc[c] = "flush" => UNCHANGED <<config, caches, registered, spoiled>>
    /\ spoiled => spoiled'

\* Every step of a call is local in this sense.
LEMMA StepsAreLocal ==
    ASSUME Base, NEW c \in Calls, Step(c)
    PROVE  Local(c)
<1>1. /\ DOMAIN pc = Calls /\ DOMAIN todo = Calls /\ DOMAIN building = Calls
      /\ DOMAIN keep = Calls /\ DOMAIN doomed = Calls /\ DOMAIN answer = Calls
    BY DEF Base, Typed
<1>2. CASE Load(c)
    <2>1. OthersKept(c)
        BY <1>1, <1>2, FinishKeepsOthers DEF Load, Goto, OthersKept, Kept
    <2> QED
        BY <1>1, <1>2, <2>1 DEF Load, Local, Reloading, Goto, Finish, history
<1>3. CASE BeginInit(c)
    BY <1>1, <1>3 DEF BeginInit, Local, Reloading, Goto, OthersKept, Kept, regVars, history
<1>4. CASE NextProxy(c)
    <2>1. OthersKept(c)
        BY <1>1, <1>4 DEF NextProxy, Goto, OthersKept, Kept
    <2> QED
        BY <1>1, <1>4, <2>1 DEF NextProxy, Local, Reloading, Goto, regVars, history
<1>5. CASE OpenLevels(c)
    <2>1. OthersKept(c)
        BY <1>1, <1>5, FinishKeepsOthers DEF OpenLevels, Goto, OthersKept, Kept
    <2> QED
        BY <1>1, <1>5, <2>1 DEF OpenLevels, Local, Reloading, Goto, Finish, regVars, history
<1>6. CASE Register(c)
    <2>1. OthersKept(c)
        BY <1>1, <1>6, FinishKeepsOthers DEF Register, Goto, OthersKept, Kept
    <2>2. /\ pc'[c] \in {"idle", "store"} /\ (spoiled => spoiled')
          /\ pc[c] = "register" /\ UNCHANGED <<up, wired, serving, overlapped>>
        <3>1. pc[c] = "register" /\ UNCHANGED <<up, wired, serving, overlapped>>
            BY <1>6 DEF Register
        <3>2. pc'[c] \in {"idle", "store"}
            BY <1>1, <1>6 DEF Register, Goto, Finish
        <3>3. spoiled => spoiled'
            BY <1>6 DEF Register
        <3> QED
            BY <3>1, <3>2, <3>3
    <2> QED
        BY <2>1, <2>2 DEF Local, Reloading
<1>7. CASE Store(c)
    BY <1>1, <1>7 DEF Store, Local, Reloading, Goto, OthersKept, Kept, history
<1>8. CASE BeginWipe(c)
    BY <1>1, <1>8 DEF BeginWipe, Local, Reloading, Goto, OthersKept, Kept, regVars, history
<1>9. CASE Wipe(c)
    BY <1>1, <1>9 DEF Wipe, Local, Reloading, OthersKept, Kept, callVars, history
<1>10. CASE EndReload(c)
    <2>1. OthersKept(c)
        BY <1>10, FinishKeepsOthers DEF EndReload
    <2> QED
        BY <1>1, <1>10, <2>1 DEF EndReload, Local, Reloading, Goto, Finish, regVars, history
<1>11. CASE FlushNext(c)
    <2>1. OthersKept(c)
        BY <1>1, <1>11, FinishKeepsOthers DEF FlushNext, OthersKept, Kept
    <2> QED
        BY <1>1, <1>11, <2>1 DEF FlushNext, Local, Reloading, Goto, Finish, regVars, history
<1>12. CASE EndFlush(c)
    <2>1. OthersKept(c)
        BY <1>12, FinishKeepsOthers DEF EndFlush
    <2> QED
        BY <1>1, <1>12, <2>1 DEF EndFlush, Local, Reloading, Goto, Finish, regVars, history
<1> QED
    BY <1>2, <1>3, <1>4, <1>5, <1>6, <1>7, <1>8, <1>9, <1>10, <1>11, <1>12 DEF Step

\* So do the beginnings of flushes, apart from the call's own history.
LEMMA BeginsFlushParts ==
    ASSUME Base, NEW c \in Calls, BeginsFlush(c)
    PROVE  /\ pc[c] = "idle" /\ up = TRUE
           /\ UNCHANGED <<regVars, spoiled>>
           /\ \A d \in Calls \ {c} : overlapped'[d] = overlapped[d]
           /\ overlapped'[c] <=> \E d \in Calls : Reloading(d)
           /\ OthersKept(c)
           /\ ~Reloading(c)'
           /\ pc'[c] = "flush" => Elements(todo'[c]) \subseteq NamesIn(config)
           /\ answer'[c] # None => answer'[c].error # "nil cache"
<1>1. pc[c] = "idle" /\ up = TRUE /\ BeginAnyFlush(c)
    BY DEF Base, Typed, BeginsFlush, BeginFlushAll, FlushAllBySlash, BeginFlush, Begin
<1>2. /\ DOMAIN pc = Calls /\ DOMAIN todo = Calls /\ DOMAIN building = Calls
      /\ DOMAIN keep = Calls /\ DOMAIN doomed = Calls /\ DOMAIN answer = Calls
    BY DEF Base, Typed
<1> DEFINE Shape == /\ OthersKept(c) /\ ~Reloading(c)'
                    /\ pc'[c] = "flush" => Elements(todo'[c]) \subseteq NamesIn(config)
                    /\ answer'[c] # None => answer'[c].error # "nil cache"
<1>3. ASSUME NEW names, Elements(names) \subseteq NamesIn(config), WithNames(c, names)
      PROVE  Shape
    BY <1>2, <1>3 DEF WithNames, Goto, OthersKept, Kept, Reloading
<1>4. ASSUME NEW status, NEW error, error # "nil cache", Finish(c, "flush", status, error)
      PROVE  Shape
    <2>1. OthersKept(c) /\ pc'[c] = "idle"
        BY <1>4, FinishKeepsOthers
    <2>2. answer'[c].error # "nil cache"
        BY <1>2, <1>4 DEF Finish
    <2> QED
        BY <2>1, <2>2 DEF Reloading
<1>5. BeginFlushAll(c) => Shape
    <2>1. Elements(NamesOf(config)) \subseteq NamesIn(config)
        BY <1>1, LoadedNames DEF Base, InForce
    <2> QED
        BY <1>3, <2>1 DEF BeginFlushAll
<1>6. FlushAllBySlash(c) => Shape
    BY <1>4 DEF FlushAllBySlash
<1>7. ASSUME NEW n \in Names, BeginFlush(c, n)
      PROVE  Shape
    <2>1. CASE n \in NamesIn(config) /\ WithNames(c, <<n>>)
        <3>1. Elements(<<n>>) \subseteq NamesIn(config)
            BY <2>1 DEF Elements
        <3> QED
            BY <1>3, <2>1, <3>1
    <2>2. CASE Finish(c, "flush", "notFound", "none")
        BY <1>4, <2>2
    <2> QED
        BY <1>7, <2>1, <2>2 DEF BeginFlush
<1> DEFINE some == \E d \in Calls : Reloading(d)
<1>8. overlapped' = [overlapped EXCEPT ![c] = some] /\ UNCHANGED <<regVars, spoiled>>
    BY <1>1, Zenon DEF BeginAnyFlush
<1>9. /\ \A d \in Calls \ {c} : overlapped'[d] = overlapped[d]
      /\ overlapped'[c] <=> some
    <2>1. DOMAIN overlapped = Calls
        BY DEF Base, Typed
    <2> HIDE DEF some
    <2>2. \A d \in Calls \ {c} : overlapped'[d] = overlapped[d]
        BY <1>8, <2>1
    <2>3. overlapped'[c] = some
        BY <1>8, <2>1
    <2> QED
        BY <2>2, <2>3, Zenon
<1>10. Shape
    BY <1>5, <1>6, <1>7 DEF BeginsFlush
<1> QED
    BY <1>1, <1>8, <1>9, <1>10

\* And those of reloads, which mark every call that runs.
LEMMA BeginReloadParts ==
    ASSUME Base, NEW c \in Calls, BeginReload(c)
    PROVE  /\ pc[c] = "idle" /\ up = TRUE /\ pc'[c] = "load"
           /\ UNCHANGED <<regVars, spoiled, todo, building, keep, doomed>>
           /\ \A d \in Calls \ {c} : /\ Kept(d)
                                     /\ overlapped'[d] <=> overlapped[d] \/ pc[d] # "idle"
           /\ overlapped'[c] <=> \E e \in Calls : Reloading(e)
           /\ answer'[c] = None
<1>1. /\ DOMAIN pc = Calls /\ DOMAIN answer = Calls
      /\ \A d \in Calls : overlapped[d] \in BOOLEAN
    BY DEF Base, Typed
<1>2. overlapped' = [d \in Calls |->
          IF d = c THEN \E e \in Calls : Reloading(e) ELSE overlapped[d] \/ pc[d] # "idle"]
    BY DEF BeginReload
<1>3. \A d \in Calls \ {c} : overlapped'[d] <=> overlapped[d] \/ pc[d] # "idle"
    BY <1>1, <1>2
<1>4. overlapped'[c] <=> \E e \in Calls : Reloading(e)
    BY <1>2
<1>5. pc[c] = "idle" /\ up = TRUE
    BY DEF BeginReload, Begin, Base, Typed
<1> QED
    BY <1>1, <1>3, <1>4, <1>5 DEF BeginReload, Goto, Kept

-----------------------------------------------------------------------------
(***************************************************************************)
(* The caches that tile handlers were given.  No reload builds another     *)
(* under a name that was wired, because the metrics of that name are       *)
(* registered for as long as the process runs.                             *)
(***************************************************************************)
Given(n) == NewCache(FirstNamed(wired, n), "boot")

OneCache ==
    /\ up => /\ NamesIn(wired) \subseteq registered
             /\ serving = [i \in DOMAIN wired.proxies |-> Given(wired.proxies[i].name)]
             /\ \A n \in NamesIn(wired) : caches[n] \in {None, Given(n)}
    /\ \A c \in Calls : pc[c] = "store" => building[c].name \notin NamesIn(wired)

\* At the start every handler is given the cache that was just built.
LEMMA OneCacheAtBoot ==
    ASSUME Base, Boot
    PROVE  OneCache'
<1>1. /\ up' = TRUE /\ ~up
      /\ Loaded(wired')
      /\ registered' = NamesIn(wired')
      /\ caches' = [n \in Names |->
                      IF n \in NamesIn(wired')
                        THEN NewCache(FirstNamed(wired', n), "boot") ELSE None]
      /\ serving' = [i \in DOMAIN wired'.proxies |-> caches'[wired'.proxies[i].name]]
      /\ pc' = pc
    BY BootLoads DEF callVars
<1>2. NamesIn(wired') \subseteq Names
    BY <1>1, LoadedNames
<1>3. \A i \in DOMAIN wired'.proxies : wired'.proxies[i].name \in NamesIn(wired')
    BY DEF NamesIn
<1>4. \A n \in NamesIn(wired') : caches'[n] = NewCache(FirstNamed(wired', n), "boot")
    BY <1>1, <1>2
<1>5. serving' = [i \in DOMAIN wired'.proxies |->
                    NewCache(FirstNamed(wired', wired'.proxies[i].name), "boot")]
    BY <1>1, <1>3, <1>4
<1>6. \A c \in Calls : pc'[c] # "store"
    BY <1>1 DEF Base, Down
<1> QED
    BY <1>1, <1>4, <1>5, <1>6 DEF OneCache, Given

\* No step of a call builds another cache under a wired name.
LEMMA OneCacheStep ==
    ASSUME Base, OneCache, NEW c \in Calls, Step(c)
    PROVE  OneCache'
<1>1. Local(c)
    BY StepsAreLocal
<1>2. UNCHANGED <<up, wired, serving>> /\ OthersKept(c)
    BY <1>1 DEF Local
<1>3. up = TRUE
    BY BusyIsUp
    DEF Step, Load, BeginInit, NextProxy, OpenLevels, Register, Store, BeginWipe, Wipe,
        EndReload, FlushNext, EndFlush
<1>4. registered \subseteq registered'
    BY DEF Step, Load, BeginInit, NextProxy, OpenLevels, Register, Store, BeginWipe, Wipe,
           EndReload, FlushNext, EndFlush, regVars
<1>5. \A n \in NamesIn(wired) : caches'[n] \in {None, caches[n]}
    <2>1. CASE Store(c)
        <3>1. building[c].name \notin NamesIn(wired)
            BY <2>1 DEF OneCache, Store
        <3>2. NamesIn(wired) \subseteq Names
            BY <1>3, LoadedNames DEF Base, InForce
        <3> QED
            BY <2>1, <3>1, <3>2 DEF Store, Base, Typed
    <2>2. CASE Wipe(c)
        <3>1. NamesIn(wired) \subseteq Names
            BY <1>3, LoadedNames DEF Base, InForce
        <3> QED
            BY <2>2, <3>1 DEF Wipe, Base, Typed
    <2>3. CASE UNCHANGED caches
        BY <2>3
    <2> QED
        BY <2>1, <2>2, <2>3
        DEF Step, Load, BeginInit, NextProxy, OpenLevels, Register, BeginWipe,
            EndReload, FlushNext, EndFlush, regVars
<1>6. pc'[c] = "store" => building'[c].name \notin NamesIn(wired)
    <2>1. CASE Register(c)
        BY <1>3, <2>1 DEF Register, OneCache, Goto, Finish, Base, Typed
    <2>2. CASE Wipe(c)
        BY <2>2 DEF Wipe, callVars
    <2>3. pc'[c] = "store" => Register(c) \/ Wipe(c)
        BY DEF Step, Load, BeginInit, NextProxy, OpenLevels, Store, BeginWipe,
               EndReload, FlushNext, EndFlush, Goto, Finish, Base, Typed
    <2> QED
        BY <2>1, <2>2, <2>3 DEF Wipe
<1>7. \A d \in Calls \ {c} : pc'[d] = pc[d] /\ building'[d] = building[d]
    BY <1>2 DEF OthersKept, Kept
<1>8. \A d \in Calls : pc'[d] = "store" => building'[d].name \notin NamesIn(wired')
    BY <1>2, <1>6, <1>7 DEF OneCache
<1> QED
    BY <1>2, <1>3, <1>4, <1>5, <1>8 DEF OneCache, Given

\* The handlers' caches stay those of the registry, or the registry has none.
LEMMA OneCacheKept ==
    ASSUME Base, OneCache, [Next]_vars
    PROVE  OneCache'
<1>1. CASE Die
    BY <1>1 DEF Die, OneCache
<1>2. ASSUME NEW c \in Calls, BeginReload(c) \/ BeginsFlush(c)
      PROVE  OneCache'
    <2>1. UNCHANGED regVars /\ pc'[c] # "store"
        BY <1>2, BeginReloadParts, BeginsFlushParts DEF Reloading
    <2>2. \A d \in Calls \ {c} : Kept(d)
        BY <1>2, BeginReloadParts, BeginsFlushParts DEF OthersKept
    <2>3. \A d \in Calls : pc'[d] = "store" => pc[d] = "store" /\ building'[d] = building[d]
        BY <2>1, <2>2 DEF Kept
    <2> QED
        BY <2>1, <2>3 DEF OneCache, Given, regVars
<1>3. CASE UNCHANGED vars
    BY <1>3 DEF OneCache, Given, vars, regVars, callVars
<1> QED
    BY <1>1, <1>2, <1>3, Steps, OneCacheAtBoot, OneCacheStep

-----------------------------------------------------------------------------
(***************************************************************************)
(* Overlaps.  Of two reloads that run beside each other both are marked,   *)
(* and so is a flush beside a reload: whoever is not marked is alone.      *)
(***************************************************************************)
Overlaps ==
    /\ \A c, d \in Calls : c # d /\ Reloading(c) /\ Reloading(d) => overlapped[c]
    /\ \A c, d \in Calls : pc[c] = "flush" /\ ~overlapped[c] => ~Reloading(d)

\* A call that is not marked stays alone: whoever begins beside it marks it.
LEMMA OverlapsKept ==
    ASSUME Base, Overlaps, [Next]_vars
    PROVE  Overlaps'
<1>1. CASE Boot
    <2>1. pc' = pc /\ \A c \in Calls : pc[c] = "idle"
        BY <1>1, BootLoads DEF callVars, Base, Down
    <2> QED
        BY <2>1 DEF Overlaps, Reloading
<1>2. CASE Die
    BY <1>2 DEF Die, Overlaps, Reloading
<1>3. ASSUME NEW c \in Calls, BeginReload(c)
      PROVE  Overlaps'
    <2>1. /\ pc[c] = "idle" /\ pc'[c] = "load"
          /\ \A d \in Calls \ {c} : /\ pc'[d] = pc[d]
                                    /\ overlapped'[d] <=> overlapped[d] \/ pc[d] # "idle"
          /\ overlapped'[c] <=> \E e \in Calls : Reloading(e)
        BY <1>3, BeginReloadParts DEF Kept
    <2>2. ASSUME NEW a \in Calls, NEW b \in Calls, a # b, Reloading(a)', Reloading(b)'
          PROVE  overlapped'[a]
        BY <2>1, <2>2 DEF Reloading
    <2>3. ASSUME NEW a \in Calls, pc'[a] = "flush"
          PROVE  overlapped'[a]
        BY <2>1, <2>3
    <2> QED
        BY <2>2, <2>3 DEF Overlaps
<1>4. ASSUME NEW c \in Calls, BeginsFlush(c)
      PROVE  Overlaps'
    <2>1. /\ ~Reloading(c) /\ ~Reloading(c)'
          /\ \A d \in Calls \ {c} : pc'[d] = pc[d] /\ (overlapped'[d] <=> overlapped[d])
          /\ overlapped'[c] <=> \E d \in Calls : Reloading(d)
        <3>1. pc[c] = "idle" /\ ~Reloading(c)' /\ OthersKept(c)
            BY <1>4, BeginsFlushParts
        <3>2. /\ \A d \in Calls \ {c} : overlapped'[d] = overlapped[d]
              /\ overlapped'[c] <=> \E d \in Calls : Reloading(d)
            BY <1>4, BeginsFlushParts
        <3> QED
            BY <3>1, <3>2 DEF Reloading, OthersKept, Kept
    <2>2. \A d \in Calls : Reloading(d)' => d # c /\ Reloading(d)
        BY <2>1 DEF Reloading
    <2>3. ASSUME NEW a \in Calls, NEW b \in Calls, a # b, Reloading(a)', Reloading(b)'
          PROVE  overlapped'[a]
        BY <2>1, <2>2, <2>3 DEF Overlaps
    <2>4. ASSUME NEW a \in Calls, NEW b \in Calls, pc'[a] = "flush", Reloading(b)'
          PROVE  overlapped'[a]
        BY <2>1, <2>2, <2>4 DEF Overlaps
    <2> QED
        BY <2>3, <2>4 DEF Overlaps
<1>5. ASSUME NEW c \in Calls, Step(c)
      PROVE  Overlaps'
    <2>1. /\ UNCHANGED overlapped
          /\ \A d \in Calls \ {c} : pc'[d] = pc[d]
          /\ Reloading(c)' => Reloading(c)
          /\ pc'[c] = "flush" => pc[c] = "flush"
        BY <1>5, StepsAreLocal DEF Local, OthersKept, Kept
    <2>2. \A d \in Calls : (Reloading(d)' => Reloading(d)) /\ (pc'[d] = "flush" => pc[d] = "flush")
        BY <2>1 DEF Reloading
    <2> QED
        BY <2>1, <2>2 DEF Overlaps
<1>6. CASE UNCHANGED vars
    BY <1>6 DEF vars, callVars, history, Overlaps, Reloading
<1> QED
    BY <1>1, <1>2, <1>3, <1>4, <1>5, <1>6, Steps

-----------------------------------------------------------------------------
(***************************************************************************)
(* What a reload that is alone has achieved: every configured name has a   *)
(* cache or is still to be treated; when it wipes, all have one and what   *)
(* else there is was there when the range began.                           *)
(***************************************************************************)
Left(c) == Elements(todo[c]) \cup (IF Building(c) THEN {building[c].name} ELSE {})

Stage(c) ==
    /\ pc[c] \in {"next", "open", "register", "store"} => NamesIn(config) \subseteq Cached \cup Left(c)
    /\ pc[c] = "wipe" =>
          /\ keep[c] = NamesIn(config)
          /\ NamesIn(config) \subseteq Cached
          /\ Cached \ NamesIn(config) \subseteq doomed[c]

Progress == \A c \in Calls : ~overlapped[c] => Stage(c)

\* Settled, for as long as no reload has got beyond loading.
Agreed ==
    up /\ ~spoiled /\ (\A c \in Calls : Reloading(c) => pc[c] = "load") => Cached = NamesIn(config)

\* A list is its head and its tail.
LEMMA HeadAndTail ==
    ASSUME NEW S, NEW s \in Seq(S), s # <<>>
    PROVE  Elements(s) = {Head(s)} \cup Elements(Tail(s)) /\ Head(s) \in S
<1>1. Len(s) \in Nat /\ Len(s) >= 1 /\ Len(Tail(s)) = Len(s) - 1
    OBVIOUS
<1>2. \A i \in 1..Len(Tail(s)) : Tail(s)[i] = s[i + 1]
    OBVIOUS
<1>3. DOMAIN s = 1..Len(s) /\ DOMAIN Tail(s) = 1..(Len(s) - 1)
    BY <1>1
<1>4. \A x \in Elements(s) : x = Head(s) \/ x \in Elements(Tail(s))
    <2> SUFFICES ASSUME NEW i \in 1..Len(s), i # 1
                 PROVE  s[i] \in Elements(Tail(s))
        BY <1>1, <1>3 DEF Elements
    <2>1. i - 1 \in 1..Len(Tail(s)) /\ s[i] = Tail(s)[i - 1]
        BY <1>1, <1>2
    <2> QED
        BY <1>1, <1>3, <2>1 DEF Elements
<1>5. \A x \in Elements(Tail(s)) : x \in Elements(s)
    <2> SUFFICES ASSUME NEW i \in 1..Len(Tail(s))
                 PROVE  Tail(s)[i] \in Elements(s)
        BY <1>1, <1>3 DEF Elements
    <2>1. i + 1 \in 1..Len(s) /\ Tail(s)[i] = s[i + 1]
        BY <1>1, <1>2
    <2> QED
        BY <1>3, <2>1 DEF Elements
<1>6. Head(s) \in Elements(s) /\ Head(s) \in S
    BY <1>1, <1>3 DEF Elements
<1> QED
    BY <1>4, <1>5, <1>6

\* An empty list has no elements.
LEMMA NothingLeft == Elements(<<>>) = {}
BY DEF Elements

\* The steps of a reload that is alone make progress.
LEMMA ReloadProgresses ==
    ASSUME Base, NEW c \in Calls, Stage(c), Reloading(c), Step(c)
    PROVE  Stage(c)'
<1>1. up = TRUE
    BY BusyIsUp DEF Reloading
<1>2. NamesIn(config) \subseteq Names
    BY <1>1, LoadedNames DEF Base, InForce
<1>3. /\ DOMAIN pc = Calls /\ DOMAIN todo = Calls /\ DOMAIN building = Calls
      /\ DOMAIN keep = Calls /\ DOMAIN doomed = Calls
      /\ todo[c] \in Seq(Names) /\ DOMAIN caches = Names
    BY DEF Base, Typed
<1>4. pc'[c] \notin {"next", "open", "register", "store", "wipe"} => Stage(c)'
    BY DEF Stage
<1>5. CASE Load(c)
    BY <1>3, <1>4, <1>5 DEF Load, Goto, Finish
<1>6. CASE BeginInit(c)
    <2>1. pc'[c] = "next" /\ todo'[c] = NamesOf(config) /\ config' = config
        BY <1>3, <1>6 DEF BeginInit, Goto, regVars
    <2>2. Elements(todo'[c]) = NamesIn(config)
        BY <1>1, <2>1, LoadedNames DEF Base, InForce
    <2>3. NamesIn(config)' = NamesIn(config)
        BY <2>1 DEF NamesIn
    <2> QED
        BY <2>1, <2>2, <2>3 DEF Stage, Left
<1>7. CASE NextProxy(c)
    <2> DEFINE n == Head(todo[c])
    <2>1. /\ pc[c] = "next" /\ todo[c] # <<>> /\ todo'[c] = Tail(todo[c])
          /\ config' = config /\ caches' = caches
        BY <1>3, <1>7 DEF NextProxy, regVars
    <2>2. Elements(todo[c]) = {n} \cup Elements(todo'[c])
        BY <1>3, <2>1, HeadAndTail
    <2>3. NamesIn(config)' = NamesIn(config) /\ Cached' = Cached
        BY <2>1 DEF NamesIn, Cached
    <2>4. NamesIn(config) \subseteq Cached \cup {n} \cup Elements(todo'[c])
        BY <2>1, <2>2 DEF Stage, Left, Building
    <2>5. CASE caches[n] = None /\ n \in NamesIn(config)
        <3>1. building'[c] = FirstNamed(config, n) /\ pc'[c] = "open"
            BY <1>3, <1>7, <2>5 DEF NextProxy, Goto
        <3>2. building'[c].name = n
            BY <1>1, <2>5, <3>1, FirstIsNamed DEF Base, InForce
        <3> HIDE DEF n
        <3> QED
            BY <2>3, <2>4, <3>1, <3>2 DEF Stage, Left, Building
    <2>6. CASE ~(caches[n] = None /\ n \in NamesIn(config))
        <3>1. pc' = pc
            BY <1>7, <2>6 DEF NextProxy
        <3>2. n \in NamesIn(config) => n \in Cached
            BY <1>2, <2>6 DEF Cached
        <3> HIDE DEF n
        <3> QED
            BY <2>1, <2>3, <2>4, <3>1, <3>2 DEF Stage, Left
    <2> QED
        BY <2>5, <2>6
<1>8. CASE OpenLevels(c) \/ Register(c)
    <2>1. pc[c] \in {"open", "register"} /\ config' = config /\ caches' = caches
        BY <1>8 DEF OpenLevels, Register, regVars
    <2>2. \/ pc'[c] = "idle"
          \/ /\ pc'[c] \in {"register", "store"}
             /\ todo' = todo /\ building' = building
        <3>1. CASE OpenLevels(c)
            BY <1>3, <3>1 DEF OpenLevels, Goto, Finish
        <3>2. CASE Register(c)
            BY <1>3, <3>2 DEF Register, Goto, Finish
        <3> QED
            BY <1>8, <3>1, <3>2
    <2>3. NamesIn(config)' = NamesIn(config) /\ Cached' = Cached
        BY <2>1 DEF NamesIn, Cached
    <2> QED
        BY <1>4, <2>1, <2>2, <2>3 DEF Stage, Left, Building
<1>9. CASE Store(c)
    <2> DEFINE n == building[c].name
    <2>1. /\ pc[c] = "store" /\ pc'[c] = "next" /\ todo' = todo /\ config' = config
          /\ caches' = [caches EXCEPT ![n] = NewCache(building[c], "reload")]
        BY <1>3, <1>9 DEF Store, Goto
    <2>2. building[c] \in Settings
        BY <2>1 DEF Base, Typed, InHand, Building
    <2>3. n \in Names /\ NewCache(building[c], "reload") # None
        BY <2>2, SettingsNamed, NoneAssumption
    <2>4. NamesIn(config)' = NamesIn(config)
        BY <2>1 DEF NamesIn
    <2>5. NamesIn(config) \subseteq Cached \cup Elements(todo[c]) \cup {n}
        BY <2>1 DEF Stage, Left, Building
    <2> HIDE DEF n
    <2>6. Cached' = Cached \cup {n}
        BY <1>3, <2>1, <2>3 DEF Cached
    <2> QED
        BY <2>1, <2>4, <2>5, <2>6 DEF Stage, Left, Building
<1>10. CASE BeginWipe(c)
    <2>1. /\ pc[c] = "next" /\ todo[c] = <<>> /\ pc'[c] = "wipe"
          /\ keep'[c] = NamesIn(config) /\ doomed'[c] = Cached \ NamesIn(config)
          /\ config' = config /\ caches' = caches
        BY <1>3, <1>10 DEF BeginWipe, Goto, regVars
    <2>2. NamesIn(config)' = NamesIn(config) /\ Cached' = Cached
        BY <2>1 DEF NamesIn, Cached
    <2>3. NamesIn(config) \subseteq Cached
        BY <2>1, NothingLeft DEF Stage, Left, Building
    <2> QED
        BY <2>1, <2>2, <2>3 DEF Stage
<1>11. CASE Wipe(c)
    <2>1. PICK n \in Cached \ keep[c] : caches' = [caches EXCEPT ![n] = None]
        BY <1>11 DEF Wipe
    <2>2. pc[c] = "wipe" /\ pc' = pc /\ keep' = keep /\ doomed' = doomed /\ config' = config
        BY <1>11 DEF Wipe, callVars
    <2>3. NamesIn(config)' = NamesIn(config)
        BY <2>2 DEF NamesIn
    <2>4. Cached' = Cached \ {n}
        BY <1>3, <2>1 DEF Cached
    <2> QED
        BY <2>1, <2>2, <2>3, <2>4 DEF Stage
<1>12. CASE EndReload(c)
    BY <1>3, <1>4, <1>12 DEF EndReload, Goto, Finish
<1> QED
    BY <1>5, <1>6, <1>7, <1>8, <1>9, <1>10, <1>11, <1>12
    DEF Step, FlushNext, EndFlush, Reloading

\* Nobody else disturbs the progress of a reload that is alone.
LEMMA ProgressKept ==
    ASSUME Base, Overlaps, Progress, [Next]_vars
    PROVE  Progress'
<1>1. ASSUME NEW d \in Calls, ~Reloading(d)' \/ pc'[d] = "load"
      PROVE  Stage(d)'
    BY <1>1 DEF Stage, Reloading
<1>2. ASSUME NEW d \in Calls, Stage(d), Kept(d), UNCHANGED <<config, caches>>
      PROVE  Stage(d)'
    BY <1>2 DEF Stage, Kept, Left, Building, Cached, NamesIn
<1>3. CASE Boot
    <2>1. \A c \in Calls : pc'[c] = "idle"
        BY <1>3, BootLoads DEF callVars, Base, Down
    <2> QED
        BY <1>1, <2>1 DEF Progress, Reloading
<1>4. CASE Die
    BY <1>1, <1>4 DEF Die, Progress, Reloading
<1>5. ASSUME NEW c \in Calls, BeginReload(c)
      PROVE  Progress'
    <2>1. /\ pc'[c] = "load"
          /\ \A d \in Calls \ {c} : pc'[d] = pc[d] /\ (pc[d] # "idle" => overlapped'[d])
        BY <1>5, BeginReloadParts DEF Kept
    <2> QED
        BY <1>1, <2>1 DEF Progress, Reloading
<1>6. ASSUME NEW c \in Calls, BeginsFlush(c)
      PROVE  Progress'
    <2>1. ~Reloading(c)' /\ OthersKept(c) /\ UNCHANGED regVars
        BY <1>6, BeginsFlushParts
    <2>2. \A d \in Calls \ {c} : overlapped'[d] = overlapped[d]
        BY <1>6, BeginsFlushParts
    <2> QED
        BY <1>1, <1>2, <2>1, <2>2 DEF Progress, OthersKept, regVars
<1>7. ASSUME NEW c \in Calls, Step(c)
      PROVE  Progress'
    <2>1. Local(c)
        BY <1>7, StepsAreLocal
    <2>2. pc[c] # "idle"
        BY <1>7
        DEF Step, Load, BeginInit, NextProxy, OpenLevels, Register, Store, BeginWipe, Wipe,
            EndReload, FlushNext, EndFlush
    <2>3. ASSUME ~overlapped[c]
          PROVE  Stage(c)'
        <3>1. CASE Reloading(c)
            BY <1>7, <2>3, <3>1, ReloadProgresses DEF Progress
        <3>2. CASE ~Reloading(c)
            BY <1>1, <2>1, <3>2 DEF Local
        <3> QED
            BY <3>1, <3>2
    <2>4. ASSUME NEW d \in Calls \ {c}, ~overlapped[d]
          PROVE  Stage(d)'
        <3>1. Kept(d)
            BY <2>1 DEF Local, OthersKept
        <3>2. CASE Reloading(d)
            <4>1. ~Reloading(c)
                BY <2>4, <3>2 DEF Overlaps
            <4>2. UNCHANGED <<config, caches>>
                BY <2>1, <2>2, <4>1 DEF Local, Reloading
            <4> QED
                BY <1>2, <2>4, <3>1, <4>2 DEF Progress
        <3>3. CASE ~Reloading(d)
            BY <1>1, <3>1, <3>3 DEF Kept, Reloading
        <3> QED
            BY <3>2, <3>3
    <2> QED
        BY <2>1, <2>3, <2>4 DEF Progress, Local
<1>8. CASE UNCHANGED vars
    BY <1>2, <1>8 DEF Progress, vars, regVars, callVars, history, Kept
<1> QED
    BY <1>3, <1>4, <1>5, <1>6, <1>7, <1>8, Steps

\* A process that boots has just the caches of its configuration.
LEMMA AgreedAtBoot ==
    ASSUME Base, Boot
    PROVE  Agreed'
<1>1. /\ Loaded(config') /\ wired' = config'
      /\ caches' = [n \in Names |->
                      IF n \in NamesIn(wired')
                        THEN NewCache(FirstNamed(wired', n), "boot") ELSE None]
    BY BootLoads
<1>2. NamesIn(config') \subseteq Names
    BY <1>1, LoadedNames
<1>3. \A n \in NamesIn(config') : NewCache(FirstNamed(config', n), "boot") # None
    BY <1>1, FirstIsNamed, NoneAssumption
<1>4. \A n \in Names : n \in NamesIn(config') <=> caches'[n] # None
    BY <1>1, <1>3
<1>5. Cached' = NamesIn(config')
    BY <1>2, <1>4 DEF Cached
<1> QED
    BY <1>5 DEF Agreed, NamesIn

\* A reload that is alone ends with just the caches of its configuration.
LEMMA AgreedKept ==
    ASSUME Base, Overlaps, Progress, Agreed, [Next]_vars
    PROVE  Agreed'
<1>1. ASSUME UNCHANGED <<config, caches>>, up = TRUE, spoiled => spoiled',
             \A d \in Calls : Reloading(d) => Reloading(d)' \/ pc[d] = "load",
             \A d \in Calls : Reloading(d) /\ pc'[d] = "load" => pc[d] = "load"
      PROVE  Agreed'
    BY <1>1 DEF Agreed, Cached, NamesIn
<1>2. CASE Die
    BY <1>2 DEF Die, Agreed
<1>3. ASSUME NEW c \in Calls, BeginReload(c) \/ BeginsFlush(c)
      PROVE  Agreed'
    <2>1. /\ pc[c] = "idle" /\ up = TRUE /\ UNCHANGED <<config, caches, spoiled>>
          /\ \A d \in Calls \ {c} : pc'[d] = pc[d]
        BY <1>3, BeginReloadParts, BeginsFlushParts DEF regVars, OthersKept, Kept
    <2> QED
        BY <1>1, <2>1 DEF Reloading
<1>4. ASSUME NEW c \in Calls, Step(c)
      PROVE  Agreed'
    <2>1. /\ up' = up /\ (spoiled => spoiled')
          /\ \A d \in Calls \ {c} : pc'[d] = pc[d]
          /\ pc[c] = "flush" => pc'[c] \in {"idle", "flush"} /\ UNCHANGED <<config, caches>>
        BY <1>4, StepsAreLocal DEF Local, OthersKept, Kept, Reloading
    <2>2. pc[c] # "idle" /\ up = TRUE
        BY <1>4, BusyIsUp
        DEF Step, Load, BeginInit, NextProxy, OpenLevels, Register, Store, BeginWipe, Wipe,
            EndReload, FlushNext, EndFlush
    <2>3. CASE pc[c] = "flush"
        BY <1>1, <2>1, <2>2, <2>3 DEF Reloading
    <2>4. CASE Load(c)
        <3>1. \/ pc'[c] = "init"
              \/ pc'[c] = "idle" /\ UNCHANGED <<config, caches>>
            BY <2>4 DEF Load, Goto, Finish, Base, Typed
        <3>2. pc[c] = "load"
            BY <2>4 DEF Load
        <3>3. CASE pc'[c] = "init"
            BY <3>3 DEF Agreed, Reloading
        <3>4. CASE pc'[c] = "idle" /\ UNCHANGED <<config, caches>>
            BY <1>1, <2>1, <2>2, <3>2, <3>4 DEF Reloading
        <3> QED
            BY <3>1, <3>3, <3>4
    <2>5. CASE BeginInit(c) \/ NextProxy(c) \/ Store(c) \/ BeginWipe(c) \/ Wipe(c)
        <3>1. pc'[c] \in {"next", "open", "wipe"}
            BY <2>5
            DEF BeginInit, NextProxy, Store, BeginWipe, Wipe, Goto, callVars, Base, Typed
        <3> QED
            BY <3>1 DEF Agreed, Reloading
    <2>6. CASE OpenLevels(c)
        <3>1. pc'[c] = "register" \/ spoiled' = TRUE
            BY <2>6 DEF OpenLevels, Goto, Base, Typed
        <3> QED
            BY <3>1 DEF Agreed, Reloading
    <2>7. CASE Register(c)
        <3>1. pc'[c] = "store" \/ spoiled' = TRUE
            BY <2>7 DEF Register, Goto, Base, Typed
        <3> QED
            BY <3>1 DEF Agreed, Reloading
    <2>8. CASE EndReload(c)
        <3>1. /\ pc[c] = "wipe" /\ doomed[c] \cap Cached = {}
              /\ spoiled' = (spoiled \/ overlapped[c])
              /\ UNCHANGED <<config, caches>>
            BY <2>8 DEF EndReload, regVars
        <3>2. ASSUME ~spoiled'
              PROVE  Cached = NamesIn(config)
            <4>1. ~overlapped[c]
                BY <3>1, <3>2
            <4>2. Stage(c)
                BY <4>1 DEF Progress
            <4> QED
                BY <3>1, <4>2 DEF Stage
        <3> QED
            BY <3>1, <3>2 DEF Agreed, Cached, NamesIn
    <2> QED
        BY <1>4, <2>2, <2>3, <2>4, <2>5, <2>6, <2>7, <2>8 DEF Step, FlushNext, EndFlush
<1>5. CASE UNCHANGED vars
    BY <1>5 DEF vars, regVars, callVars, history, Agreed, Reloading, Cached, NamesIn
<1> QED
    BY <1>2, <1>3, <1>4, <1>5, AgreedAtBoot, Steps

-----------------------------------------------------------------------------
(***************************************************************************)
(* A flush that is alone treats names that are configured, all of which    *)
(* have a cache then.                                                      *)
(***************************************************************************)
Flushing ==
    \A c \in Calls :
        pc[c] = "flush" /\ ~overlapped[c] /\ ~spoiled => Elements(todo[c]) \subseteq NamesIn(config)

\* The names a lone flush has still to treat stay configured.
LEMMA FlushingKept ==
    ASSUME Base, Overlaps, Flushing, [Next]_vars
    PROVE  Flushing'
<1>1. CASE Boot
    <2>1. \A c \in Calls : pc'[c] = "idle"
        BY <1>1, BootLoads DEF callVars, Base, Down
    <2> QED
        BY <2>1 DEF Flushing
<1>2. CASE Die
    BY <1>2 DEF Die, Flushing
<1>3. ASSUME NEW c \in Calls, BeginReload(c)
      PROVE  Flushing'
    <2>1. /\ pc'[c] = "load"
          /\ \A d \in Calls \ {c} : pc'[d] = pc[d] /\ (pc[d] # "idle" => overlapped'[d])
        BY <1>3, BeginReloadParts DEF Kept
    <2> QED
        BY <2>1 DEF Flushing
<1>4. ASSUME NEW c \in Calls, BeginsFlush(c)
      PROVE  Flushing'
    <2>1. /\ UNCHANGED <<config, spoiled>>
          /\ \A d \in Calls \ {c} : pc'[d] = pc[d] /\ todo'[d] = todo[d]
          /\ pc'[c] = "flush" => Elements(todo'[c]) \subseteq NamesIn(config)
        BY <1>4, BeginsFlushParts DEF regVars, OthersKept, Kept
    <2>2. \A d \in Calls \ {c} : overlapped'[d] = overlapped[d]
        BY <1>4, BeginsFlushParts
    <2>3. NamesIn(config)' = NamesIn(config)
        BY <2>1 DEF NamesIn
    <2> QED
        BY <2>1, <2>2, <2>3 DEF Flushing
<1>5. ASSUME NEW c \in Calls, Step(c)
      PROVE  Flushing'
    <2> SUFFICES ASSUME NEW d \in Calls, pc'[d] = "flush", ~overlapped'[d], ~spoiled'
                 PROVE  Elements(todo'[d]) \subseteq NamesIn(config')
        BY DEF Flushing, NamesIn
    <2>1. Local(c)
        BY <1>5, StepsAreLocal
    <2>2. pc[d] = "flush" /\ ~overlapped[d] /\ ~spoiled
        BY <2>1 DEF Local, OthersKept, Kept
    <2>3. ~Reloading(c) /\ pc[c] # "idle"
        BY <1>5, <2>2
        DEF Overlaps, Step, Load, BeginInit, NextProxy, OpenLevels, Register, Store, BeginWipe,
            Wipe, EndReload, FlushNext, EndFlush
    <2>4. pc[c] = "flush" /\ config' = config
        BY <2>1, <2>3 DEF Local, Reloading
    <2>5. Elements(todo[d]) \subseteq NamesIn(config)
        BY <2>2 DEF Flushing
    <2>6. CASE d # c
        BY <2>1, <2>4, <2>5, <2>6 DEF Local, OthersKept, Kept
    <2>7. CASE d = c
        <3>1. todo[c] # <<>> /\ todo'[c] = Tail(todo[c])
            BY <1>5, <2>4, <2>7
            DEF Step, Load, BeginInit, NextProxy, OpenLevels, Register, Store, BeginWipe, Wipe,
                EndReload, FlushNext, EndFlush, Finish, Goto, Base, Typed
        <3>2. todo[c] \in Seq(Names)
            BY DEF Base, Typed
        <3>3. Elements(todo'[c]) \subseteq Elements(todo[c])
            BY <3>1, <3>2, HeadAndTail
        <3> QED
            BY <2>4, <2>5, <2>7, <3>3
    <2> QED
        BY <2>6, <2>7
<1>6. CASE UNCHANGED vars
    BY <1>6 DEF vars, regVars, callVars, history, Flushing, NamesIn
<1> QED
    BY <1>1, <1>2, <1>3, <1>4, <1>5, <1>6, Steps

\* A flush that finds no cache is excused.
LEMMA FlushExcused ==
    ASSUME Base, Agreed, Flushing, Overlaps, NEW c \in Calls,
           pc[c] = "flush", todo[c] # <<>>, caches[Head(todo[c])] = None
    PROVE  spoiled \/ overlapped[c]
<1> SUFFICES ASSUME ~spoiled, ~overlapped[c]
             PROVE  FALSE
    OBVIOUS
<1>1. up = TRUE /\ todo[c] \in Seq(Names)
    BY BusyIsUp DEF Base, Typed
<1>2. \A d \in Calls : ~Reloading(d)
    BY DEF Overlaps
<1>3. Cached = NamesIn(config)
    BY <1>1, <1>2 DEF Agreed
<1>4. Head(todo[c]) \in Elements(todo[c])
    BY <1>1, HeadAndTail
<1>5. Head(todo[c]) \in Cached
    BY <1>3, <1>4 DEF Flushing
<1> QED
    BY <1>5 DEF Cached

\* Answers of flushes stay excused.
LEMMA FlushFailureKept ==
    ASSUME Base, Overlaps, Agreed, Flushing, FlushFailure, [Next]_vars
    PROVE  FlushFailure'
<1> DEFINE Bad(a) == a # None /\ a.call = "flush" /\ a.error = "nil cache"
<1>1. \A c \in Calls : Bad(answer[c]) => spoiled \/ overlapped[c]
    BY DEF FlushFailure
<1>2. ASSUME \A c \in Calls : Bad(answer'[c]) => spoiled' \/ overlapped'[c]
      PROVE  FlushFailure'
    BY <1>2 DEF FlushFailure
<1>3. CASE Boot \/ UNCHANGED vars
    <2>1. UNCHANGED <<answer, spoiled, overlapped>>
        BY <1>3, BootLoads DEF vars, callVars, history
    <2> QED
        BY <1>1, <1>2, <2>1
<1>4. CASE Die
    <2>1. \A c \in Calls : answer'[c] = None
        BY <1>4 DEF Die
    <2> QED
        BY <1>2, <2>1
<1>5. ASSUME NEW c \in Calls, BeginReload(c) \/ BeginsFlush(c)
      PROVE  FlushFailure'
    <2>1. ~Bad(answer'[c])
        BY <1>5, BeginReloadParts, BeginsFlushParts
    <2>2. \A d \in Calls \ {c} : answer'[d] = answer[d]
        BY <1>5, BeginReloadParts, BeginsFlushParts DEF OthersKept, Kept
    <2>3. \A d \in Calls \ {c} : overlapped[d] => overlapped'[d]
        <3>1. CASE BeginReload(c)
            BY <3>1, BeginReloadParts
        <3>2. CASE BeginsFlush(c)
            BY <3>2, BeginsFlushParts
        <3> QED
            BY <1>5, <3>1, <3>2
    <2>4. spoiled' = spoiled
        BY <1>5, BeginReloadParts, BeginsFlushParts
    <2> HIDE DEF Bad
    <2> QED
        BY <1>1, <1>2, <2>1, <2>2, <2>3, <2>4
<1>6. ASSUME NEW c \in Calls, Step(c)
      PROVE  FlushFailure'
    <2>1. /\ overlapped' = overlapped /\ (spoiled => spoiled')
          /\ \A d \in Calls \ {c} : answer'[d] = answer[d]
        BY <1>6, StepsAreLocal DEF Local, OthersKept, Kept
    <2>2. DOMAIN answer = Calls
        BY DEF Base, Typed
    <2>3. ASSUME NEW status, NEW error, Finish(c, "reload", status, error)
          PROVE  ~Bad(answer'[c])
        BY <2>2, <2>3 DEF Finish
    <2>4. Bad(answer'[c]) => Bad(answer[c]) \/ FlushNext(c)
        <3>1. CASE UNCHANGED answer
            BY <3>1
        <3>2. CASE Load(c)
            BY <2>3, <3>1, <3>2 DEF Load
        <3>3. CASE OpenLevels(c)
            BY <2>3, <3>1, <3>3 DEF OpenLevels
        <3>4. CASE Register(c)
            BY <2>3, <3>1, <3>4 DEF Register
        <3>5. CASE EndReload(c)
            BY <2>3, <3>5 DEF EndReload
        <3>6. CASE EndFlush(c)
            BY <2>2, <3>6 DEF EndFlush, Finish
        <3> QED
            BY <1>6, <3>1, <3>2, <3>3, <3>4, <3>5, <3>6
            DEF Step, BeginInit, NextProxy, Store, BeginWipe, Wipe, callVars
    <2>5. ASSUME FlushNext(c), Bad(answer'[c])
          PROVE  Bad(answer[c]) \/ spoiled \/ overlapped[c]
        <3>1. CASE UNCHANGED answer
            BY <2>5, <3>1
        <3>2. CASE caches[Head(todo[c])] = None
            BY <2>5, <3>2, FlushExcused DEF FlushNext
        <3> QED
            BY <2>5, <3>1, <3>2 DEF FlushNext
    <2> HIDE DEF Bad
    <2>6. Bad(answer'[c]) => spoiled' \/ overlapped'[c]
        BY <1>1, <2>1, <2>4, <2>5
    <2> QED
        BY <1>1, <1>2, <2>1, <2>6
<1> QED
    BY <1>3, <1>4, <1>5, <1>6, Steps

-----------------------------------------------------------------------------
(***************************************************************************)
(* Answers and instances.                                                  *)
(***************************************************************************)

\* A list of rules of which one is broken gives an error of the known kinds.
LEMMA FirstErrorKnown ==
    ASSUME NEW rules \in Seq(Rule), Broken(rules) # {}
    PROVE  FirstError(rules) \in ErrorKinds
<1> DEFINE Is(i) == \A j \in Broken(rules) : i <= j
           k == CHOOSE i \in Broken(rules) : Is(i)
<1>1. Broken(rules) \subseteq Nat /\ Broken(rules) \subseteq DOMAIN rules
    BY DEF Broken
<1>2. \E i \in Broken(rules) : Is(i)
    BY <1>1, Least
<1>3. k \in Broken(rules)
    BY <1>2
<1>4. FirstError(rules) = rules[k][2]
    BY DEF FirstError
<1> HIDE DEF k
<1>5. rules[k] \in Rule
    BY <1>1, <1>3
<1> QED
    BY <1>4, <1>5 DEF Rule

\* A file that is not accepted is refused with such an error.
LEMMA RefusalKnown ==
    ASSUME NEW f \in RawConfigs, ~Accepted(f)
    PROVE  Refusal(f) \in ErrorKinds
<1>1. CASE BadPort(f)
    BY <1>1 DEF Refusal, ErrorKinds
<1>2. CASE ~BadPort(f)
    <2> DEFINE B(i) == Broken(ProxyRules(f.proxies[i])) # {}
               E(i) == IF B(i) THEN FirstError(ProxyRules(f.proxies[i])) ELSE "none"
               outer == [i \in DOMAIN f.proxies |-> <<B(i), E(i)>>]
               T == {i \in DOMAIN f.proxies : B(i)}
               Is(i) == \A j \in Broken(outer) : i <= j
               k == CHOOSE i \in Broken(outer) : Is(i)
    <2>1. f.proxies \in Seq(RawProxies)
        BY DEF RawConfigs
    <2>2. \A i \in DOMAIN f.proxies : f.proxies[i] \in RawProxies
        BY <2>1
    <2>3. T # {} /\ T \subseteq Nat
        <3>1. PICK i \in DOMAIN f.proxies : Broken(ProxyRules(f.proxies[i])) # {}
            BY <1>2 DEF Accepted
        <3>2. DOMAIN f.proxies \subseteq Nat
            BY <2>1
        <3> QED
            BY <3>1, <3>2
    <2>4. Broken(outer) = T
        BY DEF Broken
    <2>5. \E i \in Broken(outer) : Is(i)
        BY <2>3, <2>4, Least
    <2>6. k \in Broken(outer)
        BY <2>5
    <2>7. Refusal(f) = FirstError(outer)
        BY <1>2 DEF Refusal
    <2>8. FirstError(outer) = outer[k][2]
        BY DEF FirstError
    <2> HIDE DEF k
    <2>9. k \in DOMAIN f.proxies /\ B(k)
        BY <2>4, <2>6
    <2>10. outer[k][2] = E(k)
        BY <2>9
    <2>11. ProxyRules(f.proxies[k]) \in Seq(Rule)
        BY <2>2, <2>9, AllProxyRules
    <2>12. FirstError(ProxyRules(f.proxies[k])) \in ErrorKinds
        BY <2>9, <2>11, FirstErrorKnown
    <2> QED
        BY <2>7, <2>8, <2>9, <2>10, <2>12
<1> QED
    BY <1>1, <1>2

\* Every cache has settings of its name.
Instances ==
    \A n \in Cached :
        \E p \in Settings, b \in {"boot", "reload"} : caches[n] = NewCache(p, b) /\ p.name = n

\* Caches are stored under the name of their settings.
LEMMA InstancesKept ==
    ASSUME Base, Instances, [Next]_vars
    PROVE  Instances'
<1>1. CASE Boot
    <2>1. /\ Loaded(wired')
          /\ caches' = [n \in Names |->
                          IF n \in NamesIn(wired')
                            THEN NewCache(FirstNamed(wired', n), "boot") ELSE None]
        BY <1>1, BootLoads
    <2>2. ASSUME NEW n \in Names, caches'[n] # None
          PROVE  \E p \in Settings, b \in {"boot", "reload"} :
                    caches'[n] = NewCache(p, b) /\ p.name = n
        <3>1. n \in NamesIn(wired') /\ caches'[n] = NewCache(FirstNamed(wired', n), "boot")
            BY <2>1, <2>2
        <3>2. FirstNamed(wired', n) \in Settings /\ FirstNamed(wired', n).name = n
            BY <2>1, <3>1, FirstIsNamed
        <3> QED
            BY <3>1, <3>2
    <2> QED
        BY <2>2 DEF Instances, Cached
<1>2. CASE Die
    BY <1>2 DEF Die, Instances, Cached
<1>3. CASE UNCHANGED caches
    BY <1>3 DEF Instances, Cached
<1>4. ASSUME NEW c \in Calls, Store(c)
      PROVE  Instances'
    <2> DEFINE m == building[c].name
               k == NewCache(building[c], "reload")
    <2>1. building[c] \in Settings
        BY <1>4 DEF Store, Base, Typed, InHand, Building
    <2>2. caches' = [caches EXCEPT ![m] = k]
        BY <1>4 DEF Store
    <2>3. \E p \in Settings, b \in {"boot", "reload"} : k = NewCache(p, b) /\ p.name = m
        BY <2>1
    <2> HIDE DEF m, k
    <2> QED
        BY <2>2, <2>3 DEF Instances, Cached, Base, Typed
<1>5. ASSUME NEW c \in Calls, Wipe(c)
      PROVE  Instances'
    BY <1>5 DEF Wipe, Instances, Cached, Base, Typed
<1>6. ASSUME NEW c \in Calls, BeginReload(c) \/ BeginsFlush(c)
      PROVE  UNCHANGED caches
    BY <1>6, BeginReloadParts, BeginsFlushParts DEF regVars
<1>7. ASSUME NEW c \in Calls, Step(c)
      PROVE  Instances'
    BY <1>3, <1>4, <1>5, <1>7
    DEF Step, Load, BeginInit, NextProxy, OpenLevels, Register, BeginWipe,
        EndReload, FlushNext, EndFlush, regVars
<1> QED
    BY <1>1, <1>2, <1>3, <1>6, <1>7, Steps DEF vars, regVars

Answers == \A c \in Calls : answer[c] # None => IsAnswer(answer[c])

\* Every answer is one the endpoints can give.
LEMMA AnswersKept ==
    ASSUME Base, Answers, [Next]_vars
    PROVE  Answers'
<1> DEFINE Good(a) == a # None => IsAnswer(a)
<1>1. \A c \in Calls : Good(answer[c])
    BY DEF Answers
<1>2. ASSUME \A c \in Calls : Good(answer'[c])
      PROVE  Answers'
    BY <1>2 DEF Answers, IsAnswer
<1>3. CASE Boot \/ UNCHANGED vars
    <2>1. answer' = answer
        BY <1>3, BootLoads DEF vars, callVars
    <2> HIDE DEF Good
    <2> QED
        BY <1>1, <1>2, <2>1
<1>4. CASE Die
    <2>1. \A c \in Calls : answer'[c] = None
        BY <1>4 DEF Die
    <2> QED
        BY <1>2, <2>1
<1>5. ASSUME NEW c \in Calls, NEW call, NEW status, NEW error,
             Finish(c, call, status, error),
             IsAnswer([call |-> call, status |-> status, error |-> error])
      PROVE  Good(answer'[c])
    BY <1>5 DEF Finish, Base, Typed
<1>6. ASSUME NEW c \in Calls, NEW error, Finish(c, "reload", "failed", error),
             error \in ErrorKinds \cup {"unreadable", "ErrBuildInstance"}
      PROVE  Good(answer'[c])
    BY <1>5, <1>6 DEF IsAnswer
<1>7. ASSUME NEW c \in Calls, BeginReload(c) \/ BeginsFlush(c)
      PROVE  Answers'
    <2>1. \A d \in Calls \ {c} : answer'[d] = answer[d]
        BY <1>7, BeginReloadParts, BeginsFlushParts DEF OthersKept, Kept
    <2>2. ASSUME answer'[c] = None
          PROVE  Good(answer'[c])
        BY <2>2
    <2>3. ASSUME Finish(c, "flush", "panic", "no name") \/ Finish(c, "flush", "notFound", "none")
          PROVE  Good(answer'[c])
        BY <1>5, <2>3 DEF IsAnswer
    <2>4. BeginReload(c) => answer'[c] = None
        BY BeginReloadParts
    <2>5. BeginsFlush(c) => \/ answer'[c] = None
                            \/ Finish(c, "flush", "panic", "no name")
                            \/ Finish(c, "flush", "notFound", "none")
        BY DEF BeginsFlush, BeginFlushAll, FlushAllBySlash, BeginFlush, WithNames, Base, Typed
    <2>6. Good(answer'[c])
        BY <1>7, <2>2, <2>3, <2>4, <2>5
    <2> HIDE DEF Good
    <2> QED
        BY <1>1, <1>2, <2>1, <2>6
<1>8. ASSUME NEW c \in Calls, Step(c)
      PROVE  Answers'
    <2>1. \A d \in Calls \ {c} : answer'[d] = answer[d]
        BY <1>8, StepsAreLocal DEF Local, OthersKept, Kept
    <2>2. ASSUME Load(c)
          PROVE  UNCHANGED answer \/ Good(answer'[c])
        <3>1. ASSUME Finish(c, "reload", "failed", "unreadable")
              PROVE  Good(answer'[c])
            BY <1>6, <3>1
        <3>2. ASSUME NEW f \in Files, ~Accepted(f), Finish(c, "reload", "failed", Refusal(f))
              PROVE  Good(answer'[c])
            <4>1. Refusal(f) \in ErrorKinds
                BY <3>2, FilesAssumption, RefusalKnown
            <4> QED
                BY <1>6, <3>2, <4>1
        <3> HIDE DEF Good
        <3> QED
            BY <2>2, <3>1, <3>2 DEF Load
    <2>3. ASSUME Finish(c, "reload", "failed", "ErrBuildInstance")
          PROVE  Good(answer'[c])
        BY <1>6, <2>3
    <2>4. ASSUME \/ Finish(c, "reload", "panic", "duplicate metrics")
                 \/ Finish(c, "flush", "panic", "nil cache")
          PROVE  Good(answer'[c])
        BY <1>5, <2>4 DEF IsAnswer
    <2>5. ASSUME Finish(c, "reload", "ok", "none") \/ Finish(c, "flush", "ok", "none")
          PROVE  Good(answer'[c])
        BY <1>5, <2>5 DEF IsAnswer
    <2>6. \/ UNCHANGED answer \/ Load(c)
          \/ Finish(c, "reload", "failed", "ErrBuildInstance")
          \/ Finish(c, "reload", "panic", "duplicate metrics")
          \/ Finish(c, "flush", "panic", "nil cache")
          \/ Finish(c, "reload", "ok", "none") \/ Finish(c, "flush", "ok", "none")
        BY <1>8
        DEF Step, BeginInit, NextProxy, OpenLevels, Register, Store, BeginWipe, Wipe,
            EndReload, FlushNext, EndFlush, callVars
    <2>7. UNCHANGED answer \/ Good(answer'[c])
        BY <2>2, <2>3, <2>4, <2>5, <2>6
    <2>8. Good(answer'[c])
        BY <1>1, <2>7
    <2> HIDE DEF Good
    <2> QED
        BY <1>1, <1>2, <2>1, <2>8
<1> QED
    BY <1>3, <1>4, <1>7, <1>8, Steps

-----------------------------------------------------------------------------
(***************************************************************************)
(* The invariant, and what follows from it.                                *)
(***************************************************************************)
IInv ==
    /\ Base /\ OneCache /\ Instances /\ Answers
    /\ Overlaps /\ Progress /\ Agreed /\ Flushing /\ FlushFailure

\* The invariant holds at first.
LEMMA InvariantAtFirst == Init => IInv
<1> SUFFICES ASSUME Init
             PROVE  IInv
    OBVIOUS
<1>1. Base
    BY BaseAtFirst
<1>2. ~up /\ (\A c \in Calls : pc[c] = "idle" /\ answer[c] = None) /\ Cached = {}
    BY DEF Init, Cached
<1>3. OneCache /\ Instances /\ Answers
    BY <1>2 DEF OneCache, Instances, Answers
<1>4. Overlaps /\ Agreed /\ Flushing /\ FlushFailure
    BY <1>2 DEF Overlaps, Agreed, Flushing, FlushFailure, Reloading
<1>5. Progress
    BY <1>2 DEF Progress, Stage
<1> QED
    BY <1>1, <1>3, <1>4, <1>5 DEF IInv

\* It is kept by every step.
LEMMA InvariantKept == IInv /\ [Next]_vars => IInv'
<1> SUFFICES ASSUME IInv, [Next]_vars
             PROVE  IInv'
    OBVIOUS
<1>1. Base /\ OneCache /\ Instances /\ Answers
    BY DEF IInv
<1>2. Overlaps /\ Progress /\ Agreed /\ Flushing /\ FlushFailure
    BY DEF IInv
<1>3. Base' /\ OneCache' /\ Instances' /\ Answers'
    BY <1>1, BaseKept, OneCacheKept, InstancesKept, AnswersKept
<1>4. Overlaps' /\ Progress' /\ Agreed'
    BY <1>1, <1>2, OverlapsKept, ProgressKept, AgreedKept
<1>5. Flushing' /\ FlushFailure'
    BY <1>1, <1>2, FlushingKept, FlushFailureKept
<1> QED
    BY <1>3, <1>4, <1>5 DEF IInv

\* IInv holds in every reachable state: types, the wired caches, the marks on
\* overlapping calls, and the progress of whoever is alone.
THEOREM RegistryInvariance == Spec => []IInv
<1> QED
    BY InvariantAtFirst, InvariantKept, PTL DEF Spec

\* Every variable keeps its type, every tile handler has a cache (proxy.go:25),
\* and a refused file is answered with one of the errors of config/errors.go.
THEOREM RegistryTypes == Spec => []TypeOK
<1>1. IInv => TypeOK
  <2> SUFFICES ASSUME IInv
               PROVE  TypeOK
      OBVIOUS
  <2>1. Typed /\ InForce /\ Down /\ InHand
      BY DEF IInv, Base
  <2>2. ASSUME NEW p \in Settings, NEW b \in {"boot", "reload"}
        PROVE  NewCache(p, b) # None /\ IsInstance(NewCache(p, b))
      BY SettingsNamed, NoneAssumption DEF IsInstance, NewCache
  <2>3. up => config # None /\ wired # None /\ DOMAIN serving = DOMAIN wired.proxies
      BY <2>1, LoadedParts DEF IInv, OneCache, InForce
  <2>4. ASSUME NEW i \in DOMAIN serving
        PROVE  serving[i] # None /\ IsInstance(serving[i])
    <3>1. up = TRUE
        BY <2>1 DEF Down, Typed
    <3>2. i \in DOMAIN wired.proxies /\ serving[i] = Given(wired.proxies[i].name)
        BY <3>1 DEF IInv, OneCache
    <3>3. FirstNamed(wired, wired.proxies[i].name) \in Settings
        BY <2>1, <3>1, <3>2, FirstIsNamed DEF InForce, NamesIn
    <3> QED
        BY <2>2, <3>2, <3>3 DEF Given
  <2>5. ASSUME NEW n \in Cached
        PROVE  IsInstance(caches[n]) /\ caches[n].settings.name = n
    <3>1. PICK p \in Settings, b \in {"boot", "reload"} : caches[n] = NewCache(p, b) /\ p.name = n
        BY DEF IInv, Instances
    <3>2. NewCache(p, b).settings = p
        BY DEF NewCache
    <3> QED
        BY <2>2, <3>1, <3>2
  <2>6. ASSUME NEW c \in Calls
        PROVE  /\ \A i \in DOMAIN todo[c] : todo[c][i] \in Names
               /\ building[c] # None <=> pc[c] \in {"open", "register", "store"}
               /\ keep[c] \subseteq Names /\ doomed[c] \subseteq Names
               /\ answer[c] # None => IsAnswer(answer[c])
    <3>1. todo[c] \in Seq(Names)
        BY <2>1 DEF Typed
    <3>2. \A i \in DOMAIN todo[c] : todo[c][i] \in Names
        BY <3>1
    <3> QED
        BY <2>1, <3>2 DEF IInv, Answers, Typed, InHand, Building
  <2> QED
      BY <2>1, <2>3, <2>4, <2>5, <2>6 DEF TypeOK, Typed
<1> QED
    BY <1>1, RegistryInvariance, PTL

\* Whatever is loaded, at the start or by a reload, the configuration in force
\* is usable (config.go:229).
THEOREM InForceIsUsable == Spec => []ConfigUsable
<1>1. IInv => ConfigUsable
    BY LoadedIsUsable DEF IInv, Base, InForce, ConfigUsable
<1> QED
    BY <1>1, RegistryInvariance, PTL

\* A tile handler's cache is the one the registry has under its name, as long
\* as it has one (proxy.go:25, cache.go:189).
THEOREM HandlersShareTheRegistry == Spec => []ServedFromOneCache
<1>1. IInv => ServedFromOneCache
  <2> SUFFICES ASSUME IInv, NEW i \in DOMAIN serving
               PROVE  /\ caches[wired.proxies[i].name] \in {None, serving[i]}
                      /\ serving[i].settings = FirstNamed(wired, wired.proxies[i].name)
      BY DEF ServedFromOneCache
  <2>1. up = TRUE
      BY DEF IInv, Base, Down, Typed
  <2>2. /\ i \in DOMAIN wired.proxies
        /\ serving[i] = Given(wired.proxies[i].name)
      BY <2>1 DEF IInv, OneCache
  <2>3. wired.proxies[i].name \in NamesIn(wired)
      BY <2>2 DEF NamesIn
  <2>4. caches[wired.proxies[i].name] \in {None, Given(wired.proxies[i].name)}
      BY <2>1, <2>3 DEF IInv, OneCache
  <2> QED
      BY <2>2, <2>4 DEF Given, NewCache
<1> QED
    BY <1>1, RegistryInvariance, PTL

\* Between reloads the registry holds exactly the configured proxies, unless a
\* reload failed in Init or two overlapped (reload.go:16, cache.go:76).
THEOREM RegistrySettles == Spec => []Settled
<1>1. IInv => Settled
    BY DEF IInv, Agreed, Settled
<1> QED
    BY <1>1, RegistryInvariance, PTL

\* A flush finds a configured proxy without a cache only beside a reload, or
\* after one that failed or overlapped another (flush.go:17).
THEOREM FlushesFail == Spec => []FlushFailure
<1>1. IInv => FlushFailure
    BY DEF IInv
<1> QED
    BY <1>1, RegistryInvariance, PTL

\* A name whose cache was deleted never has one again in this process
\* (cache.go:189).
THEOREM RemovalIsFinal == Spec => RemovedStaysRemoved
<1>1. ASSUME IInv, Next, NEW n \in Names, Removed(n), up'
      PROVE  Removed(n)'
  <2>1. Base
      BY <1>1 DEF IInv
  <2>2. up = TRUE
      BY <1>1, <2>1 DEF Base, Typed, Down, Removed
  <2>3. ASSUME NEW c \in Calls, BeginReload(c) \/ BeginsFlush(c)
        PROVE  Removed(n)'
    <3>1. UNCHANGED regVars /\ pc'[c] # "store"
        BY <2>1, <2>3, BeginReloadParts, BeginsFlushParts DEF Reloading
    <3>2. \A d \in Calls \ {c} : pc'[d] = pc[d] /\ building'[d] = building[d]
        BY <2>1, <2>3, BeginReloadParts, BeginsFlushParts DEF OthersKept, Kept
    <3> QED
        BY <1>1, <3>1, <3>2 DEF Removed, regVars
  <2>4. ASSUME NEW c \in Calls, Step(c)
        PROVE  Removed(n)'
    <3>1. \A d \in Calls \ {c} : pc'[d] = pc[d] /\ building'[d] = building[d]
        BY <2>1, <2>4, StepsAreLocal DEF Local, OthersKept, Kept
    <3>2. registered \subseteq registered'
        BY <2>4
        DEF Step, Load, BeginInit, NextProxy, OpenLevels, Register, Store, BeginWipe, Wipe,
            EndReload, FlushNext, EndFlush, regVars
    <3>3. caches'[n] = None
      <4>1. CASE Store(c)
          BY <1>1, <2>1, <4>1 DEF Store, Removed, Base, Typed
      <4>2. CASE Wipe(c)
          BY <1>1, <2>1, <4>2 DEF Wipe, Removed, Base, Typed
      <4>3. CASE UNCHANGED caches
          BY <1>1, <4>3 DEF Removed
      <4> QED
          BY <2>4, <4>1, <4>2, <4>3
          DEF Step, Load, BeginInit, NextProxy, OpenLevels, Register, BeginWipe,
              EndReload, FlushNext, EndFlush, regVars
    <3>4. pc'[c] = "store" => building'[c].name # n
      <4>1. CASE Register(c)
          BY <1>1, <2>1, <4>1 DEF Register, Removed, Goto, Finish, Base, Typed
      <4>2. CASE Wipe(c)
          BY <4>2 DEF Wipe, callVars
      <4>3. pc'[c] = "store" => Register(c) \/ Wipe(c)
          BY <2>1, <2>4
          DEF Step, Load, BeginInit, NextProxy, OpenLevels, Store, BeginWipe,
              EndReload, FlushNext, EndFlush, Goto, Finish, Base, Typed
      <4> QED
          BY <4>1, <4>2, <4>3 DEF Wipe
    <3> QED
        BY <1>1, <3>1, <3>2, <3>3, <3>4 DEF Removed
  <2> QED
      BY <1>1, <2>2, <2>3, <2>4, Steps DEF Boot, Die, vars, regVars, callVars, Removed
<1>2. IInv /\ [Next]_vars => [\A n \in Names : Removed(n) /\ up' => Removed(n)']_vars
    BY <1>1
<1> QED
    BY <1>2, RegistryInvariance, PTL DEF Spec, RemovedStaysRemoved

\* The routes of a process that has just started are those of a loaded file.
LEMMA BootedIsNamed ==
    ASSUME IInv, [Next]_vars, Booted
    PROVE  Named(wired')
<1>1. Base
    BY DEF IInv
<1>2. Boot
    <2>1. ASSUME NEW c \in Calls, BeginReload(c) \/ BeginsFlush(c) \/ Step(c)
          PROVE  FALSE
        BY <1>1, <2>1, BeginReloadParts, BeginsFlushParts, StepsAreLocal DEF Booted, Local
    <2> QED
        BY <2>1, Steps DEF Booted, Die, vars, regVars
<1> QED
    BY <1>2, BootLoads, LoadedIsNamed

\* Handlers of a process that has just started run only with the token they
\* ask for, however many proxies there are (middleware.go:71).
THEOREM TokensGuardHandlers == Spec => EveryTokenGuards
<1>1. IInv /\ [Next]_vars => [Booted => \A q \in Requests : TokenGuards(wired', q)]_vars
    BY BootedIsNamed, TokensGuard
<1> QED
    BY <1>1, RegistryInvariance, PTL DEF Spec, EveryTokenGuards

\* Handlers serve the proxy whose name the path has, although groups whose
\* names begin it have marked the request too (admin/wire.go:61).
THEOREM NamesReachTheirProxy == Spec => EveryRightGroup
<1>1. IInv /\ [Next]_vars => [Booted => \A q \in Requests : RightGroup(wired', q)]_vars
    BY BootedIsNamed, GroupsAreRight
<1> QED
    BY <1>1, RegistryInvariance, PTL DEF Spec, EveryRightGroup

\* Tiles are sent with the origins of their own proxy, although every earlier
\* proxy's CORS middleware has seen the request (middleware.go:40).
THEOREM OwnOriginsSent == Spec => EveryOwnOrigins
<1>1. IInv /\ [Next]_vars => [Booted => \A q \in Requests : OwnOrigins(wired', q)]_vars
    BY BootedIsNamed, OriginsAreOwn
<1> QED
    BY <1>1, RegistryInvariance, PTL DEF Spec, EveryOwnOrigins

\* Who has the right token is refused only on behalf of a group whose name
\* begins the name in the path (proxy/wire.go:33).
THEOREM PrefixesRefuse == Spec => EveryRefusedByPrefix
<1>1. IInv /\ [Next]_vars => [Booted => \A q \in Requests : RefusedByPrefix(wired', q)]_vars
    BY BootedIsNamed, OnlyPrefixesRefuse, RequestsAssumption
<1> QED
    BY <1>1, RegistryInvariance, PTL DEF Spec, EveryRefusedByPrefix
=============================================================================
