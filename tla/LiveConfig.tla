----------------------------- MODULE LiveConfig -----------------------------
(***************************************************************************)
(* The configuration file, the server that loads it at start and writes it *)
(* on every save from the dashboard (internal/config/settings.go), and the *)
(* commands of internal/cli that load, edit and write the same file.       *)
(*                                                                         *)
(* A save is three steps on the file: open it (which empties it), write,   *)
(* restrict its permissions.  Between them the process may die, the step   *)
(* may fail, and another program may be at the same file.  A file of which *)
(* only the beginning was written may still be one that can be loaded.     *)
(***************************************************************************)
EXTENDS Naturals, Functions, Routing

CONSTANTS
  Operators,      \* dashboard requests that save settings at the same time
  Users,          \* user ids
  Tokens,         \* virtual keys (bound: no more are ever generated)
  Providers,      \* provider names
  Models,         \* the models a fallback list may name
  HandWritten,    \* files that an operator may have written to begin with
  Setups,         \* what the user of init may answer
  Edits,          \* the settings that an operator may save
  Commands,       \* the commands that are run: "init", "add-provider", ...
  MaxCommands,    \* bound: so many commands are run
  WritesMayFail,  \* opening, writing and restricting the file may fail
  CutAgain        \* bound: a write may be cut off also after a file that was
                  \* has been loaded

Cli == "cli"
Nobody == "nobody"
Writers == Operators \cup {Cli}

\* keys: pairs of a virtual key and the user it maps to.  login: which of the
\* passwords and session secrets ever set is in force, 0 for none.  priced: the
\* models that the pricing section has entries for, each with the provider it
\* names there; no program edits it.  cacheReady: the cache's backend has the
\* address that it needs.
Login  == 0 .. MaxCommands
Priced == Models \X (Providers \cup {Unnamed})
Config == [providers : SUBSET Providers, users : SUBSET Users,
           keys : SUBSET (Tokens \X Users), fallback : SUBSET Models,
           priced : SUBSET Priced, cacheOn : BOOLEAN, cacheReady : BOOLEAN,
           login : Login]

\* What init asks for, and what the dashboard may write.
Setup    == [providers : SUBSET Providers, users : SUBSET Users, cacheOn : BOOLEAN]
Editable == [users : SUBSET Users, fallback : SUBSET Models, cacheOn : BOOLEAN]

\* What an empty file says, and init starts from: the memory is a cache that
\* needs no address.
NoConfig == [providers |-> {}, users |-> {}, keys |-> {}, fallback |-> {},
             priced |-> {}, cacheOn |-> FALSE, cacheReady |-> TRUE, login |-> 0]
\* An emptied file, and here every one that cannot be parsed, is this one.
Broken == NoConfig

VARIABLES
  file,      \* the configuration file, or Broken: empty or cut short
  running,   \* whether a server runs
  mem,       \* the running server's configuration (Settings.cfg)
  mu,        \* the operator whose save holds Settings.mu, or Nobody
  job,       \* each writer: where it stands, its configuration, its new keys
  command,   \* the command under way, or "none"
  commands,  \* how many commands have been run
  tokens,    \* the virtual keys ever generated
  torn,      \* history: "file" holds the beginning of what was written, such a
             \* file has been "loaded", or "no"
  accepted,  \* history: the configuration last loaded or successfully saved
  shown,     \* history: the keys that some operator has been shown
  reset,     \* history: the login a reset wrote, 0 if none since the last init
  overlap,   \* history: whether a command and a server ran at one time
  failed     \* history: whether a save failed since the server started

vars == <<file, running, mem, mu, job, command, commands, tokens,
          torn, accepted, shown, reset, overlap, failed>>

server  == <<running, mem, mu>>
cli     == <<command, commands>>
history == <<torn, accepted, shown, reset, overlap, failed>>

Stage == {"idle", "prompt", "open", "write", "cut", "restrict", "answer"}
SaveSteps == {"open", "write", "cut", "restrict"}

\* cfg: for an operator's save what rollback restores, for a command what it
\* is going to write.
Idle == [pc |-> "idle", cfg |-> NoConfig, issued |-> {}]

At(w, stage) == job[w].pc = stage
Become(w, j) == job' = [job EXCEPT ![w] = j]
Goto(w, stage) == Become(w, [job[w] EXCEPT !.pc = stage])

UsersOf(keys) == {k[2] : k \in keys}

\* Defect: that the model is known is enough.
FallbackKnown(fallback, providers, table) ==
  \A m \in fallback : Known(table, Trimmed(m))

\* ValidateFallback: each model, without the white space around it, is known and
\* served by a configured provider.  The list is kept as it was given.
FallbackServed(fallback, providers, table) ==
  \A m \in fallback :
    Known(table, Trimmed(m)) /\ ProviderFor(table, Trimmed(m)) \in providers

\* The server's table, once it has applied its prices.
LiveTable(c) == ApplyOverrides(Table, c.priced)

\* Validate: what Load requires of a file.  No program has applied the file's
\* prices when it does.
Loads(c) ==
  /\ c.providers # {}
  /\ FallbackServed(c.fallback, c.providers, Table)
  /\ c.cacheOn => c.cacheReady

\* The files by hand are those that can be loaded; the others are Broken.
ASSUME LiveConfigAssumption ==
  /\ {Cli, Nobody} \cap Operators = {}
  /\ Models \subseteq Seq(STRING) \ {<< >>}
  /\ Commands \subseteq {"init", "add-provider", "reset-dashboard-password"}
  /\ HandWritten \subseteq {c \in Config : c.login = 0 /\ Loads(c)}
  /\ Setups \subseteq Setup /\ Edits \subseteq Editable
  /\ MaxCommands \in Nat
  /\ WritesMayFail \in BOOLEAN /\ CutAgain \in BOOLEAN

\* generateKey: one fresh key for each of the users.
Issue(users) ==
  {{<<f[u], u>> : u \in users} : f \in Injection(users, Tokens \ tokens)}

Generated(issued) == tokens' = tokens \cup {k[1] : k \in issued}
-----------------------------------------------------------------------------
\* A new installation: no file, or an empty one, or one written by hand.  Keys
\* that are chosen by hand are never generated.
Init ==
  /\ file \in HandWritten \cup {Broken}
  /\ running = FALSE
  /\ mem = NoConfig
  /\ mu = Nobody
  /\ job = [w \in Writers |-> Idle]
  /\ command = "none"
  /\ commands = 0
  /\ tokens = {k[1] : k \in UNION {h.keys : h \in HandWritten}}
  /\ torn = "no"
  /\ accepted = NoConfig
  /\ shown = {}
  /\ reset = 0
  /\ overlap = FALSE
  /\ failed = FALSE
-----------------------------------------------------------------------------
(* The server.                                                             *)

\* The file is loaded, or written anew.
Reading == torn' = IF torn = "file" THEN "loaded" ELSE torn
Rewriting == torn' = IF torn = "file" THEN "no" ELSE torn

\* RunServer loads the file and applies its prices; from here on it reads its
\* configuration from memory, and the dashboard its login.
Start ==
  /\ ~running
  /\ Loads(file)
  /\ running' = TRUE
  /\ mem' = file
  /\ accepted' = file
  /\ overlap' = (overlap \/ command # "none")
  /\ failed' = FALSE
  /\ Reading
  /\ UNCHANGED <<file, mu, job, cli, tokens, shown, reset>>

\* The server stops or dies, in the middle of a save or not.
Stop ==
  /\ running
  /\ running' = FALSE
  /\ mem' = NoConfig
  /\ mu' = Nobody
  /\ job' = [w \in Writers |-> IF w = Cli THEN job[w] ELSE Idle]
  /\ UNCHANGED <<file, cli, tokens, history>>

\* Defect: an entry that a key needs may be removed.
KeysNeedNoBudget(keys, users) == TRUE

\* checkKeysStillBudgeted.
KeysStillBudgeted(keys, users) == UsersOf(keys) \subseteq users

\* Defect: the fallback list is taken as it is.
AcceptableFallbackOrNot(e) == KeysStillBudgeted(mem.keys, e.users)

\* Apply's checks against the live configuration.
Acceptable(e) ==
  /\ KeysStillBudgeted(mem.keys, e.users)
  /\ FallbackServed(e.fallback, mem.providers, LiveTable(mem))

\* Defect: the keys of before are not carried over.
OnlyIssued(keys, issued) == issued

WithIssued(keys, issued) == keys \cup issued

\* Defect: Apply does not wait for the lock.
LockIgnored == TRUE

LockFree == mu = Nobody

\* Apply up to its call of Save: check, issue keys, swap, all under the lock.
Apply(o, e) ==
  /\ running /\ LockFree /\ At(o, "idle")
  /\ Acceptable(e)
  /\ \E issued \in Issue(e.users \ UsersOf(mem.keys)) :
        /\ mem' = [mem EXCEPT !.cacheOn = e.cacheOn, !.users = e.users,
                              !.fallback = e.fallback,
                              !.keys = WithIssued(@, issued)]
        /\ Become(o, [pc |-> "open", cfg |-> mem, issued |-> issued])
        /\ Generated(issued)
  /\ mu' = o
  /\ UNCHANGED <<file, running, cli, history>>

\* Defect: the rollback forgets the key map.
RollbackWithoutKeys(o) ==
  [mem EXCEPT !.cacheOn = job[o].cfg.cacheOn, !.users = job[o].cfg.users,
              !.fallback = job[o].cfg.fallback]

Rollback(o) ==
  [mem EXCEPT !.cacheOn = job[o].cfg.cacheOn, !.users = job[o].cfg.users,
              !.fallback = job[o].cfg.fallback, !.keys = job[o].cfg.keys]

\* Save returned an error: Apply puts the four fields back.
ApplyFails(o) ==
  /\ WritesMayFail
  /\ job[o].pc \in SaveSteps
  /\ mem' = Rollback(o)
  /\ mu' = Nobody
  /\ Become(o, Idle)
  /\ failed' = TRUE
  /\ UNCHANGED <<file, running, cli, tokens, torn, accepted, shown, reset, overlap>>

\* Save returned: the lock is let go.
Applied(o) ==
  /\ At(o, "restrict")
  /\ mu' = Nobody
  /\ Become(o, [job[o] EXCEPT !.pc = "answer", !.cfg = NoConfig])
  /\ accepted' = mem
  /\ UNCHANGED <<file, running, mem, cli, tokens, torn, shown, reset, overlap, failed>>

\* UpdateSettings answers with a snapshot of its own and the new keys.
Respond(o) ==
  /\ At(o, "answer") /\ LockFree
  /\ shown' = shown \cup job[o].issued
  /\ Become(o, Idle)
  /\ UNCHANGED <<file, server, cli, tokens, torn, accepted, reset, overlap, failed>>
-----------------------------------------------------------------------------
(* Save, by the server or a command.                                       *)

\* Defect: Apply saves before it swaps.
PayloadOfBefore(w) == job[w].cfg

Payload(w) == IF w = Cli THEN job[w].cfg ELSE mem

\* os.WriteFile opens the file, which empties it.  From here on init's
\* overwriting of the old keys, which its user has confirmed, is done.
Truncate(w) ==
  /\ At(w, "open")
  /\ file' = Broken
  /\ shown' = IF w = Cli /\ command = "init" THEN {} ELSE shown
  /\ Goto(w, "write")
  /\ Rewriting
  /\ UNCHANGED <<server, cli, tokens, accepted, reset, overlap, failed>>

\* It writes.  If another program wrote in between, the end of its file is left
\* behind this one and may be more than the parser takes.
Write(w) ==
  /\ At(w, "write")
  /\ \/ file' = Payload(w)
     \/ file # Broken /\ file' = Broken
  /\ reset' = IF w # Cli \/ command = "add-provider" THEN reset
              ELSE IF command = "init" THEN 0 ELSE job[w].cfg.login
  /\ Goto(w, "restrict")
  /\ Rewriting
  /\ UNCHANGED <<server, cli, tokens, accepted, shown, overlap, failed>>

\* c over the file d, cut off in one of its sections: those before it are c's,
\* those after it still d's, which is Broken if no other program wrote.  Of the
\* section itself there are some entries, the last perhaps in part: a cache
\* without its backend or its address, a key that maps to the beginning of a
\* user id, the beginning of a model's name, a price without its provider.
CutOff(c, d) ==
  LET cache    == [d EXCEPT !.providers = c.providers]
      users    == [cache EXCEPT !.cacheOn = c.cacheOn, !.cacheReady = c.cacheReady]
      keys     == [users EXCEPT !.users = c.users]
      fallback == [keys EXCEPT !.keys = c.keys]
      login    == [fallback EXCEPT !.fallback = c.fallback]
      priced   == [login EXCEPT !.login = c.login]
      names    == {n \in Models : \E m \in c.fallback : n \in Beginnings(m)}
  IN  {[d EXCEPT !.providers = part] : part \in SUBSET c.providers}
        \cup {[cache EXCEPT !.cacheReady = ready] : ready \in BOOLEAN}
        \cup {[users EXCEPT !.cacheReady = ready] : ready \in BOOLEAN}
        \cup {[users EXCEPT !.users = part] : part \in SUBSET c.users}
        \cup {[keys EXCEPT !.keys = part] : part \in SUBSET c.keys}
        \cup {[keys EXCEPT !.keys = (part \ {k}) \cup {<<k[1], u>>}] :
                part \in SUBSET c.keys, k \in c.keys, u \in Users}
        \cup {[fallback EXCEPT !.fallback = part] : part \in SUBSET c.fallback}
        \cup {[fallback EXCEPT !.fallback = part \cup {n}] :
                part \in SUBSET c.fallback, n \in names}
        \cup {[login EXCEPT !.login = 0]}
        \cup {[priced EXCEPT !.priced = part] : part \in SUBSET c.priced}
        \cup {[priced EXCEPT !.priced = (part \ {o}) \cup {<<o[1], Unnamed>>}] :
                part \in SUBSET c.priced, o \in c.priced}

\* Only the beginning of it gets written, which happens to load.  (What does
\* not is left at the step before: Broken.)
CutShort(w) ==
  /\ WritesMayFail /\ (torn = "loaded" => CutAgain)
  /\ At(w, "write")
  /\ file' \in CutOff(Payload(w), file)
  /\ Loads(file')
  /\ torn' = IF torn = "loaded" THEN torn ELSE "file"
  /\ Goto(w, "cut")
  /\ UNCHANGED <<server, cli, tokens, accepted, shown, reset, overlap, failed>>
-----------------------------------------------------------------------------
(* The commands.                                                           *)

\* A command starts: init from nothing, the others from the file.
Begin(name) ==
  /\ command = "none" /\ commands < MaxCommands
  /\ name \in Commands
  /\ name # "init" => Loads(file)
  /\ command' = name
  /\ commands' = commands + 1
  /\ Become(Cli, [Idle EXCEPT !.pc = "prompt",
                              !.cfg = IF name = "init" THEN NoConfig ELSE file])
  /\ overlap' = (overlap \/ running)
  /\ IF name = "init" THEN UNCHANGED torn ELSE Reading
  /\ UNCHANGED <<file, server, tokens, accepted, shown, reset, failed>>

\* The command has its answers, and turns to saving.
Edited(c, issued) ==
  /\ At(Cli, "prompt")
  /\ Become(Cli, [pc |-> "open", cfg |-> c, issued |-> issued])
  /\ Generated(issued)
  /\ UNCHANGED <<file, server, cli, history>>

NewLogin == commands

\* RunInit: providers, users with a key each, perhaps a login, and a cache with
\* all that it needs.
InitEdits ==
  /\ command = "init"
  /\ \E a \in Setups, login \in {0, NewLogin} :
        /\ a.providers # {}
        /\ \E issued \in Issue(a.users) :
              Edited([NoConfig EXCEPT !.providers = a.providers, !.users = a.users,
                        !.keys = issued, !.cacheOn = a.cacheOn, !.login = login],
                     issued)

\* RunAddProvider: some of the providers that are not configured yet.
AddProviderEdits ==
  /\ command = "add-provider"
  /\ \E p \in (SUBSET (Providers \ job[Cli].cfg.providers)) \ {{}} :
        Edited([job[Cli].cfg EXCEPT !.providers = @ \cup p], {})

\* RunResetDashboardPassword: another password and another session secret.
ResetEdits ==
  /\ command = "reset-dashboard-password"
  /\ Edited([job[Cli].cfg EXCEPT !.login = NewLogin], {})

\* The command ends: it has saved and shows its keys, or there was nothing
\* to do, or it was broken off, at a prompt or in the middle of its save.
CommandEnds ==
  /\ command # "none"
  /\ shown' = IF At(Cli, "restrict") THEN shown \cup job[Cli].issued ELSE shown
  /\ command' = "none"
  /\ Become(Cli, Idle)
  /\ UNCHANGED <<file, server, commands, tokens, torn, accepted, reset, overlap, failed>>
-----------------------------------------------------------------------------
Next ==
  \/ Start \/ Stop
  \/ \E o \in Operators :
        \/ \E e \in Edits : Apply(o, e)
        \/ ApplyFails(o) \/ Applied(o) \/ Respond(o)
  \/ \E w \in Writers : Truncate(w) \/ Write(w) \/ CutShort(w)
  \/ \E name \in Commands : Begin(name)
  \/ InitEdits \/ AddProviderEdits \/ ResetEdits \/ CommandEnds

Spec == Init /\ [][Next]_vars
-----------------------------------------------------------------------------
(* Properties.                                                             *)

\* Every variable has its type; an operator's save and the lock it holds go
\* together.
TypeOK ==
  /\ file \in Config
  /\ running \in BOOLEAN
  /\ mem \in Config /\ accepted \in Config
  /\ mu \in Operators \cup {Nobody}
  /\ job \in [Writers -> [pc : Stage, cfg : Config,
                          issued : SUBSET (Tokens \X Users)]]
  /\ command \in Commands \cup {"none"}
  /\ commands \in 0 .. MaxCommands
  /\ tokens \subseteq Tokens
  /\ torn \in {"no", "file", "loaded"}
  /\ shown \subseteq Tokens \X Users
  /\ reset \in Login
  /\ overlap \in BOOLEAN /\ failed \in BOOLEAN
  /\ \A o \in Operators : (job[o].pc \in SaveSteps) <=> mu = o

\* The keys whose user has no budget entry: they spend without a limit.
Unbudgeted(c) == {k \in c.keys : k[2] \notin c.users}

\* Server and commands make no key spend without a limit
\* (checkKeysStillBudgeted): one whose user has no budget entry, in the server's
\* memory or in the file, is one that a file by hand had so, at which the
\* program only warns.  The exception is a file that was cut off in the middle of
\* a user id and still loads, and what a program makes of it that starts from it.
KeysBudgeted ==
  LET found == UNION {Unbudgeted(h) : h \in HandWritten}
  IN  /\ torn # "loaded" => Unbudgeted(mem) \subseteq found
      /\ torn = "no" => Unbudgeted(file) \subseteq found

\* A save that failed leaves nothing of itself in the server's memory: while
\* no save is under way, memory is what was last loaded or saved (Apply).
FailedSaveLeavesNoTrace ==
  running /\ LockFree => mem = accepted

\* A pricing section has no entry about a model.
Unpriced(c, m) == \A o \in c.priced : o[1] \notin Beginnings(m)

\* Whatever server and commands write over each other, and wherever a write is
\* cut off, a file that is not broken lets the next server start, but for the
\* two things that Apply does not check: that a cache it turns on has its
\* address, and that Load, too, knows a fallback that a pricing entry is about
\* (Validate).
SavedConfigsLoad ==
  file # Broken =>
    \/ Loads(file)
    \/ file.cacheOn /\ ~file.cacheReady
    \/ \E m \in file.fallback : ~Unpriced(file, Trimmed(m))

\* A fallback model in force is sent to a provider that is configured, not
\* skipped (ValidateFallback), if its provider is one of the five that the
\* router knows, the program's own price table gives it that, and there is no
\* white space around its name, which the router does not trim: of such a name
\* the table and the router agree.
KnownFallbackReached ==
  running => \A m \in mem.fallback :
    /\ m = Trimmed(m) /\ Unpriced(mem, m)
    /\ Known(Table, m) /\ ProviderFor(Table, m) \in DOMAIN Families
    => RouteProvider(m) \in mem.providers

\* While no command runs beside the server, a key that was shown once works
\* in every server started later, through failed saves and crashes in the
\* middle of one, and a reset login is the one in force: until a program starts
\* from a file that was cut off and still loads, which is without what followed.
ChangesSurvive ==
  running /\ ~overlap /\ torn # "loaded" =>
    /\ shown \subseteq mem.keys
    /\ reset # 0 => mem.login = reset

\* The snapshot that UpdateSettings takes after Apply has let the lock go has
\* the budget of every user for whom it shows a new key.
AnswerShowsIssuedUsers ==
  \A o \in Operators :
     At(o, "answer") => UsersOf(job[o].issued) \subseteq mem.users

\* While nothing fails and no command runs beside it, a server and its file
\* agree between saves.
AgreeWhileNothingFails ==
  running /\ LockFree /\ ~overlap /\ ~failed => file = mem

\* Apply's comment: a failed write rolls back the in-memory change too, so
\* the process and the file never disagree.
ProcessAndFileAgree ==
  running /\ LockFree /\ ~overlap => file = mem

\* The troubleshooting page: a reset needs no server restart, and signs out
\* the sessions of before.
ResetTakesEffect ==
  running /\ command = "none" /\ reset # 0 => mem.login = reset
=============================================================================
