-------------------------- MODULE LiveConfigProofs --------------------------
(***************************************************************************)
(* Theorems of LiveConfig, for any number of operators, users, keys and    *)
(* commands: its types, the budgets behind its keys, failed saves, what    *)
(* survives a restart, and what a saved file and its fallback list are     *)
(* good for.                                                               *)
(***************************************************************************)
EXTENDS LiveConfig, RoutingProofs

Saving(o) == job[o].pc \in {"open", "write", "cut", "restrict"}

JobType == [pc : Stage, cfg : Config, issued : SUBSET (Tokens \X Users)]

LEMMA NoConfigType == NoConfig \in Config
  BY LiveConfigAssumption DEF NoConfig, Config, Login

LEMMA IdleType == Idle \in JobType
  BY NoConfigType DEF Idle, JobType, Stage

\* The fields of a configuration and of a writer's record.
LEMMA ConfigType ==
  ASSUME NEW c \in Config
  PROVE  /\ c.providers \in SUBSET Providers /\ c.users \in SUBSET Users
         /\ c.keys \in SUBSET (Tokens \X Users) /\ c.fallback \in SUBSET Models
         /\ c.priced \in SUBSET Priced
         /\ c.cacheOn \in BOOLEAN /\ c.cacheReady \in BOOLEAN /\ c.login \in Login
BY DEF Config

LEMMA JobFields ==
  ASSUME NEW j \in JobType
  PROVE  /\ j.pc \in Stage /\ j.cfg \in Config
         /\ j.issued \in SUBSET (Tokens \X Users)
BY DEF JobType

\* Freshly issued keys map exactly to the users they were issued for.
LEMMA IssueFor ==
  ASSUME NEW users \in SUBSET Users, NEW issued \in Issue(users)
  PROVE  /\ issued \in SUBSET (Tokens \X Users)
         /\ UsersOf(issued) = users
         /\ {k[1] : k \in issued} \subseteq Tokens
<1>1. PICK f \in Injection(users, Tokens \ tokens) :
         issued = {<<f[u], u>> : u \in users}
  BY DEF Issue
<1>2. \A u \in users : f[u] \in Tokens
  BY <1>1 DEF Injection
<1>3. issued \in SUBSET (Tokens \X Users)
  BY <1>1, <1>2
<1>4. ASSUME NEW k \in issued
      PROVE  k[1] \in Tokens /\ k[2] \in users
  <2>1. PICK u \in users : k = <<f[u], u>>
    BY <1>1
  <2> QED
    BY <1>2, <2>1
<1>5. ASSUME NEW u \in users
      PROVE  u \in {k[2] : k \in issued}
  <2>1. <<f[u], u>> \in issued /\ <<f[u], u>>[2] = u
    BY <1>1
  <2> QED
    BY <2>1
<1> QED
  BY <1>3, <1>4, <1>5 DEF UsersOf

\* A step of one writer keeps the other writers' records.
LEMMA BecomeEffect ==
  ASSUME job \in [Writers -> JobType], NEW w \in Writers, NEW j \in JobType,
         Become(w, j)
  PROVE  /\ job' \in [Writers -> JobType]
         /\ job'[w] = j
         /\ \A x \in Writers : x # w => job'[x] = job[x]
BY DEF Become
-----------------------------------------------------------------------------
(* Types, and the lock of each save.                                       *)

\* The variables other than the writers' records, and those.
Types ==
  /\ file \in Config
  /\ running \in BOOLEAN
  /\ mem \in Config /\ accepted \in Config
  /\ mu \in Operators \cup {Nobody}
  /\ command \in Commands \cup {"none"}
  /\ commands \in 0 .. MaxCommands
  /\ tokens \subseteq Tokens
  /\ torn \in {"no", "file", "loaded"}
  /\ shown \subseteq Tokens \X Users
  /\ reset \in Login
  /\ overlap \in BOOLEAN /\ failed \in BOOLEAN
Jobs == job \in [Writers -> JobType]
Locked == \A o \in Operators : Saving(o) <=> mu = o

LEMMA TypeParts == TypeOK <=> Types /\ Jobs /\ Locked
  BY DEF TypeOK, Types, Jobs, Locked, JobType, Saving, SaveSteps

\* What Apply and Rollback put into memory are configurations.
LEMMA SwapType ==
  ASSUME NEW c \in Config, NEW e \in Edits,
         NEW keys \in SUBSET (Tokens \X Users)
  PROVE  [c EXCEPT !.cacheOn = e.cacheOn, !.users = e.users,
                   !.fallback = e.fallback, !.keys = keys] \in Config
<1>1. e.users \in SUBSET Users /\ e.fallback \in SUBSET Models /\ e.cacheOn \in BOOLEAN
  BY LiveConfigAssumption DEF Editable
<1> QED
  BY <1>1 DEF Config

LEMMA RollbackType ==
  ASSUME NEW o \in Writers, mem \in Config, Jobs
  PROVE  /\ Rollback(o) \in Config
         /\ Rollback(o).keys = job[o].cfg.keys
         /\ Rollback(o).users = job[o].cfg.users
<1>1. job[o].cfg \in Config
  BY DEF Jobs, JobType
<1> QED
  BY <1>1 DEF Rollback, Config

\* Only the writer's own record changes, and only its stage.
LEMMA GotoEffect ==
  ASSUME Jobs, NEW w \in Writers, NEW stage \in Stage, Goto(w, stage)
  PROVE  /\ Jobs'
         /\ job'[w].pc = stage
         /\ job'[w].cfg = job[w].cfg /\ job'[w].issued = job[w].issued
         /\ \A x \in Writers : x # w => job'[x] = job[x]
<1> DEFINE next == [job[w] EXCEPT !.pc = stage]
<1>1. /\ next \in JobType /\ next.pc = stage
      /\ next.cfg = job[w].cfg /\ next.issued = job[w].issued
  BY DEF Jobs, JobType
<1>2. Become(w, next)
  BY DEF Goto
<1> HIDE DEF next
<1> QED
  BY <1>1, <1>2, BecomeEffect DEF Jobs

\* The same for the records that the other steps write down.
LEMMA RecordEffect ==
  ASSUME Jobs, NEW w \in Writers, NEW stage \in Stage, NEW c \in Config,
         NEW issued \in SUBSET (Tokens \X Users),
         Become(w, [pc |-> stage, cfg |-> c, issued |-> issued])
  PROVE  /\ Jobs'
         /\ job'[w].pc = stage /\ job'[w].cfg = c /\ job'[w].issued = issued
         /\ \A x \in Writers : x # w => job'[x] = job[x]
<1> DEFINE next == [pc |-> stage, cfg |-> c, issued |-> issued]
<1>1. /\ next \in JobType /\ next.pc = stage
      /\ next.cfg = c /\ next.issued = issued
  BY DEF JobType
<1>2. Become(w, next)
  OBVIOUS
<1> HIDE DEF next
<1> QED
  BY <1>1, <1>2, BecomeEffect DEF Jobs

LEMMA IdleEffect ==
  ASSUME Jobs, NEW w \in Writers, Become(w, Idle)
  PROVE  /\ Jobs'
         /\ job'[w] = Idle
         /\ \A x \in Writers : x # w => job'[x] = job[x]
BY IdleType, BecomeEffect DEF Jobs

LEMMA IdleFields ==
  Idle.pc = "idle" /\ Idle.cfg = NoConfig /\ Idle.issued = {}
BY DEF Idle

LEMMA ApplyEffect ==
  ASSUME Types, Jobs, NEW o \in Operators, NEW e \in Edits, Apply(o, e)
  PROVE  \E issued \in Issue(e.users \ UsersOf(mem.keys)) :
           /\ issued \in SUBSET (Tokens \X Users)
           /\ UsersOf(issued) = e.users \ UsersOf(mem.keys)
           /\ mem' \in Config
           /\ mem'.users = e.users /\ mem'.fallback = e.fallback
           /\ mem'.cacheOn = e.cacheOn
           /\ mem'.keys = mem.keys \cup issued
           /\ mem'.providers = mem.providers /\ mem'.priced = mem.priced
           /\ mem'.login = mem.login /\ mem'.cacheReady = mem.cacheReady
           /\ tokens' \subseteq Tokens
           /\ Jobs'
           /\ job'[o].pc = "open" /\ job'[o].cfg = mem /\ job'[o].issued = issued
           /\ \A x \in Writers : x # o => job'[x] = job[x]
<1>1. PICK issued \in Issue(e.users \ UsersOf(mem.keys)) :
         /\ mem' = [mem EXCEPT !.cacheOn = e.cacheOn, !.users = e.users,
                               !.fallback = e.fallback,
                               !.keys = WithIssued(@, issued)]
         /\ Become(o, [pc |-> "open", cfg |-> mem, issued |-> issued])
         /\ Generated(issued)
  BY DEF Apply
<1>2. e.users \in SUBSET Users
  BY LiveConfigAssumption DEF Editable
<1>3. /\ issued \in SUBSET (Tokens \X Users)
      /\ UsersOf(issued) = e.users \ UsersOf(mem.keys)
      /\ {k[1] : k \in issued} \subseteq Tokens
  BY <1>2, IssueFor
<1>4. mem \in Config /\ mem.keys \cup issued \in SUBSET (Tokens \X Users)
  BY <1>3, ConfigType DEF Types
<1>5. mem' \in Config
  BY <1>1, <1>4, SwapType DEF WithIssued
<1>6. /\ mem'.users = e.users /\ mem'.fallback = e.fallback
      /\ mem'.cacheOn = e.cacheOn /\ mem'.keys = mem.keys \cup issued
      /\ mem'.providers = mem.providers /\ mem'.priced = mem.priced
      /\ mem'.login = mem.login /\ mem'.cacheReady = mem.cacheReady
  BY <1>1, <1>4 DEF WithIssued, Config
<1>7. tokens' \subseteq Tokens
  BY <1>1, <1>3 DEF Generated, Types
<1>8. o \in Writers /\ "open" \in Stage
  BY DEF Writers, Stage
<1>9. /\ Jobs'
      /\ job'[o].pc = "open" /\ job'[o].cfg = mem /\ job'[o].issued = issued
      /\ \A x \in Writers : x # o => job'[x] = job[x]
  BY <1>1, <1>3, <1>4, <1>8, RecordEffect
<1> QED
  BY <1>3, <1>5, <1>6, <1>7, <1>9

\* What init makes of its answers, and the other commands of what they loaded.
FromNothing(c, issued) ==
  /\ command = "init"
  /\ UsersOf(c.keys) = c.users /\ c.keys = issued
  /\ c.providers # {} /\ c.fallback = {} /\ c.priced = {} /\ c.cacheReady
FromTheFile(c, issued) ==
  LET loaded == job[Cli].cfg
  IN  /\ command # "init" /\ At(Cli, "prompt")
      /\ c.keys = loaded.keys /\ c.users = loaded.users /\ issued = {}
      /\ loaded.providers \subseteq c.providers /\ c.fallback = loaded.fallback
      /\ c.priced = loaded.priced /\ c.cacheOn = loaded.cacheOn
      /\ c.cacheReady = loaded.cacheReady
      /\ command = "add-provider" => c.login = loaded.login

\* What a command is going to write, and the keys it has issued.
LEMMA EditsEffect ==
  ASSUME Types, Jobs, InitEdits \/ AddProviderEdits \/ ResetEdits
  PROVE  \E c \in Config, issued \in SUBSET (Tokens \X Users) :
           /\ Edited(c, issued)
           /\ tokens' \subseteq Tokens
           /\ \/ FromNothing(c, issued)
              \/ FromTheFile(c, issued)
<1> Cli \in Writers
  BY DEF Writers
<1>1. NewLogin \in Login /\ 0 \in Login
  BY LiveConfigAssumption DEF NewLogin, Login, Types
<1>2. job[Cli].cfg \in Config
  BY DEF Jobs, JobType
<1>3. CASE InitEdits
  <2>1. PICK a \in Setups, login \in {0, NewLogin} :
          /\ a.providers # {}
          /\ \E issued \in Issue(a.users) :
               Edited([NoConfig EXCEPT !.providers = a.providers, !.users = a.users,
                         !.keys = issued, !.cacheOn = a.cacheOn, !.login = login],
                      issued)
    BY <1>3 DEF InitEdits
  <2>2. PICK issued \in Issue(a.users) :
          Edited([NoConfig EXCEPT !.providers = a.providers, !.users = a.users,
                    !.keys = issued, !.cacheOn = a.cacheOn, !.login = login],
                 issued)
    BY <2>1
  <2>3. /\ a.providers \in SUBSET Providers /\ a.users \in SUBSET Users
        /\ a.cacheOn \in BOOLEAN
    BY LiveConfigAssumption DEF Setup
  <2>4. /\ issued \in SUBSET (Tokens \X Users)
        /\ UsersOf(issued) = a.users
        /\ {k[1] : k \in issued} \subseteq Tokens
    BY <2>3, IssueFor
  <2> DEFINE c == [NoConfig EXCEPT !.providers = a.providers, !.users = a.users,
                     !.keys = issued, !.cacheOn = a.cacheOn, !.login = login]
  <2>5. c \in Config /\ FromNothing(c, issued)
    BY <1>1, <1>3, <2>1, <2>3, <2>4 DEF Config, NoConfig, FromNothing, InitEdits
  <2>6. Edited(c, issued)
    BY <2>2
  <2>7. tokens' \subseteq Tokens
    BY <2>4, <2>6 DEF Edited, Generated, Types
  <2> HIDE DEF c
  <2> QED
    BY <2>4, <2>5, <2>6, <2>7
<1>4. CASE AddProviderEdits
  <2>1. PICK p \in SUBSET (Providers \ job[Cli].cfg.providers) :
          Edited([job[Cli].cfg EXCEPT !.providers = @ \cup p], {})
    BY <1>4 DEF AddProviderEdits
  <2> DEFINE c == [job[Cli].cfg EXCEPT !.providers = @ \cup p]
  <2>2. Edited(c, {})
    BY <2>1
  <2>3. c \in Config /\ FromTheFile(c, {})
    BY <1>2, <1>4, <2>1 DEF Config, FromTheFile, AddProviderEdits, Edited
  <2>4. tokens' \subseteq Tokens
    BY <2>2 DEF Edited, Generated, Types
  <2> HIDE DEF c
  <2> QED
    BY <2>2, <2>3, <2>4
<1>5. CASE ResetEdits
  <2> DEFINE c == [job[Cli].cfg EXCEPT !.login = NewLogin]
  <2>1. Edited(c, {})
    BY <1>5 DEF ResetEdits
  <2>2. c \in Config /\ FromTheFile(c, {})
    BY <1>1, <1>2, <1>5, <2>1 DEF Config, FromTheFile, ResetEdits, Edited
  <2>3. tokens' \subseteq Tokens
    BY <2>1 DEF Edited, Generated, Types
  <2> HIDE DEF c
  <2> QED
    BY <2>1, <2>2, <2>3
<1> QED
  BY <1>3, <1>4, <1>5

LEMMA AppliedEffect ==
  ASSUME Jobs, NEW o \in Writers,
         Become(o, [job[o] EXCEPT !.pc = "answer", !.cfg = NoConfig])
  PROVE  /\ Jobs'
         /\ job'[o].pc = "answer" /\ job'[o].cfg = NoConfig
         /\ job'[o].issued = job[o].issued
         /\ \A x \in Writers : x # o => job'[x] = job[x]
<1> DEFINE next == [job[o] EXCEPT !.pc = "answer", !.cfg = NoConfig]
<1>1. /\ next \in JobType /\ next.pc = "answer" /\ next.cfg = NoConfig
      /\ next.issued = job[o].issued
  BY NoConfigType DEF Jobs, JobType, Stage
<1>2. Become(o, next)
  OBVIOUS
<1> HIDE DEF next
<1> QED
  BY <1>1, <1>2, BecomeEffect DEF Jobs

LEMMA BeginEffect ==
  ASSUME Types, Jobs, NEW name \in Commands, Begin(name)
  PROVE  /\ Jobs'
         /\ job'[Cli].pc = "prompt" /\ job'[Cli].issued = {}
         /\ job'[Cli].cfg = IF name = "init" THEN NoConfig ELSE file
         /\ \A x \in Writers : x # Cli => job'[x] = job[x]
<1> DEFINE c == IF name = "init" THEN NoConfig ELSE file
<1> DEFINE next == [Idle EXCEPT !.pc = "prompt", !.cfg = c]
<1>1. c \in Config
  BY NoConfigType DEF Types
<1> HIDE DEF c
<1>2. next \in JobType /\ next.pc = "prompt" /\ next.cfg = c /\ next.issued = {}
  BY <1>1, IdleType, IdleFields DEF JobType, Stage
<1>3. Become(Cli, next)
  BY DEF Begin, c
<1> HIDE DEF next
<1>4. Cli \in Writers
  BY DEF Writers
<1> QED
  BY <1>1, <1>2, <1>3, <1>4, BecomeEffect DEF Jobs, c

\* No step of an operator's save or of a command confuses the two.
LEMMA Apart == /\ \A o \in Operators : o \in Writers /\ o # Cli /\ o # Nobody
               /\ Cli \in Writers
  BY LiveConfigAssumption DEF Writers

\* A command's step on its own record leaves the operators' alone.
LEMMA CliLeavesLocks ==
  ASSUME Locked, mu' = mu, \A x \in Writers : x # Cli => job'[x] = job[x]
  PROVE  Locked'
BY Apart DEF Locked, Saving

LEMMA TypeNow == Types' /\ Jobs' /\ Locked' => TypeOK'
  BY DEF TypeOK, Types, Jobs, Locked, JobType, Saving, SaveSteps

\* A file that was cut off is a configuration.
LEMMA CutOffType ==
  ASSUME NEW c \in Config, NEW d \in Config
  PROVE  CutOff(c, d) \subseteq Config
<1> DEFINE cache    == [d EXCEPT !.providers = c.providers]
           users    == [cache EXCEPT !.cacheOn = c.cacheOn, !.cacheReady = c.cacheReady]
           keys     == [users EXCEPT !.users = c.users]
           fallback == [keys EXCEPT !.keys = c.keys]
           login    == [fallback EXCEPT !.fallback = c.fallback]
           priced   == [login EXCEPT !.login = c.login]
           names    == {n \in Models : \E m \in c.fallback : n \in Beginnings(m)}
<1>1. /\ c.providers \in SUBSET Providers /\ c.users \in SUBSET Users
      /\ c.keys \in SUBSET (Tokens \X Users) /\ c.fallback \in SUBSET Models
      /\ c.priced \in SUBSET Priced
      /\ c.cacheOn \in BOOLEAN /\ c.cacheReady \in BOOLEAN /\ c.login \in Login
  BY ConfigType
<1>2. \A x \in Config :
        /\ \A v \in SUBSET Providers : [x EXCEPT !.providers = v] \in Config
        /\ \A v \in BOOLEAN, y \in BOOLEAN :
              [x EXCEPT !.cacheOn = v, !.cacheReady = y] \in Config
        /\ \A v \in BOOLEAN : [x EXCEPT !.cacheReady = v] \in Config
        /\ \A v \in SUBSET Users : [x EXCEPT !.users = v] \in Config
        /\ \A v \in SUBSET (Tokens \X Users) : [x EXCEPT !.keys = v] \in Config
        /\ \A v \in SUBSET Models : [x EXCEPT !.fallback = v] \in Config
        /\ \A v \in Login : [x EXCEPT !.login = v] \in Config
        /\ \A v \in SUBSET Priced : [x EXCEPT !.priced = v] \in Config
  BY DEF Config
<1>3. cache \in Config
  BY <1>1, <1>2
<1>4. users \in Config
  BY <1>1, <1>2, <1>3
<1>5. keys \in Config
  BY <1>1, <1>2, <1>4
<1>6. fallback \in Config
  BY <1>1, <1>2, <1>5
<1>7. login \in Config
  BY <1>1, <1>2, <1>6
<1>8. priced \in Config
  BY <1>1, <1>2, <1>7
<1>9. names \subseteq Models
  OBVIOUS
<1>10. 0 \in Login
  BY LiveConfigAssumption DEF Login
<1>11. \A part \in SUBSET c.keys, k \in c.keys, u \in Users :
         (part \ {k}) \cup {<<k[1], u>>} \in SUBSET (Tokens \X Users)
  BY <1>1
<1>12. \A part \in SUBSET c.priced, o \in c.priced :
         (part \ {o}) \cup {<<o[1], Unnamed>>} \in SUBSET Priced
  BY <1>1 DEF Priced
<1> DEFINE A1 == {[d EXCEPT !.providers = part] : part \in SUBSET c.providers}
           A2 == {[cache EXCEPT !.cacheReady = ready] : ready \in BOOLEAN}
                   \cup {[users EXCEPT !.cacheReady = ready] : ready \in BOOLEAN}
           A3 == {[users EXCEPT !.users = part] : part \in SUBSET c.users}
           A4 == {[keys EXCEPT !.keys = part] : part \in SUBSET c.keys}
           A5 == {[keys EXCEPT !.keys = (part \ {k}) \cup {<<k[1], u>>}] :
                   part \in SUBSET c.keys, k \in c.keys, u \in Users}
           A6 == {[fallback EXCEPT !.fallback = part] : part \in SUBSET c.fallback}
           A7 == {[fallback EXCEPT !.fallback = part \cup {n}] :
                   part \in SUBSET c.fallback, n \in names}
           A8 == {[login EXCEPT !.login = 0]}
           A9 == {[priced EXCEPT !.priced = part] : part \in SUBSET c.priced}
           A10 == {[priced EXCEPT !.priced = (part \ {o}) \cup {<<o[1], Unnamed>>}] :
                    part \in SUBSET c.priced, o \in c.priced}
<1>13. CutOff(c, d) =
         A1 \cup A2 \cup A3 \cup A4 \cup A5 \cup A6 \cup A7 \cup A8 \cup A9 \cup A10
  BY DEF CutOff
<1> HIDE DEF cache, users, keys, fallback, login, priced, names
<1>14. \A part \in SUBSET c.fallback, n \in names : part \cup {n} \in SUBSET Models
  BY <1>1, <1>9
<1>15. A1 \subseteq Config
  BY <1>1, <1>2
<1>16. A2 \subseteq Config
  BY <1>2, <1>3, <1>4
<1>17. A3 \subseteq Config /\ A4 \subseteq Config
  BY <1>1, <1>2, <1>4, <1>5
<1>18. A5 \subseteq Config
  <2> SUFFICES ASSUME NEW part \in SUBSET c.keys, NEW k \in c.keys, NEW u \in Users
               PROVE  [keys EXCEPT !.keys = (part \ {k}) \cup {<<k[1], u>>}] \in Config
    OBVIOUS
  <2> QED
    BY <1>2, <1>5, <1>11
<1>19. A6 \subseteq Config
  BY <1>1, <1>2, <1>6
<1>20. A7 \subseteq Config
  <2> SUFFICES ASSUME NEW part \in SUBSET c.fallback, NEW n \in names
               PROVE  [fallback EXCEPT !.fallback = part \cup {n}] \in Config
    OBVIOUS
  <2> QED
    BY <1>2, <1>6, <1>14
<1>21. A8 \subseteq Config /\ A9 \subseteq Config
  BY <1>1, <1>2, <1>7, <1>8, <1>10
<1>22. A10 \subseteq Config
  <2> SUFFICES ASSUME NEW x \in A10 PROVE x \in Config
    OBVIOUS
  <2>0. PICK part \in SUBSET c.priced, o \in c.priced :
          x = [priced EXCEPT !.priced = (part \ {o}) \cup {<<o[1], Unnamed>>}]
    OBVIOUS
  <2> DEFINE left == (part \ {o}) \cup {<<o[1], Unnamed>>}
  <2>1. left \in SUBSET Priced
    BY <1>12
  <2>2. x = [priced EXCEPT !.priced = left]
    BY <2>0
  <2> HIDE DEF left
  <2>3. [priced EXCEPT !.priced = left] \in Config
    BY <1>8, <2>1 DEF Config
  <2> QED
    BY <2>1, <2>2, <2>3
<1> HIDE DEF A1, A2, A3, A4, A5, A6, A7, A8, A9, A10
<1> QED
  BY <1>13, <1>15, <1>16, <1>17, <1>18, <1>19, <1>20, <1>21, <1>22

LEMMA TypeNext ==
  ASSUME TypeOK, [Next]_vars
  PROVE  TypeOK'
<1> USE Apart
<1>0. Types /\ Jobs /\ Locked
  BY TypeParts
<1>1. CASE Start
  <2>1. Types' /\ Jobs'
    BY <1>0, <1>1 DEF Start, Reading, Types, Jobs, cli
  <2>2. Locked'
    BY <1>0, <1>1 DEF Start, Locked, Saving
  <2> QED
    BY <2>1, <2>2, TypeNow
<1>2. CASE Stop
  <2>1. Types' /\ Jobs'
    BY <1>0, <1>2, NoConfigType, IdleType DEF Stop, Types, Jobs, cli, history
  <2>2. Locked'
    BY <1>0, <1>2, IdleFields DEF Stop, Locked, Saving
  <2> QED
    BY <2>1, <2>2, TypeNow
<1>3. ASSUME NEW o \in Operators, NEW e \in Edits, Apply(o, e)
      PROVE  TypeOK'
  <2>1. /\ mem' \in Config /\ tokens' \subseteq Tokens /\ Jobs'
        /\ job'[o].pc = "open"
        /\ \A x \in Writers : x # o => job'[x] = job[x]
    BY <1>0, <1>3, ApplyEffect
  <2>2. mu = Nobody /\ mu' = o /\ UNCHANGED <<file, running, cli, history>>
    BY <1>3 DEF Apply, LockFree
  <2>3. Types'
    BY <1>0, <2>1, <2>2 DEF Types, cli, history
  <2>4. Locked'
    BY <1>0, <2>1, <2>2 DEF Locked, Saving
  <2> QED
    BY <2>1, <2>3, <2>4, TypeNow
<1>4. ASSUME NEW o \in Operators, ApplyFails(o)
      PROVE  TypeOK'
  <2>1. /\ Saving(o) /\ mem' = Rollback(o) /\ mu' = Nobody /\ Become(o, Idle)
        /\ failed' = TRUE
        /\ UNCHANGED <<file, running, cli, tokens, torn, accepted, shown, reset, overlap>>
    BY <1>4 DEF ApplyFails, Saving, SaveSteps
  <2>2. Jobs' /\ job'[o] = Idle /\ \A x \in Writers : x # o => job'[x] = job[x]
    BY <1>0, <2>1, IdleEffect
  <2>3. mem' \in Config
    BY <1>0, <2>1, RollbackType DEF Types
  <2>4. Types'
    BY <1>0, <2>1, <2>3 DEF Types, cli
  <2>5. Locked'
    BY <1>0, <2>1, <2>2, IdleFields DEF Locked, Saving
  <2> QED
    BY <2>2, <2>4, <2>5, TypeNow
<1>5. ASSUME NEW o \in Operators, Applied(o)
      PROVE  TypeOK'
  <2>1. /\ job[o].pc = "restrict" /\ mu' = Nobody /\ accepted' = mem
        /\ Become(o, [job[o] EXCEPT !.pc = "answer", !.cfg = NoConfig])
        /\ UNCHANGED <<file, running, mem, cli, tokens, torn, shown, reset, overlap, failed>>
    BY <1>5 DEF Applied, At
  <2>2. Types'
    BY <1>0, <2>1 DEF Types, cli
  <2>3. /\ Jobs' /\ job'[o].pc = "answer"
        /\ \A x \in Writers : x # o => job'[x] = job[x]
    BY <1>0, <2>1, AppliedEffect
  <2>4. Locked'
    BY <1>0, <2>1, <2>3 DEF Locked, Saving
  <2> QED
    BY <2>2, <2>3, <2>4, TypeNow
<1>6. ASSUME NEW o \in Operators, Respond(o)
      PROVE  TypeOK'
  <2>1. /\ job[o].pc = "answer" /\ Become(o, Idle)
        /\ shown' = shown \cup job[o].issued
        /\ UNCHANGED <<file, server, cli, tokens, torn, accepted, reset, overlap, failed>>
    BY <1>6 DEF Respond, At
  <2>2. job[o].issued \subseteq Tokens \X Users
    BY <1>0 DEF Jobs, JobType
  <2>3. Types'
    BY <1>0, <2>1, <2>2 DEF Types, cli, server
  <2>4. Jobs' /\ job'[o] = Idle /\ \A x \in Writers : x # o => job'[x] = job[x]
    BY <1>0, <2>1, IdleEffect
  <2>5. Locked'
    BY <1>0, <2>1, <2>4, IdleFields DEF Locked, Saving, server
  <2> QED
    BY <2>3, <2>4, <2>5, TypeNow
<1>7. ASSUME NEW w \in Writers, Truncate(w)
      PROVE  TypeOK'
  <2>1. /\ job[w].pc = "open" /\ file' = Broken /\ Goto(w, "write")
        /\ shown' \in {{}, shown} /\ torn' \in {"no", torn}
        /\ UNCHANGED <<server, cli, tokens, accepted, reset, overlap, failed>>
    BY <1>7 DEF Truncate, Rewriting, At
  <2>2. Types'
    BY <1>0, <2>1, NoConfigType DEF Types, cli, server, Broken
  <2>3. Jobs' /\ job'[w].pc = "write" /\ \A x \in Writers : x # w => job'[x] = job[x]
    BY <1>0, <2>1, GotoEffect DEF Stage
  <2>4. Locked'
    BY <1>0, <2>1, <2>3 DEF Locked, Saving, server
  <2> QED
    BY <2>2, <2>3, <2>4, TypeNow
<1>8. ASSUME NEW w \in Writers, Write(w)
      PROVE  TypeOK'
  <2>1. /\ job[w].pc = "write" /\ file' \in {Payload(w), Broken} /\ Goto(w, "restrict")
        /\ reset' \in {reset, 0, job[w].cfg.login} /\ torn' \in {"no", torn}
        /\ UNCHANGED <<server, cli, tokens, accepted, shown, overlap, failed>>
    BY <1>8 DEF Write, Rewriting, At
  <2>2. job[w].cfg \in Config /\ job[w].cfg.login \in Login /\ 0 \in Login
    BY <1>0, LiveConfigAssumption DEF Jobs, JobType, Config, Login
  <2>3. file' \in Config
    BY <1>0, <2>1, <2>2, NoConfigType DEF Payload, Types, Broken
  <2>4. Types'
    BY <1>0, <2>1, <2>2, <2>3 DEF Types, cli, server
  <2>5. /\ Jobs' /\ job'[w].pc = "restrict"
        /\ \A x \in Writers : x # w => job'[x] = job[x]
    BY <1>0, <2>1, GotoEffect DEF Stage
  <2>6. Locked'
    BY <1>0, <2>1, <2>5 DEF Locked, Saving, server
  <2> QED
    BY <2>4, <2>5, <2>6, TypeNow
<1>9. ASSUME NEW name \in Commands, Begin(name)
      PROVE  TypeOK'
  <2>1. /\ commands < MaxCommands /\ command' = name /\ commands' = commands + 1
        /\ overlap' = (overlap \/ running) /\ torn' \in {torn, "loaded"}
        /\ UNCHANGED <<file, server, tokens, accepted, shown, reset, failed>>
    BY <1>9 DEF Begin, Reading
  <2>2. Types'
    BY <1>0, <2>1, LiveConfigAssumption DEF Types, server
  <2>3. Jobs' /\ \A x \in Writers : x # Cli => job'[x] = job[x]
    BY <1>0, <1>9, BeginEffect
  <2>4. Locked'
    BY <1>0, <2>1, <2>3, CliLeavesLocks DEF server
  <2> QED
    BY <2>2, <2>3, <2>4, TypeNow
<1>10. CASE InitEdits \/ AddProviderEdits \/ ResetEdits
  <2>1. PICK c \in Config, issued \in SUBSET (Tokens \X Users) :
          Edited(c, issued) /\ tokens' \subseteq Tokens
    BY <1>0, <1>10, EditsEffect
  <2>2. Types'
    BY <1>0, <2>1 DEF Types, Edited, server, cli, history
  <2>3. Jobs' /\ \A x \in Writers : x # Cli => job'[x] = job[x]
    BY <1>0, <2>1, RecordEffect DEF Edited, Stage
  <2>4. Locked'
    BY <1>0, <2>1, <2>3, CliLeavesLocks DEF Edited, server
  <2> QED
    BY <2>2, <2>3, <2>4, TypeNow
<1>11. CASE CommandEnds
  <2>1. /\ command' = "none" /\ Become(Cli, Idle)
        /\ shown' \in {shown, shown \cup job[Cli].issued}
        /\ UNCHANGED <<file, server, commands, tokens, torn, accepted, reset, overlap, failed>>
    BY <1>11 DEF CommandEnds
  <2>2. job[Cli].issued \subseteq Tokens \X Users
    BY <1>0 DEF Jobs, JobType
  <2>3. Types'
    BY <1>0, <2>1, <2>2 DEF Types, server
  <2>4. Jobs' /\ \A x \in Writers : x # Cli => job'[x] = job[x]
    BY <1>0, <2>1, IdleEffect
  <2>5. Locked'
    BY <1>0, <2>1, <2>4, CliLeavesLocks DEF server
  <2> QED
    BY <2>3, <2>4, <2>5, TypeNow
<1>12. CASE UNCHANGED vars
  <2>1. Types' /\ Jobs' /\ Locked'
    BY <1>0, <1>12 DEF vars, server, cli, history, Types, Jobs, Locked, Saving
  <2> QED
    BY <2>1, TypeNow
<1>13. ASSUME NEW w \in Writers, CutShort(w)
       PROVE  TypeOK'
  <2>1. /\ job[w].pc = "write" /\ file' \in CutOff(Payload(w), file) /\ Goto(w, "cut")
        /\ torn' \in {"file", torn}
        /\ UNCHANGED <<server, cli, tokens, accepted, shown, reset, overlap, failed>>
    BY <1>13 DEF CutShort, At
  <2>2. Payload(w) \in Config /\ file \in Config
    BY <1>0 DEF Payload, Types, Jobs, JobType
  <2>3. file' \in Config
    BY <2>1, <2>2, CutOffType
  <2>4. Types'
    BY <1>0, <2>1, <2>3 DEF Types, cli, server
  <2>5. /\ Jobs' /\ job'[w].pc = "cut"
        /\ \A x \in Writers : x # w => job'[x] = job[x]
    BY <1>0, <2>1, GotoEffect DEF Stage
  <2>6. Locked'
    BY <1>0, <2>1, <2>5 DEF Locked, Saving, server
  <2> QED
    BY <2>4, <2>5, <2>6, TypeNow
<1> QED
  BY <1>1, <1>2, <1>3, <1>4, <1>5, <1>6, <1>7, <1>8, <1>9, <1>10, <1>11, <1>12, <1>13
  DEF Next

LEMMA TypeInit == Init => TypeOK
<1> SUFFICES ASSUME Init PROVE TypeOK
  OBVIOUS
<1>1. 0 \in Login /\ 0 \in 0 .. MaxCommands
  BY LiveConfigAssumption DEF Login
<1>2. HandWritten \subseteq Config
  BY LiveConfigAssumption
<1>3. file \in Config
  BY <1>2, NoConfigType DEF Init, Broken
<1>4. tokens \subseteq Tokens
  <2> SUFFICES ASSUME NEW h \in HandWritten, NEW k \in h.keys PROVE k[1] \in Tokens
    BY DEF Init
  <2>1. h.keys \in SUBSET (Tokens \X Users)
    BY <1>2, ConfigType
  <2> QED
    BY <2>1
<1>5. Types
  BY <1>1, <1>3, <1>4, NoConfigType DEF Init, Types
<1>6. Jobs
  BY IdleType DEF Init, Jobs
<1>7. Locked
  BY Apart, IdleFields DEF Init, Locked, Saving
<1> QED
  BY <1>5, <1>6, <1>7, TypeParts

\* Every variable keeps its type, and a save holds Settings.mu from its swap
\* to its end, for any number of operators and commands.
THEOREM TypeCorrect == Spec => []TypeOK
<1> QED
  BY TypeInit, TypeNext, PTL DEF Spec
-----------------------------------------------------------------------------
(* Keys and their budgets.                                                 *)

\* The keys without a budget that the files by hand have, and a configuration
\* that has no others.
Found == UNION {Unbudgeted(h) : h \in HandWritten}
Budgeted(c) == Unbudgeted(c) \subseteq Found

\* What is in force and what is yet to be written or put back, and, unless it was
\* cut off, what is in the file.
BudgetInv ==
  /\ torn # "loaded" => Budgeted(mem) /\ \A w \in Writers : Budgeted(job[w].cfg)
  /\ torn = "no" => Budgeted(file)

LEMMA NoConfigBudgeted == Budgeted(NoConfig) /\ Budgeted(Idle.cfg)
  BY DEF Budgeted, Unbudgeted, NoConfig, Idle

\* If each user of a key has an entry; if keys and entries are another's.
LEMMA AllBudgeted ==
  ASSUME NEW c, UsersOf(c.keys) \subseteq c.users
  PROVE  Budgeted(c)
BY DEF Budgeted, Unbudgeted, UsersOf

LEMMA SameBudgeted ==
  ASSUME NEW c, NEW d, Budgeted(d), c.keys = d.keys, c.users = d.users
  PROVE  Budgeted(c)
BY DEF Budgeted, Unbudgeted

LEMMA BudgetNext ==
  ASSUME TypeOK, BudgetInv, [Next]_vars
  PROVE  BudgetInv'
<1> USE Apart
<1>0. Types /\ Jobs
  BY TypeParts
<1>1. CASE Start
  <2>1. /\ mem' = file /\ file' = file /\ job' = job
        /\ torn' = IF torn = "file" THEN "loaded" ELSE torn
    BY <1>1 DEF Start, Reading
  <2>2. torn' # "loaded" => torn = "no"
    BY <1>0, <2>1 DEF Types
  <2>3. torn' = "no" => torn = "no"
    BY <2>1
  <2> QED
    BY <2>1, <2>2, <2>3 DEF BudgetInv, Budgeted
<1>2. CASE Stop
  <2>1. /\ mem' = NoConfig /\ file' = file /\ torn' = torn
        /\ \A w \in Writers : job'[w] \in {job[w], Idle}
    BY <1>2 DEF Stop, history
  <2> QED
    BY <2>1, NoConfigBudgeted DEF BudgetInv, Budgeted
<1>3. ASSUME NEW o \in Operators, NEW e \in Edits, Apply(o, e)
      PROVE  BudgetInv'
  <2>1. PICK issued \in Issue(e.users \ UsersOf(mem.keys)) :
          /\ UsersOf(issued) = e.users \ UsersOf(mem.keys)
          /\ mem'.users = e.users /\ mem'.keys = mem.keys \cup issued
          /\ job'[o].cfg = mem
          /\ \A x \in Writers : x # o => job'[x] = job[x]
    BY <1>0, <1>3, ApplyEffect
  <2>2. UsersOf(mem.keys) \subseteq e.users /\ file' = file /\ torn' = torn
    BY <1>3 DEF Apply, Acceptable, KeysStillBudgeted, history
  <2>3. UsersOf(mem.keys \cup issued) = UsersOf(mem.keys) \cup UsersOf(issued)
    BY DEF UsersOf
  <2>4. UsersOf(mem'.keys) \subseteq mem'.users
    BY <2>1, <2>2, <2>3
  <2>5. Budgeted(mem')
    BY <2>4, AllBudgeted
  <2> QED
    BY <2>1, <2>2, <2>5 DEF BudgetInv, Budgeted
<1>4. ASSUME NEW o \in Operators, ApplyFails(o)
      PROVE  BudgetInv'
  <2>1. mem' = Rollback(o) /\ Become(o, Idle) /\ file' = file /\ torn' = torn
    BY <1>4 DEF ApplyFails
  <2>2. job'[o] = Idle /\ \A x \in Writers : x # o => job'[x] = job[x]
    BY <1>0, <2>1, IdleEffect
  <2>3. mem'.keys = job[o].cfg.keys /\ mem'.users = job[o].cfg.users
    BY <1>0, <2>1, RollbackType DEF Types
  <2>4. Budgeted(job[o].cfg) => Budgeted(mem')
    BY <2>3, SameBudgeted
  <2> QED
    BY <2>1, <2>2, <2>4, NoConfigBudgeted DEF BudgetInv, Budgeted
<1>5. ASSUME NEW o \in Operators, Applied(o)
      PROVE  BudgetInv'
  <2>1. /\ mem' = mem /\ file' = file /\ torn' = torn
        /\ Become(o, [job[o] EXCEPT !.pc = "answer", !.cfg = NoConfig])
    BY <1>5 DEF Applied
  <2>2. job'[o].cfg = NoConfig /\ \A x \in Writers : x # o => job'[x] = job[x]
    BY <1>0, <2>1, AppliedEffect
  <2> QED
    BY <2>1, <2>2, NoConfigBudgeted DEF BudgetInv, Budgeted
<1>6. ASSUME NEW w \in Writers, Become(w, Idle), mem' = mem, file' = file, torn' = torn
      PROVE  BudgetInv'
  <2>1. job'[w] = Idle /\ \A x \in Writers : x # w => job'[x] = job[x]
    BY <1>0, <1>6, IdleEffect
  <2> QED
    BY <1>6, <2>1, NoConfigBudgeted DEF BudgetInv, Budgeted
<1>7. ASSUME NEW w \in Writers, NEW stage \in {"write", "cut", "restrict"},
             Goto(w, stage), mem' = mem, torn' = "loaded" => torn = "loaded",
             torn' # "loaded" => torn # "loaded",
             torn' = "no" => file' \in {NoConfig, job[w].cfg, mem}
      PROVE  BudgetInv'
  <2>1. /\ job'[w].cfg = job[w].cfg
        /\ \A x \in Writers : x # w => job'[x] = job[x]
    BY <1>0, <1>7, GotoEffect DEF Stage
  <2>2. torn' # "loaded" => Budgeted(mem) /\ \A x \in Writers : Budgeted(job[x].cfg)
    BY <1>7 DEF BudgetInv
  <2>3. torn' = "no" => Budgeted(file')
    BY <1>7, <2>2, NoConfigBudgeted
  <2> QED
    BY <1>7, <2>1, <2>2, <2>3 DEF BudgetInv, Budgeted
<1>8. ASSUME NEW w \in Writers, Truncate(w) \/ Write(w) \/ CutShort(w)
      PROVE  BudgetInv'
  <2>1. /\ mem' = mem /\ \E stage \in {"write", "cut", "restrict"} : Goto(w, stage)
        /\ torn' = "no" => file' \in {NoConfig, job[w].cfg, mem}
    BY <1>8 DEF Truncate, Write, CutShort, Payload, Broken, server
  <2>2. torn' = "loaded" <=> torn = "loaded"
    BY <1>8 DEF Truncate, Write, CutShort, Rewriting
  <2> QED
    BY <1>7, <2>1, <2>2
<1>9. ASSUME NEW name \in Commands, Begin(name)
      PROVE  BudgetInv'
  <2>1. /\ job'[Cli].cfg = IF name = "init" THEN NoConfig ELSE file
        /\ \A x \in Writers : x # Cli => job'[x] = job[x]
    BY <1>0, <1>9, BeginEffect
  <2>2. /\ mem' = mem /\ file' = file
        /\ name = "init" => torn' = torn
        /\ name # "init" => torn' = IF torn = "file" THEN "loaded" ELSE torn
    BY <1>9 DEF Begin, Reading, server
  <2>3. torn' # "loaded" => torn # "loaded" /\ Budgeted(job'[Cli].cfg)
    BY <1>0, <2>1, <2>2, NoConfigBudgeted DEF BudgetInv, Types
  <2>4. torn' = "no" => torn = "no"
    BY <2>2
  <2> QED
    BY <2>1, <2>2, <2>3, <2>4 DEF BudgetInv, Budgeted
<1>10. CASE InitEdits \/ AddProviderEdits \/ ResetEdits
  <2>1. PICK c \in Config, issued \in SUBSET (Tokens \X Users) :
          Edited(c, issued) /\ (FromNothing(c, issued) \/ FromTheFile(c, issued))
    BY <1>0, <1>10, EditsEffect
  <2>2. job'[Cli].cfg = c /\ \A x \in Writers : x # Cli => job'[x] = job[x]
    BY <1>0, <2>1, RecordEffect DEF Edited, Stage
  <2>3. mem' = mem /\ file' = file /\ torn' = torn
    BY <2>1 DEF Edited, server, history
  <2>4. Budgeted(job[Cli].cfg) => Budgeted(c)
    <3>1. CASE FromNothing(c, issued)
      BY <3>1, AllBudgeted DEF FromNothing
    <3>2. CASE FromTheFile(c, issued)
      BY <3>2, SameBudgeted DEF FromTheFile
    <3> QED
      BY <2>1, <3>1, <3>2
  <2> QED
    BY <2>2, <2>3, <2>4 DEF BudgetInv, Budgeted
<1>11. CASE UNCHANGED vars
  BY <1>11 DEF vars, server, history, BudgetInv, Budgeted
<1>12. \A o \in Operators : Respond(o) => BudgetInv'
  BY <1>6 DEF Respond, server
<1>13. CommandEnds => BudgetInv'
  BY <1>6 DEF CommandEnds, server
<1> QED
  BY <1>1, <1>2, <1>3, <1>4, <1>5, <1>8, <1>9, <1>10, <1>11, <1>12, <1>13
  DEF Next

LEMMA BudgetInit == Init => BudgetInv
<1> SUFFICES ASSUME Init PROVE BudgetInv
  OBVIOUS
<1>1. file \in HandWritten => Budgeted(file)
  BY DEF Budgeted, Found
<1>2. Budgeted(file)
  BY <1>1, NoConfigBudgeted DEF Init, Broken
<1> QED
  BY <1>2, NoConfigBudgeted DEF Init, BudgetInv

\* Whoever writes the file and wherever a save fails or dies, no program takes
\* the budget from a key that had one: a key without, in memory or in the file,
\* is one that some file by hand had so, as long as no program has started from
\* a file that was cut off.  What checkKeysStillBudgeted demands of one save
\* holds for all of them together.
THEOREM KeysAlwaysBudgeted == Spec => []KeysBudgeted
<1>1. BudgetInv => KeysBudgeted
  BY DEF BudgetInv, Budgeted, Found, KeysBudgeted
<1> QED
  BY <1>1, BudgetInit, BudgetNext, TypeCorrect, PTL DEF Spec
-----------------------------------------------------------------------------
(* Failed saves, and the answers of the others.                            *)

\* A save keeps the accepted configuration to go back to, and changes only
\* the four fields that rollback restores.
SaveInv ==
  /\ ~running => \A o \in Operators : job[o].pc = "idle"
  /\ running /\ mu = Nobody => mem = accepted
  /\ \A o \in Operators : mu = o =>
        /\ job[o].cfg = accepted
        /\ mem.providers = accepted.providers /\ mem.priced = accepted.priced
        /\ mem.login = accepted.login /\ mem.cacheReady = accepted.cacheReady

\* A configuration has keys, and entries for their users.
Shows(c, keys) == keys \subseteq c.keys /\ UsersOf(keys) \subseteq c.users

\* The keys of a save are in memory from its swap on, with their users, and once
\* it is about to answer no other save's rollback removes them.
IssuedInv ==
  \A o \in Operators :
    /\ Saving(o) \/ job[o].pc = "answer" => Shows(mem, job[o].issued)
    /\ job[o].pc = "answer" => Shows(accepted, job[o].issued)

\* Configurations that have the same in each field are one.
Same(c, d) ==
  /\ c.providers = d.providers /\ c.users = d.users /\ c.keys = d.keys
  /\ c.fallback = d.fallback /\ c.priced = d.priced /\ c.cacheOn = d.cacheOn
  /\ c.cacheReady = d.cacheReady /\ c.login = d.login

LEMMA SameFields ==
  ASSUME NEW c \in Config, NEW d \in Config, Same(c, d)
  PROVE  c = d
BY DEF Config, Same

\* Rollback is exact.
LEMMA RollbackExact ==
  ASSUME Types, Jobs, SaveInv, NEW o \in Operators, mu = o
  PROVE  Rollback(o) = accepted
<1>1. mem \in Config /\ accepted \in Config
  BY DEF Types
<1>2. /\ job[o].cfg = accepted
      /\ mem.providers = accepted.providers /\ mem.priced = accepted.priced
      /\ mem.login = accepted.login /\ mem.cacheReady = accepted.cacheReady
  BY DEF SaveInv
<1> DEFINE back == [mem EXCEPT !.cacheOn = accepted.cacheOn, !.users = accepted.users,
                               !.fallback = accepted.fallback, !.keys = accepted.keys]
<1>3. Rollback(o) = back
  BY <1>2 DEF Rollback
<1>4. back \in Config
  BY <1>1 DEF Config
<1>5. Same(back, accepted)
  BY <1>1, <1>2 DEF Config, Same
<1> HIDE DEF back
<1> QED
  BY <1>1, <1>3, <1>4, <1>5, SameFields

LEMMA SaveNext ==
  ASSUME TypeOK, SaveInv, IssuedInv, [Next]_vars
  PROVE  SaveInv' /\ IssuedInv'
<1> USE Apart
<1>0. Types /\ Jobs /\ Locked
  BY TypeParts
<1>1. CASE Start
  <2>1. /\ ~running /\ running' = TRUE /\ mem' = file /\ accepted' = file
        /\ mu' = mu /\ job' = job
    BY <1>1 DEF Start
  <2>2. \A o \in Operators : job[o].pc = "idle" /\ mu # o
    BY <1>0, <2>1 DEF SaveInv, Locked, Saving
  <2> QED
    BY <2>1, <2>2 DEF SaveInv, IssuedInv, Shows, Saving
<1>2. CASE Stop
  <2>1. /\ running' = FALSE /\ mu' = Nobody
        /\ \A o \in Operators : job'[o] = Idle
    BY <1>2 DEF Stop
  <2> QED
    BY <2>1, IdleFields DEF SaveInv, IssuedInv, Shows, Saving
<1>3. ASSUME NEW o \in Operators, NEW e \in Edits, Apply(o, e)
      PROVE  SaveInv' /\ IssuedInv'
  <2>1. PICK issued \in Issue(e.users \ UsersOf(mem.keys)) :
          /\ UsersOf(issued) = e.users \ UsersOf(mem.keys)
          /\ mem'.keys = mem.keys \cup issued /\ mem'.users = e.users
          /\ mem'.providers = mem.providers /\ mem'.priced = mem.priced
          /\ mem'.login = mem.login /\ mem'.cacheReady = mem.cacheReady
          /\ job'[o].pc = "open" /\ job'[o].cfg = mem /\ job'[o].issued = issued
          /\ \A x \in Writers : x # o => job'[x] = job[x]
    BY <1>0, <1>3, ApplyEffect
  <2>2. running /\ mu = Nobody /\ mu' = o /\ running' = running /\ accepted' = accepted
    BY <1>3 DEF Apply, LockFree, history
  <2>3. mem = accepted
    BY <2>2 DEF SaveInv
  <2>4. UsersOf(mem.keys) \subseteq e.users
    BY <1>3 DEF Apply, Acceptable, KeysStillBudgeted
  <2>5. \A x \in Operators : Shows(mem, job[x].issued) => Shows(mem', job[x].issued)
    BY <2>1, <2>4 DEF Shows, UsersOf
  <2>6. Shows(mem', issued)
    BY <2>1 DEF Shows
  <2>7. /\ \A x \in Operators : x # o =>
             job'[x] = job[x] /\ (job[x].pc = "answer" \/ Saving(x) => Shows(mem', job[x].issued))
        /\ Saving(o)' /\ job'[o].issued = issued
    BY <2>1, <2>5 DEF IssuedInv, Saving
  <2>8. IssuedInv'
    BY <2>1, <2>2, <2>6, <2>7 DEF IssuedInv, Saving, Shows
  <2> QED
    BY <2>1, <2>2, <2>3, <2>8 DEF SaveInv
<1>4. ASSUME NEW o \in Operators, ApplyFails(o)
      PROVE  SaveInv' /\ IssuedInv'
  <2>1. /\ Saving(o) /\ mem' = Rollback(o) /\ mu' = Nobody /\ Become(o, Idle)
        /\ running' = running /\ accepted' = accepted
    BY <1>4 DEF ApplyFails, Saving, SaveSteps
  <2>2. job'[o] = Idle /\ \A x \in Writers : x # o => job'[x] = job[x]
    BY <1>0, <2>1, IdleEffect
  <2>3. mu = o /\ \A x \in Operators : x # o => ~Saving(x)
    BY <1>0, <2>1 DEF Locked
  <2>4. mem' = accepted
    BY <1>0, <2>1, <2>3, RollbackExact
  <2>5. running
    BY <2>1 DEF SaveInv, Saving
  <2> QED
    BY <2>1, <2>2, <2>3, <2>4, <2>5, IdleFields DEF SaveInv, IssuedInv, Shows, Saving
<1>5. ASSUME NEW o \in Operators, Applied(o)
      PROVE  SaveInv' /\ IssuedInv'
  <2>1. /\ job[o].pc = "restrict" /\ mu' = Nobody /\ accepted' = mem
        /\ Become(o, [job[o] EXCEPT !.pc = "answer", !.cfg = NoConfig])
        /\ mem' = mem /\ running' = running
    BY <1>5 DEF Applied, At
  <2>2. /\ job'[o].pc = "answer" /\ job'[o].issued = job[o].issued
        /\ \A x \in Writers : x # o => job'[x] = job[x]
    BY <1>0, <2>1, AppliedEffect
  <2>3. Saving(o) /\ \A x \in Operators : x # o => ~Saving(x)
    BY <1>0, <2>1 DEF Locked, Saving
  <2>4. running
    BY <2>1 DEF SaveInv
  <2> QED
    BY <2>1, <2>2, <2>3, <2>4 DEF SaveInv, IssuedInv, Shows, Saving
<1>6. ASSUME NEW o \in Operators, Respond(o)
      PROVE  SaveInv' /\ IssuedInv'
  <2>1. /\ job[o].pc = "answer" /\ Become(o, Idle)
        /\ mem' = mem /\ mu' = mu /\ running' = running /\ accepted' = accepted
    BY <1>6 DEF Respond, At, server
  <2>2. job'[o] = Idle /\ \A x \in Writers : x # o => job'[x] = job[x]
    BY <1>0, <2>1, IdleEffect
  <2>3. mu # o
    BY <1>0, <2>1 DEF Locked, Saving
  <2> QED
    BY <2>1, <2>2, <2>3, IdleFields DEF SaveInv, IssuedInv, Shows, Saving
<1>7. ASSUME NEW w \in Writers, NEW from \in {"open", "write"},
             NEW stage \in {"write", "cut", "restrict"},
             job[w].pc = from, Goto(w, stage), UNCHANGED <<server, accepted>>
      PROVE  SaveInv' /\ IssuedInv'
  <2>1. /\ job'[w].pc = stage
        /\ job'[w].cfg = job[w].cfg /\ job'[w].issued = job[w].issued
        /\ \A x \in Writers : x # w => job'[x] = job[x]
    BY <1>0, <1>7, GotoEffect DEF Stage
  <2> QED
    BY <1>7, <2>1 DEF SaveInv, IssuedInv, Shows, Saving, server
<1>8. ASSUME UNCHANGED <<server, accepted>>,
             \A x \in Writers : x # Cli => job'[x] = job[x]
      PROVE  SaveInv' /\ IssuedInv'
  BY <1>8 DEF SaveInv, IssuedInv, Shows, Saving, server
<1>9. \A w \in Writers : Truncate(w) => SaveInv' /\ IssuedInv'
  BY <1>7 DEF Truncate, At
<1>10. \A w \in Writers : Write(w) \/ CutShort(w) => SaveInv' /\ IssuedInv'
  BY <1>7 DEF Write, CutShort, At
<1>11. ASSUME NEW name \in Commands, Begin(name)
       PROVE  SaveInv' /\ IssuedInv'
  BY <1>0, <1>8, <1>11, BeginEffect DEF Begin
<1>12. CASE InitEdits \/ AddProviderEdits \/ ResetEdits
  <2>1. PICK c \in Config, issued \in SUBSET (Tokens \X Users) : Edited(c, issued)
    BY <1>0, <1>12, EditsEffect
  <2>2. \A x \in Writers : x # Cli => job'[x] = job[x]
    BY <1>0, <2>1, RecordEffect DEF Edited, Stage
  <2> QED
    BY <1>8, <2>1, <2>2 DEF Edited, history
<1>13. CASE CommandEnds
  <2>1. Become(Cli, Idle) /\ UNCHANGED <<server, accepted>>
    BY <1>13 DEF CommandEnds
  <2>2. \A x \in Writers : x # Cli => job'[x] = job[x]
    BY <1>0, <2>1, IdleEffect
  <2> QED
    BY <1>8, <2>1, <2>2
<1>14. CASE UNCHANGED vars
  BY <1>14 DEF vars, server, history, SaveInv, IssuedInv, Shows, Saving
<1> QED
  BY <1>1, <1>2, <1>3, <1>4, <1>5, <1>6, <1>9, <1>10, <1>11, <1>12, <1>13, <1>14
  DEF Next

LEMMA SaveInit == Init => SaveInv /\ IssuedInv
  BY Apart, IdleFields DEF Init, SaveInv, IssuedInv, Saving

\* Wherever a save fails, what it swapped in is gone from memory entirely:
\* with no save under way, memory is what was last loaded or saved.
THEOREM FailedSavesUndone == Spec => []FailedSaveLeavesNoTrace
<1>1. SaveInv => FailedSaveLeavesNoTrace
  BY DEF SaveInv, FailedSaveLeavesNoTrace, LockFree
<1> QED
  BY <1>1, SaveInit, SaveNext, TypeCorrect, PTL DEF Spec

\* The snapshot of an answer, taken after the lock was let go and perhaps
\* after other operators' saves, has the users whose keys the answer shows.
THEOREM AnswersShowIssuedUsers == Spec => []AnswerShowsIssuedUsers
<1>1. IssuedInv => AnswerShowsIssuedUsers
  BY DEF IssuedInv, Shows, AnswerShowsIssuedUsers, At
<1> QED
  BY <1>1, SaveInit, SaveNext, TypeCorrect, PTL DEF Spec
-----------------------------------------------------------------------------
(* What survives a restart.                                                *)

\* A command that is over has left no record, and what one is going to write
\* has the keys that it issued.
CommandInv ==
  /\ command = "none" => job[Cli].pc = "idle"
  /\ Saving(Cli) => job[Cli].issued \subseteq job[Cli].cfg.keys

LEMMA CommandInit == Init => CommandInv
  BY Apart, IdleFields DEF Init, CommandInv, Saving

LEMMA CommandNext ==
  ASSUME TypeOK, CommandInv, [Next]_vars
  PROVE  CommandInv'
<1> USE Apart
<1>0. Types /\ Jobs
  BY TypeParts
<1>1. ASSUME command' = command, job'[Cli] = job[Cli]
      PROVE  CommandInv'
  BY <1>1 DEF CommandInv, Saving
<1>2. CASE Start \/ Stop
  BY <1>1, <1>2 DEF Start, Stop, cli
<1>3. ASSUME NEW o \in Operators, NEW e \in Edits, Apply(o, e)
      PROVE  CommandInv'
  <2>1. job'[Cli] = job[Cli]
    BY <1>0, <1>3, ApplyEffect
  <2> QED
    BY <1>1, <1>3, <2>1 DEF Apply, cli
<1>4. ASSUME NEW o \in Operators, Become(o, Idle), command' = command
      PROVE  CommandInv'
  BY <1>0, <1>1, <1>4, IdleEffect
<1>5. ASSUME NEW o \in Operators, Applied(o)
      PROVE  CommandInv'
  BY <1>0, <1>1, <1>5, AppliedEffect DEF Applied, cli
<1>6. ASSUME NEW w \in Writers, NEW from \in {"open", "write"},
             NEW stage \in {"write", "cut", "restrict"},
             job[w].pc = from, Goto(w, stage), UNCHANGED cli
      PROVE  CommandInv'
  <2>1. /\ job'[w].pc = stage
        /\ job'[w].cfg = job[w].cfg /\ job'[w].issued = job[w].issued
        /\ \A x \in Writers : x # w => job'[x] = job[x]
    BY <1>0, <1>6, GotoEffect DEF Stage
  <2> QED
    BY <1>6, <2>1 DEF CommandInv, Saving, cli
<1>7. \A w \in Writers : Truncate(w) \/ Write(w) \/ CutShort(w) => CommandInv'
  BY <1>6 DEF Truncate, Write, CutShort, At
<1>8. ASSUME NEW name \in Commands, Begin(name)
      PROVE  CommandInv'
  <2>1. job'[Cli].pc = "prompt" /\ command' = name /\ name # "none"
    BY <1>0, <1>8, BeginEffect, LiveConfigAssumption DEF Begin
  <2> QED
    BY <2>1 DEF CommandInv, Saving
<1>9. CASE InitEdits \/ AddProviderEdits \/ ResetEdits
  <2>1. PICK c \in Config, issued \in SUBSET (Tokens \X Users) :
          Edited(c, issued) /\ (FromNothing(c, issued) \/ FromTheFile(c, issued))
    BY <1>0, <1>9, EditsEffect
  <2>2. job'[Cli].pc = "open" /\ job'[Cli].cfg = c /\ job'[Cli].issued = issued
    BY <1>0, <2>1, RecordEffect DEF Edited, Stage
  <2>3. command # "none" /\ command' = command
    BY <2>1 DEF Edited, CommandInv, At, cli
  <2> QED
    BY <2>1, <2>2, <2>3 DEF CommandInv, FromNothing, FromTheFile
<1>10. CASE CommandEnds
  <2>1. job'[Cli] = Idle
    BY <1>0, <1>10, IdleEffect DEF CommandEnds
  <2> QED
    BY <2>1, IdleFields DEF CommandInv, Saving
<1>11. CASE UNCHANGED vars
  BY <1>1, <1>11 DEF vars, cli
<1>12. \A o \in Operators : ApplyFails(o) \/ Respond(o) => CommandInv'
  BY <1>4 DEF ApplyFails, Respond, cli
<1> QED
  BY <1>2, <1>3, <1>5, <1>7, <1>8, <1>9, <1>10, <1>11, <1>12 DEF Next

\* A command beside a server is an overlap.
AloneInv == running /\ ~overlap => command = "none"

LEMMA AloneInit == Init => AloneInv
  BY DEF Init, AloneInv

LEMMA AloneNext ==
  ASSUME TypeOK, CommandInv, AloneInv, [Next]_vars
  PROVE  AloneInv'
<1> USE Apart
<1>1. CASE Start
  BY <1>1, TypeParts DEF Start, cli, AloneInv, Types
<1>2. CASE Stop
  BY <1>2 DEF Stop, AloneInv
<1>3. ASSUME NEW name \in Commands, Begin(name)
      PROVE  AloneInv'
  BY <1>3, TypeParts DEF Begin, server, AloneInv, Types
<1>4. CASE CommandEnds
  BY <1>4 DEF CommandEnds, AloneInv
<1>5. ASSUME UNCHANGED <<running, overlap, command>>
      PROVE  AloneInv'
  BY <1>5 DEF AloneInv
<1>6. \A o \in Operators, e \in Edits : Apply(o, e) => UNCHANGED <<running, overlap, command>>
  BY DEF Apply, cli, history
<1>7. \A o \in Operators : ApplyFails(o) \/ Applied(o) \/ Respond(o) =>
        UNCHANGED <<running, overlap, command>>
  BY DEF ApplyFails, Applied, Respond, server, cli
<1>8. \A w \in Writers : Truncate(w) \/ Write(w) \/ CutShort(w) =>
        UNCHANGED <<running, overlap, command>>
  BY DEF Truncate, Write, CutShort, server, cli
<1>9. InitEdits \/ AddProviderEdits \/ ResetEdits => UNCHANGED <<running, overlap, command>>
  BY DEF InitEdits, AddProviderEdits, ResetEdits, Edited, server, cli, history
<1>10. UNCHANGED vars => UNCHANGED <<running, overlap, command>>
  BY DEF vars, server, cli, history
<1> QED
  BY <1>1, <1>2, <1>3, <1>4, <1>5, <1>6, <1>7, <1>8, <1>9, <1>10 DEF Next

\* A configuration with every key that was shown, and the login of the last
\* reset.
Keeps(c) == shown \subseteq c.keys /\ (reset # 0 => c.login = reset)

\* While the programs have not overlapped, and none has started from a file that
\* was cut off: memory keeps them, so does the file unless it is broken or cut
\* off, and so does what a command is about to write, except
\* for init, which has broken the file and thereby given up what was shown.
\* What has been written has the keys that are about to be shown.
MemoryKeeps == running => Keeps(mem) /\ Keeps(accepted)
FileKeeps == torn = "no" /\ file # Broken => Keeps(file)
CommandKeeps ==
  /\ command # "init" /\ job[Cli].pc # "idle" =>
       /\ shown \subseteq job[Cli].cfg.keys
       /\ reset # 0 /\ (command = "add-provider" \/ At(Cli, "prompt")) =>
            job[Cli].cfg.login = reset
  /\ command = "init" /\ job[Cli].pc \in {"write", "restrict"} => shown = {}
WrittenHasIssued ==
  \A w \in Writers :
    torn = "no" /\ job[w].pc \in {"restrict", "answer"} /\ file # Broken =>
      job[w].issued \subseteq file.keys
SurviveInv ==
  ~overlap /\ torn # "loaded" => MemoryKeeps /\ FileKeeps /\ CommandKeeps /\ WrittenHasIssued

LEMMA SurviveInit == Init => SurviveInv
  BY Apart, IdleFields DEF Init, SurviveInv, MemoryKeeps, FileKeeps, CommandKeeps,
     WrittenHasIssued, Keeps

\* An operator's step, while the server runs: no command has a record.
LEMMA AloneWhileRunning ==
  ASSUME TypeOK, SaveInv, CommandInv, AloneInv, ~overlap, NEW o \in Operators
  PROVE  /\ job[o].pc # "idle" => running
         /\ running => command = "none" /\ job[Cli].pc = "idle"
BY DEF SaveInv, CommandInv, AloneInv

\* Only a file that is not broken can be loaded.
LEMMA BrokenDoesNotLoad == \A c : Loads(c) => c # Broken
  BY DEF Loads, Broken, NoConfig

LEMMA SurviveNext ==
  ASSUME TypeOK, SaveInv, IssuedInv, CommandInv, AloneInv, SurviveInv, [Next]_vars
  PROVE  SurviveInv'
<1> USE Apart
<1>0. Types /\ Jobs /\ Locked
  BY TypeParts
<1>1. SUFFICES ASSUME ~overlap', torn' # "loaded" PROVE SurviveInv'
  BY DEF SurviveInv
<1>2. ~overlap /\ torn # "loaded"
  <2>1. ~overlap
    BY <1>1 DEF Next, Start, Stop, Apply, ApplyFails, Applied, Respond, Truncate, Write,
       CutShort, Begin, InitEdits, AddProviderEdits, ResetEdits, Edited, CommandEnds, vars,
       history
  <2>2. torn # "loaded"
    BY <1>1 DEF Next, Start, Stop, Apply, ApplyFails, Applied, Respond, Truncate, Write,
       CutShort, Begin, InitEdits, AddProviderEdits, ResetEdits, Edited, CommandEnds, vars,
       history, Reading, Rewriting
  <2> QED
    BY <2>1, <2>2
<1>3. MemoryKeeps /\ FileKeeps /\ CommandKeeps /\ WrittenHasIssued
  BY <1>2 DEF SurviveInv
<1>4. CASE Start
  <2>1. /\ file # Broken /\ mem' = file /\ accepted' = file
        /\ torn = "no" /\ torn' = torn
        /\ file' = file /\ job' = job /\ command' = command
        /\ shown' = shown /\ reset' = reset
    BY <1>0, <1>1, <1>4, BrokenDoesNotLoad DEF Start, Reading, cli, Types
  <2> QED
    BY <1>3, <2>1 DEF SurviveInv, MemoryKeeps, FileKeeps, CommandKeeps,
       WrittenHasIssued, Keeps, At
<1>5. CASE Stop
  <2>1. /\ running' = FALSE /\ file' = file /\ command' = command
        /\ shown' = shown /\ reset' = reset /\ torn' = torn
        /\ job'[Cli] = job[Cli] /\ \A o \in Operators : job'[o] = Idle
    BY <1>5 DEF Stop, cli, history
  <2> QED
    BY <1>3, <2>1, IdleFields DEF SurviveInv, MemoryKeeps, FileKeeps, CommandKeeps,
       WrittenHasIssued, Keeps, At, Writers
<1>6. ASSUME NEW o \in Operators, NEW e \in Edits, Apply(o, e)
      PROVE  SurviveInv'
  <2>1. /\ mem.keys \subseteq mem'.keys /\ mem'.login = mem.login
        /\ job'[o].pc = "open" /\ \A x \in Writers : x # o => job'[x] = job[x]
    BY <1>0, <1>6, ApplyEffect
  <2>2. UNCHANGED <<file, running, command, torn, accepted, shown, reset>>
    BY <1>6 DEF Apply, cli, history
  <2> QED
    BY <1>3, <2>1, <2>2 DEF SurviveInv, MemoryKeeps, FileKeeps, CommandKeeps,
       WrittenHasIssued, Keeps, At
<1>7. ASSUME NEW o \in Operators, ApplyFails(o)
      PROVE  SurviveInv'
  <2>1. /\ Saving(o) /\ mem' = Rollback(o) /\ Become(o, Idle)
        /\ UNCHANGED <<file, running, command, torn, accepted, shown, reset>>
    BY <1>7 DEF ApplyFails, Saving, SaveSteps, cli
  <2>2. mem' = accepted
    BY <1>0, <2>1, RollbackExact DEF Locked
  <2>3. job'[o] = Idle /\ \A x \in Writers : x # o => job'[x] = job[x]
    BY <1>0, <2>1, IdleEffect
  <2> QED
    BY <1>3, <2>1, <2>2, <2>3, IdleFields DEF SurviveInv, MemoryKeeps, FileKeeps,
       CommandKeeps, WrittenHasIssued, Keeps, At
<1>8. ASSUME NEW o \in Operators, Applied(o)
      PROVE  SurviveInv'
  <2>1. /\ job[o].pc = "restrict" /\ accepted' = mem
        /\ Become(o, [job[o] EXCEPT !.pc = "answer", !.cfg = NoConfig])
        /\ UNCHANGED <<file, running, mem, command, torn, shown, reset>>
    BY <1>8 DEF Applied, At, cli
  <2>2. /\ job'[o].issued = job[o].issued
        /\ \A x \in Writers : x # o => job'[x] = job[x]
    BY <1>0, <2>1, AppliedEffect
  <2> QED
    BY <1>3, <2>1, <2>2 DEF SurviveInv, MemoryKeeps, FileKeeps, CommandKeeps,
       WrittenHasIssued, Keeps, At
<1>9. ASSUME NEW o \in Operators, Respond(o)
      PROVE  SurviveInv'
  <2>1. /\ job[o].pc = "answer" /\ shown' = shown \cup job[o].issued /\ Become(o, Idle)
        /\ UNCHANGED <<file, running, mem, command, torn, accepted, reset>>
    BY <1>9 DEF Respond, At, server, cli
  <2>2. job'[o] = Idle /\ \A x \in Writers : x # o => job'[x] = job[x]
    BY <1>0, <2>1, IdleEffect
  <2>3. job[o].issued \subseteq mem.keys /\ job[o].issued \subseteq accepted.keys
    BY <2>1 DEF IssuedInv, Shows
  <2>4. running /\ command = "none" /\ job[Cli].pc = "idle"
    BY <1>2, <2>1, AloneWhileRunning
  <2> QED
    BY <1>3, <2>1, <2>2, <2>3, <2>4, IdleFields DEF SurviveInv, MemoryKeeps, FileKeeps,
       CommandKeeps, WrittenHasIssued, Keeps, At
<1>10. ASSUME NEW o \in Operators, Truncate(o) \/ Write(o) \/ CutShort(o)
       PROVE  SurviveInv'
  <2>1. /\ Saving(o)
        /\ (torn' = "file" \/ file' \in {mem, Broken})
        /\ shown' = shown /\ reset' = reset
        /\ \E stage \in {"write", "cut", "restrict"} : Goto(o, stage)
        /\ UNCHANGED <<running, mem, command, accepted>>
    BY <1>2, <1>10 DEF Truncate, Write, CutShort, Payload, Saving, At, server, cli
  <2>2. /\ job'[o].issued = job[o].issued
        /\ \A x \in Writers : x # o => job'[x] = job[x]
    BY <1>0, <2>1, GotoEffect DEF Stage
  <2>3. /\ running /\ command = "none" /\ job[Cli].pc = "idle" /\ Keeps(mem)
    BY <1>2, <1>3, <2>1, AloneWhileRunning DEF Saving, MemoryKeeps
  <2>4. job'[Cli] = job[Cli]
    BY <2>2
  <2>5. \A x \in Operators : job'[x].pc \in {"restrict", "answer"} =>
           job'[x].issued \subseteq mem.keys
    BY <2>1, <2>2 DEF IssuedInv, Shows, Saving
  <2>6. MemoryKeeps' /\ FileKeeps' /\ CommandKeeps'
    BY <1>3, <2>1, <2>3, <2>4 DEF MemoryKeeps, FileKeeps, CommandKeeps, Keeps, At
  <2>7. WrittenHasIssued'
    BY <2>1, <2>3, <2>4, <2>5 DEF WrittenHasIssued, Writers
  <2> QED
    BY <2>6, <2>7 DEF SurviveInv
<1>11. ASSUME command # "none"
       PROVE  /\ ~running /\ \A o \in Operators : job[o].pc = "idle"
  BY <1>2, <1>11 DEF AloneInv, SaveInv
<1>12. CASE Truncate(Cli)
  <2>1. /\ job[Cli].pc = "open" /\ file' = Broken /\ Goto(Cli, "write")
        /\ shown' = (IF command = "init" THEN {} ELSE shown)
        /\ UNCHANGED <<running, mem, command, accepted, reset>>
    BY <1>12 DEF Truncate, At, server, cli
  <2>2. /\ job'[Cli].pc = "write" /\ job'[Cli].cfg = job[Cli].cfg
        /\ \A x \in Writers : x # Cli => job'[x] = job[x]
    BY <1>0, <2>1, GotoEffect DEF Stage
  <2>3. ~running
    BY <1>11, <2>1 DEF CommandInv
  <2> QED
    BY <1>3, <2>1, <2>2, <2>3 DEF SurviveInv, MemoryKeeps, FileKeeps, CommandKeeps,
       WrittenHasIssued, At
<1>18. CASE CutShort(Cli)
  <2>1. /\ job[Cli].pc = "write" /\ Goto(Cli, "cut") /\ torn' = "file"
        /\ UNCHANGED <<running, mem, command, accepted, shown, reset>>
    BY <1>2, <1>18 DEF CutShort, At, server, cli
  <2>2. /\ job'[Cli].pc = "cut" /\ job'[Cli].cfg = job[Cli].cfg
        /\ \A x \in Writers : x # Cli => job'[x] = job[x]
    BY <1>0, <2>1, GotoEffect DEF Stage
  <2>3. ~running
    BY <1>11, <2>1 DEF CommandInv
  <2> QED
    BY <1>3, <2>1, <2>2, <2>3 DEF SurviveInv, MemoryKeeps, FileKeeps, CommandKeeps,
       WrittenHasIssued, At
<1>13. CASE Write(Cli)
  <2>1. /\ job[Cli].pc = "write" /\ Goto(Cli, "restrict")
        /\ file' \in {job[Cli].cfg, Broken} /\ shown' = shown
        /\ reset' = (IF command = "add-provider" THEN reset
                     ELSE IF command = "init" THEN 0 ELSE job[Cli].cfg.login)
        /\ UNCHANGED <<running, mem, command, accepted>>
    BY <1>13 DEF Write, Payload, At, server, cli
  <2>2. /\ job'[Cli].pc = "restrict" /\ job'[Cli].cfg = job[Cli].cfg
        /\ job'[Cli].issued = job[Cli].issued
        /\ \A x \in Writers : x # Cli => job'[x] = job[x]
    BY <1>0, <2>1, GotoEffect DEF Stage
  <2>3. command # "none" /\ ~running /\ \A o \in Operators : job[o].pc = "idle"
    BY <1>11, <2>1 DEF CommandInv
  <2>4. job[Cli].issued \subseteq job[Cli].cfg.keys
    BY <2>1 DEF CommandInv, Saving
  <2>5. shown \subseteq job[Cli].cfg.keys
    BY <1>3, <2>1 DEF CommandKeeps
  <2>6. reset' # 0 => job[Cli].cfg.login = reset'
    BY <1>3, <2>1 DEF CommandKeeps
  <2>7. MemoryKeeps' /\ FileKeeps' /\ CommandKeeps'
    BY <1>3, <2>1, <2>2, <2>3, <2>5, <2>6
    DEF MemoryKeeps, FileKeeps, CommandKeeps, Keeps, At
  <2>8. WrittenHasIssued'
    BY <2>1, <2>2, <2>3, <2>4 DEF WrittenHasIssued, Writers
  <2> QED
    BY <2>7, <2>8 DEF SurviveInv
<1>14. ASSUME NEW name \in Commands, Begin(name)
       PROVE  SurviveInv'
  <2>1. /\ job'[Cli].pc = "prompt"
        /\ job'[Cli].cfg = IF name = "init" THEN NoConfig ELSE file
        /\ \A x \in Writers : x # Cli => job'[x] = job[x]
    BY <1>0, <1>14, BeginEffect
  <2>2. /\ ~running /\ command' = name
        /\ name # "init" => file # Broken /\ torn = "no"
        /\ torn' = torn
        /\ UNCHANGED <<file, running, mem, accepted, shown, reset>>
    BY <1>0, <1>1, <1>14, BrokenDoesNotLoad DEF Begin, Reading, server, Types
  <2> QED
    BY <1>3, <2>1, <2>2 DEF SurviveInv, MemoryKeeps, FileKeeps, CommandKeeps,
       WrittenHasIssued, Keeps, At
<1>15. CASE InitEdits \/ AddProviderEdits \/ ResetEdits
  <2>1. PICK c \in Config, issued \in SUBSET (Tokens \X Users) :
          Edited(c, issued) /\ (FromNothing(c, issued) \/ FromTheFile(c, issued))
    BY <1>0, <1>15, EditsEffect
  <2>2. /\ job'[Cli].pc = "open" /\ job'[Cli].cfg = c
        /\ \A x \in Writers : x # Cli => job'[x] = job[x]
    BY <1>0, <2>1, RecordEffect DEF Edited, Stage
  <2>3. UNCHANGED <<file, running, mem, command, torn, accepted, shown, reset>>
    BY <2>1 DEF Edited, server, cli, history
  <2> QED
    BY <1>3, <2>1, <2>2, <2>3 DEF SurviveInv, MemoryKeeps, FileKeeps, CommandKeeps,
       WrittenHasIssued, Keeps, At, FromNothing, FromTheFile
<1>16. CASE CommandEnds
  <2>1. /\ command # "none" /\ command' = "none" /\ Become(Cli, Idle)
        /\ shown' = IF job[Cli].pc = "restrict" THEN shown \cup job[Cli].issued ELSE shown
        /\ UNCHANGED <<file, running, mem, torn, accepted, reset>>
    BY <1>16 DEF CommandEnds, At, server
  <2>2. job'[Cli] = Idle /\ \A x \in Writers : x # Cli => job'[x] = job[x]
    BY <1>0, <2>1, IdleEffect
  <2>3. ~running
    BY <1>11, <2>1
  <2> QED
    BY <1>3, <2>1, <2>2, <2>3, IdleFields DEF SurviveInv, MemoryKeeps, FileKeeps,
       CommandKeeps, WrittenHasIssued, Keeps, At
<1>17. CASE UNCHANGED vars
  BY <1>3, <1>17 DEF vars, server, cli, history, SurviveInv, MemoryKeeps, FileKeeps,
     CommandKeeps, WrittenHasIssued, Keeps, At
<1> QED
  BY <1>4, <1>5, <1>6, <1>7, <1>8, <1>9, <1>10, <1>12, <1>13, <1>14, <1>15, <1>16, <1>17,
     <1>18
  DEF Next, Writers

\* Through failed saves, crashes in the middle of one and commands between two
\* servers, a key that was shown is in every later server's configuration, and
\* a reset login is the one in force, as long as no command runs beside a server
\* and none of them starts from a file that was cut off and still loads.
THEOREM ChangesAlwaysSurvive == Spec => []ChangesSurvive
<1>1. SurviveInv => ChangesSurvive
  BY DEF SurviveInv, MemoryKeeps, Keeps, ChangesSurvive
<1> QED
  BY <1>1, AloneInit, AloneNext, SurviveInit, SurviveNext, CommandInit, CommandNext,
     SaveInit, SaveNext, TypeCorrect, PTL DEF Spec
-----------------------------------------------------------------------------
(* A server and its file.                                                  *)

\* Until a save fails or a command runs beside it, the server's memory is in
\* the file, except from a save's swap to its write.
AgreeInv ==
  running /\ ~overlap /\ ~failed =>
    /\ mu = Nobody => file = mem
    /\ \A o \in Operators : /\ At(o, "write") => file = Broken
                            /\ At(o, "restrict") => file = mem

LEMMA AgreeNext ==
  ASSUME TypeOK, SaveInv, CommandInv, AloneInv, AgreeInv, [Next]_vars
  PROVE  AgreeInv'
<1> USE Apart
<1>0. Types /\ Jobs /\ Locked
  BY TypeParts
<1>1. SUFFICES ASSUME running', ~overlap', ~failed' PROVE AgreeInv'
  BY DEF AgreeInv
<1>2. CASE Start
  <2>1. /\ ~running /\ mem' = file /\ file' = file /\ job' = job
    BY <1>2 DEF Start
  <2>2. \A o \in Operators : job[o].pc = "idle"
    BY <2>1 DEF SaveInv
  <2> QED
    BY <2>1, <2>2 DEF AgreeInv, At
<1>3. CASE Stop
  BY <1>1, <1>3 DEF Stop
<1>4. SUFFICES ASSUME ~Start, ~Stop PROVE AgreeInv'
  BY <1>2, <1>3
<1>5. running /\ ~overlap /\ ~failed
  <2>1. (\E o \in Operators : ApplyFails(o)) => failed'
    BY DEF ApplyFails
  <2>2. \A o \in Operators, e \in Edits : Apply(o, e) => UNCHANGED <<running, overlap, failed>>
    BY DEF Apply, history
  <2>3. \A o \in Operators : Applied(o) \/ Respond(o) => UNCHANGED <<running, overlap, failed>>
    BY DEF Applied, Respond, server
  <2>4. \A w \in Writers : Truncate(w) \/ Write(w) \/ CutShort(w) =>
           UNCHANGED <<running, overlap, failed>>
    BY DEF Truncate, Write, CutShort, server
  <2>5. \A name \in Commands : Begin(name) =>
           UNCHANGED <<running, failed>> /\ (overlap => overlap')
    BY DEF Begin, server
  <2>6. InitEdits \/ AddProviderEdits \/ ResetEdits \/ CommandEnds =>
           UNCHANGED <<running, overlap, failed>>
    BY DEF InitEdits, AddProviderEdits, ResetEdits, Edited, CommandEnds, server, history
  <2>7. UNCHANGED vars => UNCHANGED <<running, overlap, failed>>
    BY DEF vars, server, history
  <2>8. failed' \/ (running' = running /\ failed' = failed /\ (overlap => overlap'))
    BY <1>4, <2>1, <2>2, <2>3, <2>4, <2>5, <2>6, <2>7 DEF Next
  <2> QED
    BY <1>0, <1>1, <2>8 DEF Types
<1>6. /\ mu = Nobody => file = mem
      /\ \A o \in Operators : /\ job[o].pc = "write" => file = Broken
                              /\ job[o].pc = "restrict" => file = mem
  BY <1>5 DEF AgreeInv, At
<1>7. command = "none" /\ job[Cli].pc = "idle"
  BY <1>5 DEF CommandInv, AloneInv
<1>8. ASSUME NEW o \in Operators, NEW e \in Edits, Apply(o, e)
      PROVE  AgreeInv'
  <2>1. job'[o].pc = "open" /\ \A x \in Writers : x # o => job'[x] = job[x]
    BY <1>0, <1>8, ApplyEffect
  <2>2. mu = Nobody /\ mu' = o
    BY <1>8 DEF Apply, LockFree
  <2>3. \A x \in Operators : ~Saving(x)
    BY <1>0, <2>2 DEF Locked
  <2> QED
    BY <2>1, <2>2, <2>3 DEF AgreeInv, At, Saving
<1>9. ASSUME NEW o \in Operators, Applied(o)
      PROVE  AgreeInv'
  <2>1. /\ job[o].pc = "restrict"
        /\ Become(o, [job[o] EXCEPT !.pc = "answer", !.cfg = NoConfig])
        /\ UNCHANGED <<file, mem>>
    BY <1>9 DEF Applied, At
  <2>2. job'[o].pc = "answer" /\ \A x \in Writers : x # o => job'[x] = job[x]
    BY <1>0, <2>1, AppliedEffect
  <2> QED
    BY <1>6, <2>1, <2>2 DEF AgreeInv, At
<1>10. ASSUME NEW o \in Operators, Respond(o)
       PROVE  AgreeInv'
  <2>1. Become(o, Idle) /\ UNCHANGED <<file, mem, mu>>
    BY <1>10 DEF Respond, server
  <2>2. job'[o] = Idle /\ \A x \in Writers : x # o => job'[x] = job[x]
    BY <1>0, <2>1, IdleEffect
  <2> QED
    BY <1>6, <2>1, <2>2, IdleFields DEF AgreeInv, At
<1>11. ASSUME NEW o \in Operators, Truncate(o)
       PROVE  AgreeInv'
  <2>1. /\ Saving(o) /\ file' = Broken /\ Goto(o, "write") /\ mu' = mu
    BY <1>11 DEF Truncate, Saving, At, server
  <2>2. job'[o].pc = "write" /\ \A x \in Writers : x # o => job'[x] = job[x]
    BY <1>0, <2>1, GotoEffect DEF Stage
  <2>3. mu = o /\ \A x \in Operators : x # o => ~Saving(x)
    BY <1>0, <2>1 DEF Locked
  <2> QED
    BY <2>1, <2>2, <2>3 DEF AgreeInv, At, Saving
<1>12. ASSUME NEW o \in Operators, Write(o)
       PROVE  AgreeInv'
  <2>1. /\ Saving(o) /\ job[o].pc = "write" /\ Goto(o, "restrict")
        /\ mu' = mu /\ mem' = mem
        /\ file' = mem \/ file # Broken
    BY <1>12 DEF Write, Payload, Saving, At, server
  <2>2. job'[o].pc = "restrict" /\ \A x \in Writers : x # o => job'[x] = job[x]
    BY <1>0, <2>1, GotoEffect DEF Stage
  <2>3. mu = o /\ \A x \in Operators : x # o => ~Saving(x)
    BY <1>0, <2>1 DEF Locked
  <2>4. file' = mem
    BY <1>6, <2>1
  <2> QED
    BY <2>1, <2>2, <2>3, <2>4 DEF AgreeInv, At, Saving
<1>18. ASSUME NEW o \in Operators, CutShort(o)
       PROVE  AgreeInv'
  <2>1. /\ Saving(o) /\ Goto(o, "cut") /\ mu' = mu
    BY <1>18 DEF CutShort, Saving, At, server
  <2>2. job'[o].pc = "cut" /\ \A x \in Writers : x # o => job'[x] = job[x]
    BY <1>0, <2>1, GotoEffect DEF Stage
  <2>3. mu = o /\ \A x \in Operators : x # o => ~Saving(x)
    BY <1>0, <2>1 DEF Locked
  <2> QED
    BY <2>1, <2>2, <2>3 DEF AgreeInv, At, Saving
<1>13. ~Truncate(Cli) /\ ~Write(Cli) /\ ~CutShort(Cli)
  BY <1>7 DEF Truncate, Write, CutShort, At
<1>14. \A name \in Commands : ~Begin(name)
  BY <1>1, <1>5 DEF Begin
<1>15. ~InitEdits /\ ~AddProviderEdits /\ ~ResetEdits /\ ~CommandEnds
  BY <1>7 DEF InitEdits, AddProviderEdits, ResetEdits, CommandEnds
<1>16. \A o \in Operators : ~ApplyFails(o)
  BY <1>1 DEF ApplyFails
<1>17. CASE UNCHANGED vars
  BY <1>6, <1>17 DEF vars, server, AgreeInv, At
<1> QED
  BY <1>4, <1>8, <1>9, <1>10, <1>11, <1>12, <1>13, <1>14, <1>15, <1>16, <1>17, <1>18
  DEF Next, Writers

\* As long as no save fails and no command runs beside it, a server and its
\* file agree between saves, however many operators save at the same time.
THEOREM AgreesUntilFailure == Spec => []AgreeWhileNothingFails
<1>1. Init => AgreeInv
  BY DEF Init, AgreeInv
<1>2. AgreeInv => AgreeWhileNothingFails
  BY DEF AgreeInv, AgreeWhileNothingFails, LockFree
<1> QED
  BY <1>1, <1>2, AgreeNext, AloneInit, AloneNext, CommandInit, CommandNext,
     SaveInit, SaveNext, TypeCorrect, PTL DEF Spec
-----------------------------------------------------------------------------
(* What is saved can be loaded.                                            *)

\* Each fallback that no pricing entry is about is known to the program's own
\* table, and served by a provider that is configured; and there is one.
Served(c) ==
  \A m \in c.fallback : Unpriced(c, Trimmed(m)) =>
     Known(Table, Trimmed(m)) /\ ProviderFor(Table, Trimmed(m)) \in c.providers
Sound(c) == c.providers # {} /\ Served(c)

LoadInv ==
  /\ file # Broken => Sound(file)
  /\ running => Sound(mem) /\ Sound(accepted)
  /\ job[Cli].pc # "idle" /\ ~(command = "init" /\ At(Cli, "prompt")) =>
        Sound(job[Cli].cfg)

LEMMA LoadsSound == \A c : Loads(c) => Sound(c)
  BY DEF Loads, FallbackServed, Sound, Served

\* A sound configuration loads, but for the two things that Apply lets through.
LEMMA SoundLoads ==
  ASSUME NEW c, Sound(c), c.cacheOn => c.cacheReady,
         \A m \in c.fallback : Unpriced(c, Trimmed(m))
  PROVE  Loads(c)
BY DEF Loads, FallbackServed, Sound, Served

\* Whether a configuration is sound, its providers, its list and its prices say.
LEMMA SameSound ==
  ASSUME NEW c, NEW d, Sound(c), c.providers \subseteq d.providers,
         d.fallback = c.fallback, d.priced = c.priced
  PROVE  Sound(d)
BY DEF Sound, Served, Unpriced

\* A fallback list that Apply finds good by the live table is good by the
\* program's own, if no pricing entry is about it.
LEMMA LiveServedIsServed ==
  ASSUME NEW c \in Config, NEW m \in Models,
         Known(LiveTable(c), Trimmed(m)), Unpriced(c, Trimmed(m))
  PROVE  /\ Known(Table, Trimmed(m))
         /\ ProviderFor(Table, Trimmed(m)) = ProviderFor(LiveTable(c), Trimmed(m))
<1>1. Trimmed(m) \in Seq(STRING)
  BY LiveConfigAssumption, TrimmedName
<1>2. Trimmed(m) \in Seq(STRING) \ {<< >>}
  BY <1>1, NothingKnown
<1> QED
  BY <1>2, Untouched DEF LiveTable, Unpriced

\* What a command loaded and edited, or made from nothing, is sound.
LEMMA EditedSound ==
  ASSUME NEW c \in Config, NEW issued, LoadInv,
         FromNothing(c, issued) \/ FromTheFile(c, issued)
  PROVE  Sound(c)
<1>1. CASE FromNothing(c, issued)
  BY <1>1 DEF FromNothing, Sound, Served
<1>2. CASE FromTheFile(c, issued)
  <2>1. Sound(job[Cli].cfg)
    BY <1>2 DEF FromTheFile, LoadInv, At
  <2> QED
    BY <1>2, <2>1, SameSound DEF FromTheFile
<1> QED
  BY <1>1, <1>2

LEMMA LoadInit == Init => LoadInv
<1> SUFFICES ASSUME Init PROVE LoadInv
  OBVIOUS
<1>1. ~running /\ job[Cli] = Idle
  BY Apart DEF Init
<1>2. file # Broken => Loads(file)
  BY LiveConfigAssumption DEF Init
<1> QED
  BY <1>1, <1>2, IdleFields, LoadsSound DEF LoadInv

LEMMA LoadNext ==
  ASSUME TypeOK, SaveInv, CommandInv, LoadInv, [Next]_vars
  PROVE  LoadInv'
<1> USE Apart
<1>0. Types /\ Jobs /\ Locked
  BY TypeParts
<1> DEFINE Ready == job[Cli].pc # "idle" /\ ~(command = "init" /\ job[Cli].pc = "prompt")
<1>a. /\ file # Broken => Sound(file)
      /\ running => Sound(mem) /\ Sound(accepted)
      /\ Ready => Sound(job[Cli].cfg)
  BY DEF LoadInv, At
<1>b. ASSUME /\ file' # Broken => Sound(file')
             /\ running' => Sound(mem') /\ Sound(accepted')
             /\ Ready' => Sound(job'[Cli].cfg)
      PROVE  LoadInv'
  BY <1>b DEF LoadInv, At, Sound, Served, Unpriced, Broken, NoConfig
<1> HIDE DEF Ready
<1>c. ASSUME UNCHANGED <<job, command>>
      PROVE  Ready' => Ready /\ job'[Cli].cfg = job[Cli].cfg
  BY <1>c DEF Ready
<1>d. ASSUME job'[Cli] = job[Cli], command' = command
      PROVE  Ready' => Ready /\ job'[Cli].cfg = job[Cli].cfg
  BY <1>d DEF Ready
<1>1. CASE Start
  <2>1. /\ Loads(file) /\ mem' = file /\ accepted' = file
        /\ UNCHANGED <<file, job, command>>
    BY <1>1 DEF Start, cli
  <2> QED
    BY <1>a, <1>b, <1>c, <2>1, LoadsSound
<1>2. CASE Stop
  <2>1. /\ running' = FALSE /\ job'[Cli] = job[Cli]
        /\ UNCHANGED <<file, command>>
    BY <1>2 DEF Stop, cli
  <2> QED
    BY <1>a, <1>b, <1>d, <2>1
<1>3. ASSUME NEW o \in Operators, NEW e \in Edits, Apply(o, e)
      PROVE  LoadInv'
  <2>1. /\ mem'.providers = mem.providers /\ mem'.priced = mem.priced
        /\ mem'.fallback = e.fallback
        /\ job'[Cli] = job[Cli]
    BY <1>0, <1>3, ApplyEffect
  <2>2. /\ running /\ FallbackServed(e.fallback, mem.providers, LiveTable(mem))
        /\ UNCHANGED <<file, running, command, accepted>>
    BY <1>3 DEF Apply, Acceptable, cli, history
  <2>3. mem \in Config /\ e.fallback \in SUBSET Models
    BY <1>0, LiveConfigAssumption DEF Types, Editable
  <2>4. ASSUME NEW m \in e.fallback, Unpriced(mem, Trimmed(m))
        PROVE  /\ Known(Table, Trimmed(m))
               /\ ProviderFor(Table, Trimmed(m)) \in mem.providers
    <3>1. /\ Known(LiveTable(mem), Trimmed(m))
          /\ ProviderFor(LiveTable(mem), Trimmed(m)) \in mem.providers
      BY <2>2 DEF FallbackServed
    <3>2. m \in Models
      BY <2>3
    <3> QED
      BY <2>3, <2>4, <3>1, <3>2, LiveServedIsServed
  <2>5. mem.providers # {}
    BY <1>a, <2>2 DEF Sound
  <2>6. \A m : Unpriced(mem', m) = Unpriced(mem, m)
    BY <2>1 DEF Unpriced
  <2>7. Served(mem')
    BY <2>1, <2>4, <2>6 DEF Served
  <2>8. Sound(mem')
    BY <2>1, <2>5, <2>7 DEF Sound
  <2> QED
    BY <1>a, <1>b, <1>d, <2>1, <2>2, <2>8
<1>4. ASSUME NEW o \in Operators, ApplyFails(o)
      PROVE  LoadInv'
  <2>1. /\ Saving(o) /\ mem' = Rollback(o) /\ Become(o, Idle)
        /\ UNCHANGED <<file, running, command, accepted>>
    BY <1>4 DEF ApplyFails, Saving, SaveSteps, cli
  <2>2. mu = o
    BY <1>0, <2>1 DEF Locked
  <2>3. mem' = accepted
    BY <1>0, <2>1, <2>2, RollbackExact
  <2>4. job'[Cli] = job[Cli]
    BY <1>0, <2>1, IdleEffect
  <2> QED
    BY <1>a, <1>b, <1>d, <2>1, <2>3, <2>4
<1>5. ASSUME NEW o \in Operators, Applied(o)
      PROVE  LoadInv'
  <2>1. /\ accepted' = mem
        /\ Become(o, [job[o] EXCEPT !.pc = "answer", !.cfg = NoConfig])
        /\ UNCHANGED <<file, running, mem, command>>
    BY <1>5 DEF Applied, cli
  <2>2. job'[Cli] = job[Cli]
    BY <1>0, <2>1, AppliedEffect
  <2> QED
    BY <1>a, <1>b, <1>d, <2>1, <2>2
<1>6. ASSUME NEW o \in Operators, Respond(o)
      PROVE  LoadInv'
  <2>1. Become(o, Idle) /\ UNCHANGED <<file, running, mem, command, accepted>>
    BY <1>6 DEF Respond, server, cli
  <2>2. job'[Cli] = job[Cli]
    BY <1>0, <2>1, IdleEffect
  <2> QED
    BY <1>a, <1>b, <1>d, <2>1, <2>2
<1>7. ASSUME NEW w \in Writers, NEW stage \in Stage, Goto(w, stage),
             job[w].pc # "prompt" /\ job[w].pc # "idle",
             UNCHANGED <<running, mem, command, accepted>>,
             file' # Broken => Sound(file')
      PROVE  LoadInv'
  <2>1. /\ job'[w].cfg = job[w].cfg
        /\ \A x \in Writers : x # w => job'[x] = job[x]
    BY <1>0, <1>7, GotoEffect
  <2>2. Ready' => Ready /\ job'[Cli].cfg = job[Cli].cfg
    BY <1>7, <2>1 DEF Ready
  <2> QED
    BY <1>a, <1>b, <1>7, <2>2
<1>8. ASSUME NEW w \in Writers, Truncate(w)
      PROVE  LoadInv'
  <2>1. /\ job[w].pc = "open" /\ file' = Broken /\ Goto(w, "write")
        /\ UNCHANGED <<running, mem, command, accepted>>
    BY <1>8 DEF Truncate, At, server, cli
  <2> QED
    BY <1>7, <2>1 DEF Stage
<1>9. ASSUME NEW w \in Writers, Write(w)
      PROVE  LoadInv'
  <2>1. /\ job[w].pc = "write" /\ Goto(w, "restrict")
        /\ file' = Payload(w) \/ file' = Broken
        /\ UNCHANGED <<running, mem, command, accepted>>
    BY <1>9 DEF Write, At, server, cli
  <2>2. Sound(Payload(w))
    <3>1. CASE w = Cli
      BY <1>a, <2>1, <3>1 DEF Ready, Payload
    <3>2. CASE w # Cli
      <4>1. running
        BY <2>1, <3>2 DEF SaveInv, Writers
      <4> QED
        BY <1>a, <3>2, <4>1 DEF Payload
    <3> QED
      BY <3>1, <3>2
  <2> QED
    BY <1>7, <2>1, <2>2 DEF Stage
<1>10. ASSUME NEW w \in Writers, CutShort(w)
       PROVE  LoadInv'
  <2>1. /\ job[w].pc = "write" /\ Goto(w, "cut") /\ Loads(file')
        /\ UNCHANGED <<running, mem, command, accepted>>
    BY <1>10 DEF CutShort, At, server, cli
  <2> QED
    BY <1>7, <2>1, LoadsSound DEF Stage
<1>11. ASSUME NEW name \in Commands, Begin(name)
       PROVE  LoadInv'
  <2>1. /\ job'[Cli].pc = "prompt"
        /\ job'[Cli].cfg = IF name = "init" THEN NoConfig ELSE file
    BY <1>0, <1>11, BeginEffect
  <2>2. /\ command' = name /\ (name # "init" => Loads(file))
        /\ UNCHANGED <<file, running, mem, accepted>>
    BY <1>11 DEF Begin, server
  <2>3. Ready' => Sound(job'[Cli].cfg)
    BY <2>1, <2>2, LoadsSound DEF Ready
  <2> QED
    BY <1>a, <1>b, <2>2, <2>3
<1>12. CASE InitEdits \/ AddProviderEdits \/ ResetEdits
  <2>1. PICK c \in Config, issued \in SUBSET (Tokens \X Users) :
          Edited(c, issued) /\ (FromNothing(c, issued) \/ FromTheFile(c, issued))
    BY <1>0, <1>12, EditsEffect
  <2>2. job'[Cli].cfg = c
    BY <1>0, <2>1, RecordEffect DEF Edited, Stage
  <2>3. UNCHANGED <<file, running, mem, accepted>>
    BY <2>1 DEF Edited, server, history
  <2>4. Sound(c)
    BY <2>1, EditedSound
  <2> QED
    BY <1>a, <1>b, <2>2, <2>3, <2>4
<1>13. CASE CommandEnds
  <2>1. Become(Cli, Idle) /\ UNCHANGED <<file, running, mem, accepted>>
    BY <1>13 DEF CommandEnds, server
  <2>2. job'[Cli] = Idle
    BY <1>0, <2>1, IdleEffect
  <2>3. ~Ready'
    BY <2>2, IdleFields DEF Ready
  <2> QED
    BY <1>a, <1>b, <2>1, <2>3
<1>14. CASE UNCHANGED vars
  <2>1. UNCHANGED <<file, running, mem, job, command, accepted>>
    BY <1>14 DEF vars, server, cli, history
  <2> QED
    BY <1>a, <1>b, <1>c, <2>1
<1> QED
  BY <1>1, <1>2, <1>3, <1>4, <1>5, <1>6, <1>8, <1>9, <1>10, <1>11, <1>12, <1>13, <1>14
  DEF Next

\* Whatever files there are to begin with, whatever servers and commands write
\* over each other, and wherever a write fails or is cut off: a file that is not
\* broken can be loaded, or its cache lacks its address, or a pricing entry of
\* it is about one of its fallbacks.
THEOREM FilesAlwaysLoad == Spec => []SavedConfigsLoad
<1>1. LoadInv => SavedConfigsLoad
  BY SoundLoads DEF LoadInv, SavedConfigsLoad
<1> QED
  BY <1>1, LoadInit, LoadNext, CommandInit, CommandNext, SaveInit, SaveNext, TypeCorrect,
     PTL DEF Spec
-----------------------------------------------------------------------------
(* Fallbacks are reached.                                                  *)

\* For any list of models and any pricing section: a fallback in force that the
\* router knows the provider of, that no entry of the file prices and that has
\* no white space around its name is one that the router sends to a provider
\* that is configured.  What validates the list is the price table, what uses it
\* the router; neither knows the other.
THEOREM FallbacksReached == Spec => []KnownFallbackReached
<1>1. TypeOK /\ LoadInv => KnownFallbackReached
  <2> SUFFICES ASSUME TypeOK, LoadInv, running, NEW m \in mem.fallback,
                      m = Trimmed(m), Unpriced(mem, m),
                      Known(Table, m), ProviderFor(Table, m) \in DOMAIN Families
               PROVE  RouteProvider(m) \in mem.providers
    BY DEF KnownFallbackReached
  <2>1. m \in Seq(STRING) \ {<< >>}
    BY LiveConfigAssumption, ConfigType DEF TypeOK
  <2>2. ProviderFor(Table, m) \in mem.providers
    BY DEF LoadInv, Sound, Served
  <2>3. m[1] # Space
    BY <2>1, TrimmedName
  <2> QED
    BY <2>1, <2>2, <2>3, TableAndRouterAgree
<1> QED
  BY <1>1, LoadInit, LoadNext, CommandInit, CommandNext, SaveInit, SaveNext, TypeCorrect,
     PTL DEF Spec
=============================================================================
