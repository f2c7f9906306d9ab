------------------------- MODULE DatabaseStartup_proofs -------------------------
(***************************************************************************)
(* The promises of the start-up, for any set of processes.  StartupInv     *)
(* says which locks a process holds at each step, and what it may          *)
(* therefore rely on in the file.                                          *)
(***************************************************************************)
EXTENDS DatabaseStartup, TLAPS

Making == {"created", "committed", "cleaning", "removing"}
Serving == {"checked", "bootstrap", "recover", "serving"}

\* A process holds its command's locks from before it touches the database to its end.
LocksOf(p) ==
    /\ at[p] \in {"unused", "ended"} => instance # p /\ maintenance[p] = "none"
    /\ at[p] = "maintenance" => instance = p /\ command[p] = "serve" /\ maintenance[p] = "none"
    /\ at[p] \notin {"unused", "ended", "maintenance"} =>
          /\ command[p] # "none"
          /\ maintenance[p] = LockMode(command[p])
          /\ command[p] = "serve" => instance = p

\* flock keeps an exclusive lock exclusive.
FlockInv ==
    \A p, q \in Processes :
        p # q /\ maintenance[p] = "exclusive" => maintenance[q] = "none"

\* What a process that makes or uses the database finds in the file.
FileOf(p) ==
    /\ at[p] \in Making =>
          /\ Creates(p) /\ known = {} /\ ready = {}
          /\ file.creator = p /\ file.administrator = None /\ file.sealed = {}
    /\ at[p] = "created" => file.schema = "empty"
    /\ at[p] = "committed" => file.schema = "current"
    /\ at[p] \in Serving => command[p] = "serve"
    /\ at[p] \in Serving \cup {"opened"} /\ command[p] # "doctor" => file.schema = "current"
    /\ at[p] \in {"recover", "serving"} => file.administrator # None
    /\ at[p] \in Serving => \A secret \in file.sealed : Decrypts(p, secret)

\* Who is relied on is in the file; a ready administrator is a known Manager's.
HistoryInv ==
    /\ IdentityKept
    /\ AdministratorKept
    /\ ready # {} => known # {}
    /\ \A s, t \in file.sealed : s = t

StartupInv ==
    /\ TypeOK
    /\ FlockInv
    /\ \A p \in Processes : LocksOf(p)
    /\ \A p \in Processes : FileOf(p)
    /\ HistoryInv

LEMMA InitStartup == Init => StartupInv
BY StartupAssumption
   DEF Init, StartupInv, TypeOK, FlockInv, LocksOf, FileOf, HistoryInv, IdentityKept,
       AdministratorKept, Steps, Databases, NoFile, NewFile, Making, Serving

\* Past its locks: the database may be opened.
Locked(p) == at[p] \notin {"unused", "ended", "maintenance"}

\* Of two processes past their locks one is a doctor, the other no exclusive command.
LEMMA LockedApart ==
  ASSUME StartupInv, NEW p \in Processes, NEW q \in Processes, p # q, Locked(p), Locked(q)
  PROVE  \/ command[p] = "doctor" /\ LockMode(command[q]) = "shared"
         \/ command[q] = "doctor" /\ LockMode(command[p]) = "shared"
<1>1. /\ maintenance[p] = LockMode(command[p]) /\ maintenance[q] = LockMode(command[q])
      /\ command[p] # "none" /\ command[q] # "none"
      /\ command[p] = "serve" => instance = p
      /\ command[q] = "serve" => instance = q
  BY DEF StartupInv, LocksOf, Locked
<1>2. maintenance[p] # "exclusive" /\ maintenance[q] # "exclusive"
  BY <1>1 DEF StartupInv, FlockInv, LockMode
<1>3. command[p] \in {"serve", "doctor"} /\ command[q] \in {"serve", "doctor"}
  BY <1>1, <1>2 DEF StartupInv, TypeOK, LockMode
<1>. QED  BY <1>1, <1>3 DEF LockMode

\* While a process past its locks is no doctor, nobody else relies on the file.
LEMMA OthersIdle ==
  ASSUME StartupInv, NEW p \in Processes, Locked(p), command[p] # "doctor",
         NEW q \in Processes, q # p
  PROVE  /\ at[q] \notin Making \cup Serving
         /\ at[q] = "opened" => command[q] = "doctor"
<1>1. Locked(q) => command[q] = "doctor"
  BY LockedApart
<1>2. FileOf(q)
  BY DEF StartupInv
<1>. QED  BY <1>1, <1>2 DEF FileOf, Locked, Making, Serving, Creates

\* A step of p that keeps the locks leaves the invariants on locks alone.
LEMMA LocksKept ==
  ASSUME StartupInv, NEW p \in Processes, NEW step \in Steps, Locked(p),
         step \notin {"unused", "ended", "maintenance"},
         at' = [at EXCEPT ![p] = step],
         UNCHANGED <<command, instance, maintenance>>
  PROVE  FlockInv' /\ \A q \in Processes : LocksOf(q)'
<1>1. FlockInv'
  BY DEF StartupInv, FlockInv
<1>2. ASSUME NEW q \in Processes  PROVE LocksOf(q)'
  <2>1. LocksOf(q) /\ at'[q] = IF q = p THEN step ELSE at[q]
    BY DEF StartupInv, TypeOK
  <2>. QED  BY <2>1 DEF LocksOf, Locked
<1>. QED  BY <1>1, <1>2

\* Neither does the end of a process.
LEMMA LocksReleased ==
  ASSUME StartupInv, NEW p \in Processes, Ends(p), UNCHANGED command
  PROVE  /\ FlockInv' /\ \A q \in Processes : LocksOf(q)'
         /\ at' \in [Processes -> Steps] /\ instance' \in Processes \cup {None}
         /\ maintenance' \in [Processes -> {"none", "shared", "exclusive"}]
<1>1. /\ at' \in [Processes -> Steps] /\ instance' \in Processes \cup {None}
      /\ maintenance' \in [Processes -> {"none", "shared", "exclusive"}]
  BY DEF StartupInv, TypeOK, Ends, Goto, Steps
<1>2. \A q \in Processes :
        /\ at'[q] = IF q = p THEN "ended" ELSE at[q]
        /\ maintenance'[q] = IF q = p THEN "none" ELSE maintenance[q]
  BY DEF StartupInv, TypeOK, Ends, Goto
<1>3. FlockInv'
  BY <1>2 DEF StartupInv, FlockInv
<1>4. ASSUME NEW q \in Processes  PROVE LocksOf(q)'
  <2>1. LocksOf(q)
    BY DEF StartupInv
  <2>. QED  BY <1>2, <2>1, StartupAssumption DEF LocksOf, Ends
<1>. QED  BY <1>1, <1>3, <1>4

\* A step of p that changes the file, or the histories, is no doctor's; then the
\* others' claims on the file are void.
LEMMA FileKept ==
  ASSUME StartupInv, NEW p \in Processes, NEW q \in Processes, q # p,
         at'[q] = at[q], UNCHANGED command,
         UNCHANGED <<file, known, ready>> \/ (Locked(p) /\ command[p] # "doctor")
  PROVE  FileOf(q)'
<1>1. CASE UNCHANGED <<file, known, ready>>
  BY <1>1 DEF StartupInv, FileOf, Creates
<1>2. CASE Locked(p) /\ command[p] # "doctor"
  BY <1>2, OthersIdle DEF FileOf, Making, Serving
<1>. QED  BY <1>1, <1>2

\* A step of p past its locks: what is left to show is what p finds in the file.
LEMMA StepKeeps ==
  ASSUME StartupInv, NEW p \in Processes, NEW step \in Steps, Locked(p),
         step \notin {"unused", "ended", "maintenance"}, Goto(p, step),
         UNCHANGED <<command, instance, maintenance>>,
         UNCHANGED <<file, known, ready>> \/ command[p] # "doctor",
         file' \in Databases, known' \subseteq Processes, ready' \subseteq Processes,
         FileOf(p)', HistoryInv'
  PROVE  StartupInv'
<1>1. at' = [at EXCEPT ![p] = step] /\ at \in [Processes -> Steps]
  BY DEF Goto, StartupInv, TypeOK
<1>2. TypeOK'
  BY <1>1 DEF StartupInv, TypeOK
<1>3. FlockInv' /\ \A q \in Processes : LocksOf(q)'
  BY <1>1, LocksKept
<1>4. \A q \in Processes : FileOf(q)'
  BY <1>1, FileKept
<1>. QED  BY <1>2, <1>3, <1>4 DEF StartupInv

LEMMA EndKeeps ==
  ASSUME StartupInv, NEW p \in Processes, Ends(p), UNCHANGED command,
         UNCHANGED <<file, known, ready>> \/ (Locked(p) /\ command[p] # "doctor"),
         file' \in Databases, known' \subseteq Processes, ready' \subseteq Processes,
         HistoryInv'
  PROVE  StartupInv'
<1>1. at'[p] = "ended" /\ \A q \in Processes : q # p => at'[q] = at[q]
  BY DEF Ends, Goto, StartupInv, TypeOK
<1>2. FlockInv' /\ (\A q \in Processes : LocksOf(q)') /\ TypeOK'
  BY LocksReleased DEF StartupInv, TypeOK
<1>3. FileOf(p)'
  BY <1>1 DEF FileOf, Making, Serving
<1>4. \A q \in Processes : FileOf(q)'
  BY <1>1, <1>3, FileKept
<1>. QED  BY <1>2, <1>4 DEF StartupInv

\* The two locks of a server, the one of a command, and the end.
LEMMA LockStepKeeps ==
  ASSUME StartupInv, NEW p \in Processes, LockStep(p)  PROVE StartupInv'
<1>. USE StartupAssumption
<1>0. LocksOf(p) /\ FileOf(p) /\ TypeOK /\ HistoryInv
  BY DEF StartupInv
<1>1. CASE LockInstance(p)
  <2>1. TypeOK'
    BY <1>0, <1>1 DEF LockInstance, Goto, TypeOK, Steps
  <2>2. \A q \in Processes : /\ at'[q] = IF q = p THEN "maintenance" ELSE at[q]
                             /\ command'[q] = IF q = p THEN "serve" ELSE command[q]
    BY <1>0, <1>1 DEF LockInstance, Goto, TypeOK
  <2>3. FlockInv'
    BY <1>1 DEF LockInstance, StartupInv, FlockInv
  <2>4. ASSUME NEW q \in Processes  PROVE LocksOf(q)' /\ FileOf(q)'
    <3>1. LocksOf(q) /\ FileOf(q)
      BY DEF StartupInv
    <3>2. CASE q = p
      BY <1>0, <1>1, <2>2, <3>2 DEF LockInstance, LocksOf, FileOf, Making, Serving
    <3>3. CASE q # p
      BY <1>1, <2>2, <3>1, <3>3 DEF LockInstance, LocksOf, FileOf, Creates
    <3>. QED  BY <3>2, <3>3
  <2>5. HistoryInv'
    BY <1>0, <1>1 DEF LockInstance, HistoryInv, IdentityKept, AdministratorKept
  <2>. QED  BY <2>1, <2>3, <2>4, <2>5 DEF StartupInv
<1>2. CASE LockMaintenance(p)
  <2>1. TypeOK'
    BY <1>0, <1>2 DEF LockMaintenance, LockMode, Goto, TypeOK, Steps
  <2>2. \A q \in Processes :
          /\ at'[q] = IF q = p THEN "locked" ELSE at[q]
          /\ maintenance'[q] = IF q = p THEN LockMode("serve") ELSE maintenance[q]
    BY <1>0, <1>2 DEF LockMaintenance, Goto, TypeOK
  <2>3. FlockInv'
    BY <1>2, <2>2 DEF LockMaintenance, Grantable, LockMode, StartupInv, FlockInv
  <2>4. ASSUME NEW q \in Processes  PROVE LocksOf(q)' /\ FileOf(q)'
    <3>1. LocksOf(q) /\ FileOf(q)
      BY DEF StartupInv
    <3>2. CASE q = p
      BY <1>0, <1>2, <2>2, <3>2 DEF LockMaintenance, LocksOf, FileOf, Making, Serving
    <3>3. CASE q # p
      BY <1>2, <2>2, <3>1, <3>3 DEF LockMaintenance, LocksOf, FileOf, Creates
    <3>. QED  BY <3>2, <3>3
  <2>5. HistoryInv'
    BY <1>0, <1>2 DEF LockMaintenance, HistoryInv, IdentityKept, AdministratorKept
  <2>. QED  BY <2>1, <2>3, <2>4, <2>5 DEF StartupInv
<1>3. ASSUME NEW c \in {"admin-create", "admin-reset-password", "doctor"},
             StartCommand(p, c)
      PROVE  StartupInv'
  <2>1. TypeOK'
    BY <1>0, <1>3 DEF StartCommand, LockMode, Goto, TypeOK, Steps
  <2>2. \A q \in Processes :
          /\ at'[q] = IF q = p THEN "locked" ELSE at[q]
          /\ command'[q] = IF q = p THEN c ELSE command[q]
          /\ maintenance'[q] = IF q = p THEN LockMode(c) ELSE maintenance[q]
    BY <1>0, <1>3 DEF StartCommand, Goto, TypeOK
  <2>3. FlockInv'
    BY <1>3, <2>2 DEF StartCommand, Grantable, LockMode, StartupInv, FlockInv
  <2>4. ASSUME NEW q \in Processes  PROVE LocksOf(q)' /\ FileOf(q)'
    <3>1. LocksOf(q) /\ FileOf(q)
      BY DEF StartupInv
    <3>2. CASE q = p
      BY <1>0, <1>3, <2>2, <3>2 DEF StartCommand, LocksOf, FileOf, Making, Serving
    <3>3. CASE q # p
      BY <1>3, <2>2, <3>1, <3>3 DEF StartCommand, LocksOf, FileOf, Creates
    <3>. QED  BY <3>2, <3>3
  <2>5. HistoryInv'
    BY <1>0, <1>3 DEF StartCommand, HistoryInv, IdentityKept, AdministratorKept
  <2>. QED  BY <2>1, <2>3, <2>4, <2>5 DEF StartupInv
<1>4. CASE Exit(p)
  <2>1. HistoryInv'
    BY <1>0, <1>4 DEF Exit, HistoryInv, IdentityKept, AdministratorKept
  <2>. QED  BY <1>0, <1>4, <2>1, EndKeeps DEF Exit, TypeOK
<1>. QED  BY <1>1, <1>2, <1>3, <1>4 DEF LockStep

Current == [creator : Processes, schema : {"current"}, administrator : Processes \cup {None},
            sealed : SUBSET Secrets]

\* A database with its schema, ...
LEMMA CurrentDatabase ==
  ASSUME NEW f \in Databases, f.schema = "current"  PROVE f \in Current
BY DEF Databases, NoFile, NewFile, Current

\* ... and a file that is being made, which has no administrator and no operations.
LEMMA MadeFile ==
  ASSUME NEW f \in Databases, NEW p \in Processes, f.creator = p,
         f.administrator = None, f.sealed = {}, NEW g,
         \E schema \in {f.schema, "empty", "current"} : g = [f EXCEPT !.schema = schema]
  PROVE  /\ g \in Databases /\ g.creator = p /\ g.administrator = None /\ g.sealed = {}
         /\ g = [f EXCEPT !.schema = "current"] => g.schema = "current"
<1>. USE StartupAssumption
<1>1. f \in Current \/ f = NewFile(p)
  BY DEF Databases, NoFile, NewFile, Current
<1>2. PICK schema \in {"empty", "current"} : g = [f EXCEPT !.schema = schema]
  BY <1>1 DEF Current, NewFile
<1>3. g = [creator |-> p, schema |-> schema, administrator |-> None, sealed |-> {}]
  BY <1>1, <1>2 DEF Current, NewFile
<1>4. g \in Databases
  BY <1>3 DEF Databases, NewFile
<1>. QED  BY <1>1, <1>3, <1>4 DEF Current, NewFile

\* The creation of the file, its clean-up, and the opening of an existing one.
LEMMA OpenStepKeeps ==
  ASSUME StartupInv, NEW p \in Processes, OpenStep(p)  PROVE StartupInv'
<1>. USE StartupAssumption
<1>0. FileOf(p) /\ TypeOK /\ HistoryInv
  BY DEF StartupInv
<1>. USE DEF Locked, Steps
<1>a. \A step \in Steps : Goto(p, step) => at'[p] = step
  BY <1>0 DEF TypeOK, Goto
<1>1. CASE CreateFile(p)
  <2>1. known = {} /\ ready = {}
    BY <1>0, <1>1 DEF CreateFile, NoFile, HistoryInv, IdentityKept
  <2>2. /\ file' \in Databases /\ file'.schema = "empty"
        /\ file'.creator = p /\ file'.administrator = None /\ file'.sealed = {}
    BY <1>1 DEF CreateFile, NewFile, Databases
  <2>3. FileOf(p)' /\ HistoryInv'
    BY <1>1, <1>a, <2>1, <2>2 DEF CreateFile, Creates, FileOf, Making, Serving, HistoryInv,
       IdentityKept, AdministratorKept
  <2>. QED  BY <1>0, <1>1, <2>2, <2>3, StepKeeps DEF CreateFile, Creates, TypeOK
<1>2. CASE Initialize(p)
  <2>1. /\ Creates(p) /\ known = {} /\ ready = {}
        /\ file.creator = p /\ file.administrator = None /\ file.sealed = {}
    BY <1>0, <1>2 DEF Initialize, FileOf, Making
  <2>2. /\ file' \in Databases /\ file'.schema = "current"
        /\ file'.creator = p /\ file'.administrator = None /\ file'.sealed = {}
    <3>1. file \in Databases /\ file' = [file EXCEPT !.schema = "current"]
      BY <1>0, <1>2 DEF Initialize, TypeOK
    <3>. QED  BY <2>1, <3>1, MadeFile
  <2>3. FileOf(p)' /\ HistoryInv'
    BY <1>2, <1>a, <2>1, <2>2 DEF Initialize, Creates, FileOf, Making, Serving, HistoryInv,
       IdentityKept, AdministratorKept
  <2>. QED  BY <1>0, <1>2, <2>1, <2>2, <2>3, StepKeeps DEF Initialize, Creates, TypeOK
<1>3. CASE Checkpoint(p)
  <2>1. FileOf(p)' /\ HistoryInv'
    BY <1>0, <1>3, <1>a DEF Checkpoint, Creates, FileOf, Making, Serving, HistoryInv,
       IdentityKept, AdministratorKept
  <2>. QED  BY <1>0, <1>3, <2>1, StepKeeps DEF Checkpoint, TypeOK
<1>4. CASE FailInitialization(p)
  <2>1. FileOf(p)' /\ HistoryInv'
    BY <1>0, <1>4, <1>a DEF FailInitialization, Creates, FileOf, Making, Serving, HistoryInv,
       IdentityKept, AdministratorKept
  <2>. QED  BY <1>0, <1>4, <2>1, StepKeeps DEF FailInitialization, TypeOK
<1>5. CASE RemoveSidecars(p)
  <2>1. /\ Creates(p) /\ known = {} /\ ready = {}
        /\ file.creator = p /\ file.administrator = None /\ file.sealed = {}
    BY <1>0, <1>5 DEF RemoveSidecars, FileOf, Making
  <2>2. file' \in Databases /\ file'.creator = p /\ file'.administrator = None /\ file'.sealed = {}
    <3>1. file \in Databases
      BY <1>0 DEF TypeOK
    <3>2. \E schema \in {file.schema, "empty", "current"} : file' = [file EXCEPT !.schema = schema]
      BY <1>5 DEF RemoveSidecars
    <3>. QED  BY <2>1, <3>1, <3>2, MadeFile
  <2>3. FileOf(p)' /\ HistoryInv'
    BY <1>5, <1>a, <2>1, <2>2 DEF RemoveSidecars, Creates, FileOf, Making, Serving,
       HistoryInv, IdentityKept, AdministratorKept
  <2>. QED  BY <1>0, <1>5, <2>1, <2>2, <2>3, StepKeeps DEF RemoveSidecars, Creates, TypeOK
<1>6. CASE RemoveFile(p)
  <2>1. Creates(p) /\ known = {} /\ ready = {}
    BY <1>0, <1>6 DEF RemoveFile, FileOf, Making
  <2>2. file' \in Databases /\ HistoryInv'
    BY <1>6, <2>1 DEF RemoveFile, NoFile, Databases, HistoryInv, IdentityKept, AdministratorKept
  <2>. QED  BY <1>0, <1>6, <2>1, <2>2, EndKeeps DEF RemoveFile, Creates, TypeOK
<1>7. CASE OpenExisting(p)
  <2>1. FileOf(p)' /\ HistoryInv'
    BY <1>0, <1>7, <1>a DEF OpenExisting, IsCurrent, Creates, FileOf, Making, Serving, HistoryInv,
       IdentityKept, AdministratorKept
  <2>. QED  BY <1>0, <1>7, <2>1, StepKeeps DEF OpenExisting, TypeOK
<1>. QED  BY <1>1, <1>2, <1>3, <1>4, <1>5, <1>6, <1>7 DEF OpenStep

\* What a process does with the open database.
LEMMA WorkStepKeeps ==
  ASSUME StartupInv, NEW p \in Processes, WorkStep(p)  PROVE StartupInv'
<1>. USE StartupAssumption
<1>0. FileOf(p) /\ TypeOK /\ HistoryInv
  BY DEF StartupInv
<1>. USE DEF Locked, Steps
<1>a. \A step \in Steps : Goto(p, step) => at'[p] = step
  BY <1>0 DEF TypeOK, Goto
<1>1. CASE CountAdministrators(p)
  <2>1. PICK step \in {"bootstrap", "recover"} :
          /\ Goto(p, step)
          /\ step = "recover" => file.administrator # None
    BY <1>1 DEF CountAdministrators
  <2>2. FileOf(p)' /\ HistoryInv'
    BY <1>0, <1>1, <1>a, <2>1 DEF CountAdministrators, Creates, FileOf, Making, Serving,
       HistoryInv, IdentityKept, AdministratorKept
  <2>. QED  BY <1>0, <1>1, <2>1, <2>2, StepKeeps DEF CountAdministrators, TypeOK
<1>2. CASE BootstrapAdministrator(p)
  <2>1. file.schema = "current" /\ command[p] = "serve"
    BY <1>0, <1>2 DEF BootstrapAdministrator, FileOf, Serving
  <2>a. file \in Current
    BY <1>0, <2>1, CurrentDatabase DEF TypeOK
  <2>2. /\ file' \in Databases /\ file'.schema = "current" /\ file'.creator = file.creator
        /\ file'.administrator # None
        /\ file'.sealed = file.sealed
        /\ file.administrator # None => file'.administrator = file.administrator
    BY <1>0, <1>2, <2>a DEF BootstrapAdministrator, WithAdministrator, Current, Databases
  <2>3. FileOf(p)'
    BY <1>0, <1>2, <1>a, <2>1, <2>2 DEF BootstrapAdministrator, FileOf, Making, Serving, Decrypts
  <2>4. HistoryInv'
    BY <1>0, <1>2, <2>2 DEF BootstrapAdministrator, TypeOK, HistoryInv, IdentityKept,
       AdministratorKept
  <2>. QED  BY <1>0, <1>2, <2>1, <2>2, <2>3, <2>4, StepKeeps DEF BootstrapAdministrator, TypeOK
<1>3. CASE StartServing(p)
  <2>1. file.schema = "current" /\ command[p] = "serve" /\ file.administrator # None
    BY <1>0, <1>3 DEF StartServing, FileOf, Serving
  <2>2. file.creator \in Processes
    BY <1>0, <2>1 DEF TypeOK, Databases, NoFile, NewFile
  <2>3. FileOf(p)'
    BY <1>0, <1>3, <1>a, <2>1 DEF StartServing, FileOf, Making, Serving, Decrypts
  <2>4. HistoryInv'
    BY <1>0, <1>3, <2>1 DEF StartServing, HistoryInv, IdentityKept, AdministratorKept
  <2>. QED  BY <1>0, <1>3, <2>1, <2>2, <2>3, <2>4, StepKeeps DEF StartServing, TypeOK
<1>4. CASE AdminCreate(p)
  <2>1. file.schema = "current"
    BY <1>0, <1>4 DEF AdminCreate, FileOf
  <2>a. file \in Current
    BY <1>0, <2>1, CurrentDatabase DEF TypeOK
  <2>2. /\ file' \in Databases /\ file'.schema = "current" /\ file'.creator = file.creator
        /\ file.creator \in Processes /\ file'.sealed = file.sealed
        /\ file'.administrator = IF file.administrator = None THEN p ELSE file.administrator
    BY <1>0, <1>4, <2>a DEF AdminCreate, WithAdministrator, Current, Databases
  <2>3. /\ \/ UNCHANGED <<ready, known>>
           \/ /\ file'.administrator = p
              /\ ready' = ready \cup {p} /\ known' = known \cup {file.creator}
        /\ known' \subseteq Processes /\ ready' \subseteq Processes
    BY <1>0, <1>4, <2>2 DEF AdminCreate, TypeOK
  <2>4. HistoryInv'
    BY <1>0, <2>1, <2>2, <2>3 DEF TypeOK, HistoryInv, IdentityKept, AdministratorKept
  <2>. QED  BY <1>4, <2>2, <2>3, <2>4, EndKeeps DEF AdminCreate
<1>5. CASE RequireRuntimeState(p)
  <2>1. FileOf(p)' /\ HistoryInv'
    BY <1>0, <1>5, <1>a DEF RequireRuntimeState, Decrypts, Creates, FileOf, Making, Serving,
       HistoryInv, IdentityKept, AdministratorKept
  <2>. QED  BY <1>0, <1>5, <2>1, StepKeeps DEF RequireRuntimeState, TypeOK
<1>6. CASE Enqueue(p)
  <2>1. /\ file.schema = "current" /\ command[p] = "serve" /\ file.administrator # None
        /\ \A secret \in file.sealed : SecretOf[p] = secret
    BY <1>0, <1>6 DEF Enqueue, FileOf, Serving, Decrypts
  <2>a. file \in Current
    BY <1>0, <2>1, CurrentDatabase DEF TypeOK
  <2>2. /\ file' \in Databases /\ file'.schema = "current" /\ file'.creator = file.creator
        /\ file'.administrator = file.administrator
        /\ file'.sealed = file.sealed \cup {SecretOf[p]}
    BY <1>6, <2>a, StartupAssumption DEF Enqueue, Current, Databases
  <2>3. Goto(p, "serving")
    BY <1>0, <1>6 DEF Enqueue, Goto, TypeOK
  <2>4. FileOf(p)'
    BY <1>6, <1>a, <2>1, <2>2, <2>3 DEF Enqueue, FileOf, Making, Serving, Decrypts
  <2>5. HistoryInv'
    BY <1>0, <1>6, <2>1, <2>2 DEF Enqueue, HistoryInv, IdentityKept, AdministratorKept
  <2>. QED  BY <1>0, <1>6, <2>1, <2>2, <2>3, <2>4, <2>5, StepKeeps DEF Enqueue, TypeOK
<1>. QED  BY <1>1, <1>2, <1>3, <1>4, <1>5, <1>6 DEF WorkStep

\* Locks and file go together, at every step of every process.
THEOREM StartupInvariant == Spec => []StartupInv
<1>1. StartupInv /\ UNCHANGED vars => StartupInv'
  BY DEF vars, StartupInv, TypeOK, FlockInv, LocksOf, FileOf, HistoryInv, IdentityKept,
         AdministratorKept, Creates
<1>2. StartupInv /\ [Next]_vars => StartupInv'
  BY <1>1, LockStepKeeps, OpenStepKeeps, WorkStepKeeps DEF Next
<1>. QED  BY InitStartup, <1>2, PTL DEF Spec

\* Servers exclude each other and the administrator's commands.
THEOREM WritersApart == Spec => []WritersAlone
<1>1. StartupInv => WritersAlone
  BY LockedApart DEF WritersAlone, Open, Locked
<1>. QED  BY <1>1, StartupInvariant, PTL

\* A Manager that is relied on keeps its database and identity.
THEOREM IdentityStays == Spec => []IdentityKept
BY StartupInvariant, PTL DEF StartupInv, HistoryInv

\* The administrator reported as ready stays the administrator.
THEOREM AdministratorStays == Spec => []AdministratorKept
BY StartupInvariant, PTL DEF StartupInv, HistoryInv

\* The types of processes, locks and database.
THEOREM TypeCorrect == Spec => []TypeOK
BY StartupInvariant, PTL DEF StartupInv

\* A database's operations are of one key, which every server that serves them has.
THEOREM OneKeyForAll == Spec => []OneKey
<1>1. StartupInv => OneKey
  BY DEF StartupInv, HistoryInv, FileOf, Serving, OneKey
<1>. QED  BY <1>1, StartupInvariant, PTL

\* A file without a schema, once its creator has ended, is not changed by anyone.
THEOREM RefusedStays == Spec => RefusedUntouched
<1>1. StartupInv /\ [Next]_vars =>
        [file.schema = "empty" /\ at[file.creator] = "ended" => UNCHANGED file]_vars
  <2>. SUFFICES ASSUME StartupInv, Next, file.schema = "empty", at[file.creator] = "ended"
                PROVE  UNCHANGED file
    BY DEF vars
  <2>1. PICK p \in Processes : LockStep(p) \/ OpenStep(p) \/ WorkStep(p)
    BY DEF Next
  <2>2. FileOf(p)
    BY DEF StartupInv
  <2>3. CASE LockStep(p)
    BY <2>3 DEF LockStep, LockInstance, LockMaintenance, StartCommand, Exit
  <2>4. CASE OpenStep(p)
    BY <2>2, <2>4 DEF OpenStep, CreateFile, Initialize, Checkpoint, FailInitialization,
       RemoveSidecars, RemoveFile, OpenExisting, NoFile, FileOf, Making
  <2>5. CASE WorkStep(p)
    BY <2>2, <2>5 DEF WorkStep, RequireRuntimeState, CountAdministrators,
       BootstrapAdministrator, StartServing, Enqueue, AdminCreate, FileOf, Serving
  <2>. QED  BY <2>1, <2>3, <2>4, <2>5
<1>. QED  BY <1>1, StartupInvariant, PTL DEF Spec, RefusedUntouched
==============================================================================
