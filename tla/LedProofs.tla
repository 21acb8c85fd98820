------------------------------ MODULE LedProofs ------------------------------
(***************************************************************************)
(* The safety of the LED driver and of its clients, for every set of       *)
(* processes and of lines.  LedInv relates where the processes are to the  *)
(* device files, to the mutex, to the lines and to the memory of the       *)
(* driver.                                                                 *)
(***************************************************************************)
EXTENDS LedClient, FiniteSetTheorems, TLAPS

Held == {p \in Ports : user[p] = "driver"}

\* A process whose object can send commands
Starters == {c \in Clients : at[c] \in {"object", "setting", "stopping"} /\ f_[c] = "greater"}

\* A process that has an open file with number 0, which its object takes for none
Forgetters == {c \in Clients : at[c] \in {"object", "outside"} /\ <<c, "zero">> \in files}

\* Where a process is, what Led::f_ is then, and whether that file is open
PlaceInv ==
  \A c \in Clients :
    /\ at[c] \in {"outside", "dying", "lost"} => f_[c] = "zero"
    /\ at[c] \in {"opened", "closing"} \cup Commands => f_[c] \in Numbers /\ File(c) \in files
    /\ at[c] \in {"setting", "stopping"} => f_[c] = "greater"
    /\ at[c] = "object" /\ f_[c] = "greater" => File(c) \in files
    /\ <<c, "greater">> \in files => f_[c] = "greater" \/ at[c] = "dying"
    /\ at[c] = "dying" => crashes > 0

\* The mutex is held for one file, or free without one; without a module there is neither
MutexInv ==
  /\ ~early => IF device_mutex THEN \E x \in Clients \X Numbers : files = {x} ELSE files = {}
  /\ module \in {"out", "made"} /\ ~early => ~device_mutex
  /\ module = "out" => ~early /\ files = {} /\ ~initialized

\* One process at most is inside of a command; two only after an early open
RaceInv ==
  /\ raced => early
  /\ ~raced => \A c, d \in Clients : at[c] \in Commands /\ at[d] \in Commands => c = d

\* One process has started a driver that is initialized, or has forgotten its file, or has
\* died, or was denied its lines
StarterInv ==
  /\ \A c, d \in Starters : c = d
  /\ Starters # {} => initialized /\ ~denied
  /\ \A c \in Clients : at[c] = "starting" => ~initialized
  /\ initialized /\ ~denied => crashes > 0 \/ early \/ Starters # {} \/ Forgetters # {}

\* The lines that the driver holds, and their levels
LineInv ==
  /\ ~initialized \/ denied => Held = abandoned
  /\ initialized /\ ~denied => Held = leds \cup abandoned /\ leds \cap abandoned = {}
  /\ initialized /\ isSet => \A p \in leds \cap Held : level[p] <=> p \in led_state

\* An array that was given back is given back again only if no line was asked for
MemoryInv ==
  /\ initialized /\ array = "freed" => leds = {}
  /\ corrupted => leds = {} \/ orphans # {}

LedInv ==
  TypeOK /\ PlaceInv /\ MutexInv /\ RaceInv /\ StarterInv /\ LineInv /\ MemoryInv

-----------------------------------------------------------------------------

\* What the bound on deaths gives.
LEMMA CrashCount ==
  ASSUME TypeOK
  PROVE  crashes \in Nat /\ (crashes < MaxCrashes => crashes + 1 \in 0 .. MaxCrashes)
<1>1. crashes \in 0 .. MaxCrashes
  BY DEF TypeOK
<1>2. MaxCrashes \in Nat
  BY LedAssumption DEF LedAssumption
<1> QED
  BY <1>1, <1>2

\* Membership is a truth value.
LEMMA Members == ASSUME NEW e, NEW S PROVE (e \in S) \in BOOLEAN
  BY SMT

Places == {"outside", "opened", "object", "closing", "dying", "lost"} \cup Commands

\* Moving a process to a place keeps the type of at.
LEMMA MoveType ==
  ASSUME TypeOK, NEW c, NEW place \in Places, at' = [at EXCEPT ![c] = place]
  PROVE  at' \in [Clients -> Places]
  BY DEF TypeOK, Places

\* A death is counted.
LEMMA DeathCount ==
  ASSUME TypeOK, NEW c, Dies(c)
  PROVE  crashes' \in 0 .. MaxCrashes /\ crashes' > 0
<1>1. crashes \in Nat /\ crashes' = crashes + 1 /\ crashes + 1 \in 0 .. MaxCrashes
  BY CrashCount DEF Dies
<1> QED
  BY <1>1

\* A command keeps the types.
LEMMA CommandType ==
  ASSUME TypeOK, NEW c, NEW operation, NEW from, NEW to \in Places, NEW refused \in Places,
         Command(c, operation, from, to, refused)
  PROVE  TypeOK'
<1>1. at' \in [Clients -> Places]
  BY MoveType DEF Command, Move
<1>2. raced' \in BOOLEAN
  <2>1. (\E d \in Clients : at[d] \in Commands) \in BOOLEAN
    OBVIOUS
  <2> QED
    BY <2>1 DEF TypeOK, Command
<1>3. UNCHANGED <<driverVars, f_, mask_, fileVars, historyVars>>
  BY DEF Command
<1> QED
  BY <1>1, <1>2, <1>3
  DEF TypeOK, Driver!TypeOK, Places, driverVars, fileVars, historyVars

\* Unless the device was opened early, it is open in one process at most.
LEMMA OneOpener ==
  ASSUME MutexInv, ~early, NEW c, NEW d, NEW m, NEW n, <<c, m>> \in files, <<d, n>> \in files
  PROVE  c = d
<1>1. PICK x : files = {x}
  BY DEF MutexInv
<1> QED
  BY <1>1

\* That file is the only one.
LEMMA LastFile ==
  ASSUME MutexInv, ~early, NEW x \in files
  PROVE  files \ {x} = {}
<1>1. PICK y : files = {y}
  BY DEF MutexInv
<1> QED
  BY <1>1

\* Steps that take nobody into a command keep processes apart.
LEMMA StayApart ==
  ASSUME RaceInv, ~raced, raced' = raced,
         \A d \in Clients : at'[d] \in Commands => at[d] \in Commands
  PROVE  RaceInv'
  BY DEF RaceInv

\* A step that neither starts nor stops the driver keeps who has started it.
LEMMA StarterKept ==
  ASSUME StarterInv, UNCHANGED <<initialized, denied>>, Starters' \subseteq Starters,
         \A d \in Clients : at'[d] = "starting" => at[d] = "starting",
         crashes > 0 \/ early => crashes' > 0 \/ early',
         \/ crashes' > 0 \/ early' \/ Starters' # {}
         \/ Starters \subseteq Starters' /\ Forgetters \subseteq Forgetters'
  PROVE  StarterInv'
<1>1. /\ \A c, d \in Starters' : c = d
      /\ Starters' # {} => initialized' /\ ~denied'
      /\ \A c \in Clients : at'[c] = "starting" => ~initialized'
  BY DEF StarterInv
<1>2. initialized' /\ ~denied' =>
        crashes' > 0 \/ early' \/ Starters' # {} \/ Forgetters' # {}
  BY DEF StarterInv
<1> QED
  BY <1>1, <1>2 DEF StarterInv

\* A command that a process with an open file calls finds another inside only after an early
\* open.
LEMMA CommandRace ==
  ASSUME PlaceInv, MutexInv, RaceInv, ~raced, at \in [Clients -> Places],
         NEW c \in Clients, NEW operation, NEW from \in Places \ Commands,
         NEW to \in Places, NEW refused \in Places \ Commands, File(c) \in files,
         Command(c, operation, from, to, refused)
  PROVE  RaceInv'
<1>1. at[c] = from /\ UNCHANGED early
  BY DEF Command, Move, historyVars
<1>2. \A d \in Clients : at[d] \in Commands => d # c /\ File(d) \in files
  BY <1>1 DEF PlaceInv
<1>3. early \/ ~\E d \in Clients : at[d] \in Commands
  BY <1>2, OneOpener DEF File
<1>4. raced' => early'
  BY <1>1, <1>3 DEF Command
<1>5. ASSUME ~raced', NEW d \in Clients, NEW e \in Clients, at'[d] \in Commands,
             at'[e] \in Commands
      PROVE  d = e
  <2>1. CASE Driver!Refuses(operation)
    <3>1. at' = [at EXCEPT ![c] = refused]
      BY <2>1 DEF Command, Move
    <3>2. d # c /\ e # c /\ at'[d] = at[d] /\ at'[e] = at[e]
      BY <3>1, <1>5
    <3> QED
      BY <1>5, <3>2 DEF RaceInv
  <2>2. CASE ~Driver!Refuses(operation)
    <3>1. at' = [at EXCEPT ![c] = to] /\ raced' = \E o \in Clients : at[o] \in Commands
      BY <2>2 DEF Command, Move
    <3>2. \A o \in Clients : o # c => at'[o] = at[o]
      BY <3>1
    <3> QED
      BY <1>5, <3>1, <3>2
  <2> QED
    BY <2>1, <2>2
<1> QED
  BY <1>4, <1>5 DEF RaceInv

\* Every step keeps the types.
LEMMA StepTypeOK == ASSUME LedInv, Next PROVE TypeOK'
<1> USE DEF LedInv, TypeOK, Driver!TypeOK
<1>0. ~corrupted /\ ~raced
  BY DEF Next
<1>1. ASSUME NEW c \in Clients, NEW p \in Ports \cup {BadPort}, SetState(c, p) PROVE TypeOK'
  BY <1>0, <1>1 DEF SetState, driverVars, fileVars, historyVars
<1>2. ASSUME NEW c \in Clients, NEW n \in Numbers, NEW ports \in SUBSET Ports, Open(c, n, ports)
      PROVE TypeOK'
  <2>1. at' \in [Clients -> Places]
    BY <1>2, MoveType DEF Open, Move, Places
  <2>2. f_' \in [Clients -> {"minus one"} \cup Numbers] /\ files' \subseteq Clients \X Numbers
    <3>1. f_' = [f_ EXCEPT ![c] = n] /\ files' = files \cup {<<c, n>>}
      BY <1>2 DEF Open
    <3>2. f_ \in [Clients -> {"minus one"} \cup Numbers] /\ files \subseteq Clients \X Numbers
      OBVIOUS
    <3>3. <<c, n>> \in Clients \X Numbers
      OBVIOUS
    <3>4. files' \subseteq Clients \X Numbers
      BY <3>1, <3>2, <3>3, Zenon
    <3> QED
      BY <3>1, <3>2, <3>4
  <2>3. /\ mask_' \in [Clients -> SUBSET Ports] /\ early' \in BOOLEAN
        /\ UNCHANGED <<orphans, raced, crashes, denied>>
    BY <1>2 DEF Open
  <2>4. Driver!TypeOK'
    BY <1>2 DEF Open, Driver!DevOpen, Driver!memVars, Driver!lineVars
  <2> QED
    BY <2>1, <2>2, <2>3, <2>4 DEF Places
<1>3. ASSUME NEW c \in Clients, OpenFails(c) PROVE TypeOK'
  BY <1>0, <1>3 DEF OpenFails, Move, driverVars, fileVars, historyVars
<1>4. ASSUME NEW c \in Clients, CallStart(c) PROVE TypeOK'
  BY <1>4, CommandType DEF CallStart, Places, Commands
<1>5. ASSUME NEW c \in Clients, Start(c) PROVE TypeOK'
  <2>1. CASE Move(c, "starting", "object") /\ Driver!StartGranted(mask_[c]) /\ denied' = FALSE
    BY <1>0, <1>5, <2>1 DEF Start, Move, Driver!StartGranted, Driver!Start, Driver!Available,
        Driver!Lower, fileVars
  <2>2. CASE Move(c, "starting", "closing") /\ Driver!StartDenied(mask_[c]) /\ denied' = TRUE
    BY <1>0, <1>5, <2>2 DEF Start, Move, Driver!StartDenied, Driver!Start, Driver!Available,
        Driver!Lower, fileVars
  <2> QED
    BY <1>5, <2>1, <2>2 DEF Start
<1>6. ASSUME NEW c \in Clients, Close(c) PROVE TypeOK'
  <2>1. at' \in [Clients -> Places]
    BY <1>6, MoveType DEF Close, Move, Places
  <2>2. files' \subseteq Clients \X Numbers /\ f_' \in [Clients -> {"minus one"} \cup Numbers]
    BY <1>6 DEF Close, Numbers
  <2>3. Driver!TypeOK'
    BY <1>6 DEF Close, Driver!DevRelease, Driver!memVars, Driver!lineVars
  <2> QED
    BY <1>6, <2>1, <2>2, <2>3 DEF Close, historyVars, Places
<1>7. ASSUME NEW c \in Clients, CallSet(c) PROVE TypeOK'
  BY <1>7, CommandType DEF CallSet, Places, Commands
<1>8. ASSUME NEW c \in Clients, Set(c) PROVE TypeOK'
  <2>1. mask_[c] \in SUBSET Ports
    OBVIOUS
  <2>2. level' \in [Ports -> BOOLEAN]
    <3>1. level' = [p \in Ports |-> IF p \in leds THEN p \in mask_[c] ELSE level[p]]
      BY <1>8 DEF Set, Driver!Set
    <3>2. \A p \in Ports : level'[p] \in BOOLEAN
      BY <3>1, Members
    <3>3. level' = [p \in Ports |-> level'[p]]
      BY <3>1
    <3> QED
      BY <3>2, <3>3
  <2>3. at' \in [Clients -> Places]
    BY <1>8, MoveType DEF Set, Move, Places
  <2>4. UNCHANGED <<module, device_mutex, initialized, leds, array, corrupted, user, abandoned,
                   f_, mask_, raced, crashes, denied, early, files, orphans>>
    BY <1>8 DEF Set, Driver!Set, fileVars, historyVars, Driver!memVars
  <2>5. led_state' = mask_[c] /\ isSet' = TRUE
    BY <1>8 DEF Set, Driver!Set
  <2> QED
    BY <2>1, <2>2, <2>3, <2>4, <2>5 DEF Places
<1>9. ASSUME NEW c \in Clients, Get(c) PROVE TypeOK'
  BY <1>0, <1>9 DEF Get, Usable, Driver!DevRead, driverVars, fileVars, historyVars
<1>10. ASSUME NEW c \in Clients, CallStop(c) PROVE TypeOK'
  BY <1>10, CommandType DEF CallStop, Places, Commands
<1>11. ASSUME NEW c \in Clients, Stop(c) PROVE TypeOK'
  BY <1>0, <1>11 DEF Stop, Move, Driver!Stop, Driver!Lower, fileVars, historyVars
<1>12. ASSUME NEW c \in Clients, Leave(c) PROVE TypeOK'
  <2>1. at' \in [Clients -> Places]
    BY <1>12, MoveType DEF Leave, Move, Places
  <2> QED
    BY <1>12, <2>1 DEF Leave, driverVars, fileVars, historyVars, Places, Numbers
<1>13. ASSUME NEW c \in Clients, Crash(c) PROVE TypeOK'
  <2>1. crashes' \in 0 .. MaxCrashes
    BY <1>13, DeathCount DEF Crash
  <2>2. at' \in [Clients -> Places]
    BY <1>13, MoveType DEF Crash, Dies, Places
  <2> QED
    BY <1>13, <2>1, <2>2 DEF Crash, Dies, driverVars, fileVars, Places, Numbers
<1>14. ASSUME NEW c \in Clients, KilledInside(c) PROVE TypeOK'
  <2>1. crashes' \in 0 .. MaxCrashes
    BY <1>14, DeathCount DEF KilledInside
  <2>2. at' \in [Clients -> Places]
    BY <1>14, MoveType DEF KilledInside, Dies, Places
  <2>3. Driver!TypeOK'
    BY <1>14 DEF KilledInside, Driver!StartKilled, Driver!lineVars
  <2> QED
    BY <1>14, <2>1, <2>2, <2>3 DEF KilledInside, Dies, fileVars, Places, Numbers
<1>15. ASSUME NEW c \in Clients, NEW n \in Numbers, CloseAtExit(c, n) PROVE TypeOK'
  BY <1>0, <1>15 DEF CloseAtExit, Driver!DevRelease, Driver!memVars, Driver!lineVars,
      historyVars
<1>16. ASSUME LoadModule PROVE TypeOK'
  BY <1>0, <1>16 DEF LoadModule, Driver!MakeDevice, Driver!memVars, Driver!lineVars, fileVars,
      historyVars
<1>17. ASSUME FinishLoading PROVE TypeOK'
  BY <1>0, <1>17 DEF FinishLoading, Driver!InitMutex, Driver!memVars, Driver!lineVars, fileVars,
      historyVars
<1>18. ASSUME UnloadModule PROVE TypeOK'
  <2>1. Driver!TypeOK'
    BY <1>18 DEF UnloadModule, Driver!Exit
  <2> DEFINE lost == {c \in Clients : Serves(c) /\ ~Forgotten(c)}
  <2>2. /\ at' = [c \in Clients |-> IF c \in lost THEN "lost" ELSE at[c]]
        /\ f_' = [c \in Clients |-> IF c \in lost THEN "zero" ELSE f_[c]]
        /\ mask_' = [c \in Clients |-> IF c \in lost THEN {} ELSE mask_[c]]
    BY <1>18 DEF UnloadModule
  <2>3. /\ orphans' = orphans \cup files /\ files' = {}
        /\ early' = FALSE /\ denied' = FALSE /\ UNCHANGED <<raced, crashes>>
    BY <1>18 DEF UnloadModule
  <2> HIDE DEF lost
  <2>4. /\ at' \in [Clients -> Places]
        /\ f_' \in [Clients -> {"minus one"} \cup Numbers]
        /\ mask_' \in [Clients -> SUBSET Ports]
    BY <2>2 DEF Places, Numbers
  <2> QED
    BY <2>1, <2>3, <2>4 DEF Places
<1>19. ASSUME NEW c \in Clients, OrphanCalls(c) PROVE TypeOK'
  BY <1>0, <1>19 DEF OrphanCalls, fileVars, historyVars
<1>20. ASSUME NEW p \in Ports, Other(p) PROVE TypeOK'
  BY <1>0, <1>20 DEF Other, Driver!OtherRequests, Driver!OtherFrees, Driver!memVars, fileVars,
      historyVars
<1> QED
  BY <1>1, <1>2, <1>3, <1>4, <1>5, <1>6, <1>7, <1>8, <1>9, <1>10, <1>11, <1>12, <1>13, <1>14,
     <1>15, <1>16, <1>17, <1>18, <1>19, <1>20
  DEF Next

\* Every step keeps the relation between the places and the files.
LEMMA StepPlaceInv == ASSUME LedInv, Next PROVE PlaceInv'
<1> USE DEF LedInv, TypeOK, Driver!TypeOK, PlaceInv, Commands, Numbers, File
<1>0. ~corrupted /\ ~raced
  BY DEF Next
<1>1. ASSUME NEW c \in Clients, NEW p \in Ports \cup {BadPort}, SetState(c, p) PROVE PlaceInv'
  BY <1>0, <1>1 DEF SetState, driverVars, fileVars, historyVars
<1>2. ASSUME NEW c \in Clients, NEW n \in Numbers, NEW ports \in SUBSET Ports, Open(c, n, ports)
      PROVE PlaceInv'
  BY <1>0, <1>2 DEF Open, Move, Driver!DevOpen, Driver!memVars, Driver!lineVars
<1>3. ASSUME NEW c \in Clients, OpenFails(c) PROVE PlaceInv'
  BY <1>0, <1>3 DEF OpenFails, Move, driverVars, fileVars, historyVars
<1>4. ASSUME NEW c \in Clients, CallStart(c) PROVE PlaceInv'
  BY <1>0, <1>4 DEF CallStart, Command, Move, Driver!Refuses, driverVars, fileVars, historyVars
<1>5. ASSUME NEW c \in Clients, Start(c) PROVE PlaceInv'
  <2>1. CASE Move(c, "starting", "object") /\ Driver!StartGranted(mask_[c]) /\ denied' = FALSE
    BY <1>0, <1>5, <2>1 DEF Start, Move, Driver!StartGranted, Driver!Start, Driver!Available,
        Driver!Lower, fileVars
  <2>2. CASE Move(c, "starting", "closing") /\ Driver!StartDenied(mask_[c]) /\ denied' = TRUE
    BY <1>0, <1>5, <2>2 DEF Start, Move, Driver!StartDenied, Driver!Start, Driver!Available,
        Driver!Lower, fileVars
  <2> QED
    BY <1>5, <2>1, <2>2 DEF Start
<1>6. ASSUME NEW c \in Clients, Close(c) PROVE PlaceInv'
  BY <1>0, <1>6 DEF Close, Move, Driver!DevRelease, Driver!memVars, Driver!lineVars, historyVars
<1>7. ASSUME NEW c \in Clients, CallSet(c) PROVE PlaceInv'
  BY <1>0, <1>7 DEF CallSet, Usable, Command, Move, Driver!Refuses, driverVars, fileVars,
      historyVars
<1>8. ASSUME NEW c \in Clients, Set(c) PROVE PlaceInv'
  BY <1>0, <1>8 DEF Set, Move, Driver!Set, Driver!memVars, fileVars, historyVars
<1>9. ASSUME NEW c \in Clients, Get(c) PROVE PlaceInv'
  BY <1>0, <1>9 DEF Get, Usable, Driver!DevRead, driverVars, fileVars, historyVars
<1>10. ASSUME NEW c \in Clients, CallStop(c) PROVE PlaceInv'
  BY <1>0, <1>10 DEF CallStop, Usable, Command, Move, Driver!Refuses, driverVars, fileVars,
      historyVars
<1>11. ASSUME NEW c \in Clients, Stop(c) PROVE PlaceInv'
  BY <1>0, <1>11 DEF Stop, Move, Driver!Stop, Driver!Lower, fileVars, historyVars
<1>12. ASSUME NEW c \in Clients, Leave(c) PROVE PlaceInv'
  BY <1>0, <1>12 DEF Leave, Usable, Move, driverVars, fileVars, historyVars
<1>13. ASSUME NEW c \in Clients, Crash(c) PROVE PlaceInv'
  <2>1. crashes' > 0
    BY <1>13, DeathCount DEF Crash
  <2> QED
    BY <1>13, <2>1 DEF Crash, Dies, driverVars, fileVars
<1>14. ASSUME NEW c \in Clients, KilledInside(c) PROVE PlaceInv'
  <2>1. crashes' > 0
    BY <1>14, DeathCount DEF KilledInside
  <2> QED
    BY <1>14, <2>1 DEF KilledInside, Dies, Driver!StartKilled, Driver!lineVars, fileVars
<1>15. ASSUME NEW c \in Clients, NEW n \in Numbers, CloseAtExit(c, n) PROVE PlaceInv'
  BY <1>0, <1>15 DEF CloseAtExit, Driver!DevRelease, Driver!memVars, Driver!lineVars,
      historyVars
<1>16. ASSUME LoadModule PROVE PlaceInv'
  BY <1>0, <1>16 DEF LoadModule, Driver!MakeDevice, Driver!memVars, Driver!lineVars, fileVars,
      historyVars
<1>17. ASSUME FinishLoading PROVE PlaceInv'
  BY <1>0, <1>17 DEF FinishLoading, Driver!InitMutex, Driver!memVars, Driver!lineVars, fileVars,
      historyVars
<1>18. ASSUME UnloadModule PROVE PlaceInv'
  BY <1>0, <1>18 DEF UnloadModule, Driver!Exit, Serves, Forgotten
<1>19. ASSUME NEW c \in Clients, OrphanCalls(c) PROVE PlaceInv'
  BY <1>0, <1>19 DEF OrphanCalls, fileVars, historyVars
<1>20. ASSUME NEW p \in Ports, Other(p) PROVE PlaceInv'
  BY <1>0, <1>20 DEF Other, Driver!OtherRequests, Driver!OtherFrees, Driver!memVars, fileVars,
      historyVars
<1> QED
  BY <1>1, <1>2, <1>3, <1>4, <1>5, <1>6, <1>7, <1>8, <1>9, <1>10, <1>11, <1>12, <1>13, <1>14,
     <1>15, <1>16, <1>17, <1>18, <1>19, <1>20
  DEF Next

\* Every step keeps the mutex with its file.
LEMMA StepMutexInv == ASSUME LedInv, Next PROVE MutexInv'
<1> USE DEF LedInv, TypeOK, Driver!TypeOK, PlaceInv, MutexInv, Commands, Numbers, File
<1>0. ~corrupted /\ ~raced
  BY DEF Next
<1>1. ASSUME NEW c \in Clients, NEW p \in Ports \cup {BadPort}, SetState(c, p) PROVE MutexInv'
  BY <1>0, <1>1 DEF SetState, driverVars, fileVars, historyVars
<1>2. ASSUME NEW c \in Clients, NEW n \in Numbers, NEW ports \in SUBSET Ports, Open(c, n, ports)
      PROVE MutexInv'
  <2>1. /\ files' = files \cup {<<c, n>>} /\ early' = (early \/ module = "made")
        /\ module # "out" /\ ~device_mutex /\ device_mutex' = TRUE
        /\ UNCHANGED <<module, initialized>>
    BY <1>2 DEF Open, Driver!DevOpen
  <2>2. ~early' => files' = {<<c, n>>} /\ module' = "in"
    BY <2>1
  <2> QED
    BY <2>1, <2>2
<1>3. ASSUME NEW c \in Clients, OpenFails(c) PROVE MutexInv'
  BY <1>0, <1>3 DEF OpenFails, Move, driverVars, fileVars, historyVars
<1>4. ASSUME NEW c \in Clients, CallStart(c) PROVE MutexInv'
  BY <1>0, <1>4 DEF CallStart, Command, Move, Driver!Refuses, driverVars, fileVars, historyVars
<1>5. ASSUME NEW c \in Clients, Start(c) PROVE MutexInv'
  <2>1. CASE Move(c, "starting", "object") /\ Driver!StartGranted(mask_[c]) /\ denied' = FALSE
    BY <1>0, <1>5, <2>1 DEF Start, Move, Driver!StartGranted, Driver!Start, Driver!Available,
        Driver!Lower, fileVars
  <2>2. CASE Move(c, "starting", "closing") /\ Driver!StartDenied(mask_[c]) /\ denied' = TRUE
    BY <1>0, <1>5, <2>2 DEF Start, Move, Driver!StartDenied, Driver!Start, Driver!Available,
        Driver!Lower, fileVars
  <2> QED
    BY <1>5, <2>1, <2>2 DEF Start
<1>6. ASSUME NEW c \in Clients, Close(c) PROVE MutexInv'
  <2>1. /\ files' = files \ {File(c)} /\ device_mutex' = FALSE
        /\ UNCHANGED <<early, module, initialized>>
    BY <1>6 DEF Close, Driver!DevRelease, historyVars
  <2>2. File(c) \in files
    BY <1>6 DEF Close, Move
  <2> HIDE DEF MutexInv
  <2>3. ~early' => files' = {}
    BY <2>1, <2>2, LastFile
  <2> QED
    BY <2>1, <2>3 DEF MutexInv
<1>7. ASSUME NEW c \in Clients, CallSet(c) PROVE MutexInv'
  BY <1>0, <1>7 DEF CallSet, Usable, Command, Move, Driver!Refuses, driverVars, fileVars,
      historyVars
<1>8. ASSUME NEW c \in Clients, Set(c) PROVE MutexInv'
  BY <1>0, <1>8 DEF Set, Move, Driver!Set, Driver!memVars, fileVars, historyVars
<1>9. ASSUME NEW c \in Clients, Get(c) PROVE MutexInv'
  BY <1>0, <1>9 DEF Get, Usable, Driver!DevRead, driverVars, fileVars, historyVars
<1>10. ASSUME NEW c \in Clients, CallStop(c) PROVE MutexInv'
  BY <1>0, <1>10 DEF CallStop, Usable, Command, Move, Driver!Refuses, driverVars, fileVars,
      historyVars
<1>11. ASSUME NEW c \in Clients, Stop(c) PROVE MutexInv'
  BY <1>0, <1>11 DEF Stop, Move, Driver!Stop, Driver!Lower, fileVars, historyVars
<1>12. ASSUME NEW c \in Clients, Leave(c) PROVE MutexInv'
  BY <1>0, <1>12 DEF Leave, Usable, Move, driverVars, fileVars, historyVars
<1>13. ASSUME NEW c \in Clients, Crash(c) PROVE MutexInv'
  BY <1>0, <1>13 DEF Crash, Dies, driverVars, fileVars
<1>14. ASSUME NEW c \in Clients, KilledInside(c) PROVE MutexInv'
  BY <1>0, <1>14 DEF KilledInside, Dies, Driver!StartKilled, Driver!lineVars, fileVars
<1>15. ASSUME NEW c \in Clients, NEW n \in Numbers, CloseAtExit(c, n) PROVE MutexInv'
  <2>1. /\ files' = files \ {<<c, n>>} /\ device_mutex' = FALSE /\ <<c, n>> \in files
        /\ UNCHANGED <<early, module, initialized>>
    BY <1>15 DEF CloseAtExit, Driver!DevRelease, historyVars
  <2> HIDE DEF MutexInv
  <2>2. ~early' => files' = {}
    BY <2>1, LastFile
  <2> QED
    BY <2>1, <2>2 DEF MutexInv
<1>16. ASSUME LoadModule PROVE MutexInv'
  BY <1>0, <1>16 DEF LoadModule, Driver!MakeDevice, Driver!memVars, Driver!lineVars, fileVars,
      historyVars
<1>17. ASSUME FinishLoading PROVE MutexInv'
  BY <1>0, <1>17 DEF FinishLoading, Driver!InitMutex, Driver!memVars, Driver!lineVars, fileVars,
      historyVars
<1>18. ASSUME UnloadModule PROVE MutexInv'
  BY <1>0, <1>18 DEF UnloadModule, Driver!Exit, Serves, Forgotten
<1>19. ASSUME NEW c \in Clients, OrphanCalls(c) PROVE MutexInv'
  BY <1>0, <1>19 DEF OrphanCalls, fileVars, historyVars
<1>20. ASSUME NEW p \in Ports, Other(p) PROVE MutexInv'
  <2>1. UNCHANGED <<module, device_mutex, initialized, early, files>>
    BY <1>20 DEF Other, Driver!OtherRequests, Driver!OtherFrees, fileVars, historyVars
  <2> QED
    BY <2>1
<1> QED
  BY <1>1, <1>2, <1>3, <1>4, <1>5, <1>6, <1>7, <1>8, <1>9, <1>10, <1>11, <1>12, <1>13, <1>14,
     <1>15, <1>16, <1>17, <1>18, <1>19, <1>20
  DEF Next

\* Every step keeps two processes apart.
LEMMA StepRaceInv == ASSUME LedInv, Next PROVE RaceInv'
<1> USE DEF LedInv
<1>0. /\ ~corrupted /\ ~raced /\ at \in [Clients -> Places]
      /\ f_ \in [Clients -> {"minus one"} \cup Numbers] /\ TypeOK
  BY DEF Next, TypeOK, Places
<1>1. ASSUME NEW c \in Clients, NEW p \in Ports \cup {BadPort}, SetState(c, p) PROVE RaceInv'
  <2>1. UNCHANGED <<at, raced>>
    BY <1>1 DEF SetState
  <2> QED
    BY <1>0, <2>1, StayApart
<1>2. ASSUME NEW c \in Clients, NEW n \in Numbers, NEW ports \in SUBSET Ports, Open(c, n, ports)
      PROVE RaceInv'
  <2>1. at' = [at EXCEPT ![c] = "opened"] /\ UNCHANGED raced
    BY <1>2 DEF Open, Move
  <2>2. \A d \in Clients : at'[d] \in Commands => at[d] \in Commands
    BY <1>0, <2>1 DEF Commands
  <2> QED
    BY <1>0, <2>1, <2>2, StayApart
<1>3. ASSUME NEW c \in Clients, OpenFails(c) PROVE RaceInv'
  <2>1. at' = [at EXCEPT ![c] = "object"] /\ UNCHANGED raced
    BY <1>3 DEF OpenFails, Move
  <2>2. \A d \in Clients : at'[d] \in Commands => at[d] \in Commands
    BY <1>0, <2>1 DEF Commands
  <2> QED
    BY <1>0, <2>1, <2>2, StayApart
<1>4. ASSUME NEW c \in Clients, CallStart(c) PROVE RaceInv'
  <2>1. File(c) \in files
    BY <1>4 DEF CallStart, Usable, Command, Move, PlaceInv, Commands
  <2> QED
    BY <1>0, <1>4, <2>1, CommandRace DEF CallStart, Places, Commands
<1>5. ASSUME NEW c \in Clients, Start(c) PROVE RaceInv'
  <2>1. PICK to \in {"object", "closing"} : at' = [at EXCEPT ![c] = to] /\ UNCHANGED raced
    BY <1>5 DEF Start, Move
  <2>2. \A d \in Clients : at'[d] \in Commands => at[d] \in Commands
    BY <1>0, <2>1 DEF Commands
  <2> QED
    BY <1>0, <2>1, <2>2, StayApart
<1>6. ASSUME NEW c \in Clients, Close(c) PROVE RaceInv'
  <2>1. at' = [at EXCEPT ![c] = "object"] /\ UNCHANGED raced
    BY <1>6 DEF Close, Move
  <2>2. \A d \in Clients : at'[d] \in Commands => at[d] \in Commands
    BY <1>0, <2>1 DEF Commands
  <2> QED
    BY <1>0, <2>1, <2>2, StayApart
<1>7. ASSUME NEW c \in Clients, CallSet(c) PROVE RaceInv'
  <2>1. File(c) \in files
    BY <1>7 DEF CallSet, Usable, Command, Move, PlaceInv, Commands
  <2> QED
    BY <1>0, <1>7, <2>1, CommandRace DEF CallSet, Places, Commands
<1>8. ASSUME NEW c \in Clients, Set(c) PROVE RaceInv'
  <2>1. at' = [at EXCEPT ![c] = "object"] /\ UNCHANGED raced
    BY <1>8 DEF Set, Move
  <2>2. \A d \in Clients : at'[d] \in Commands => at[d] \in Commands
    BY <1>0, <2>1 DEF Commands
  <2> QED
    BY <1>0, <2>1, <2>2, StayApart
<1>9. ASSUME NEW c \in Clients, Get(c) PROVE RaceInv'
  <2>1. UNCHANGED <<at, raced>>
    BY <1>9 DEF Get
  <2> QED
    BY <1>0, <2>1, StayApart
<1>10. ASSUME NEW c \in Clients, CallStop(c) PROVE RaceInv'
  <2>1. File(c) \in files
    BY <1>10 DEF CallStop, Usable, Command, Move, PlaceInv, Commands
  <2> QED
    BY <1>0, <1>10, <2>1, CommandRace DEF CallStop, Places, Commands
<1>11. ASSUME NEW c \in Clients, Stop(c) PROVE RaceInv'
  <2>1. at' = [at EXCEPT ![c] = "closing"] /\ UNCHANGED raced
    BY <1>11 DEF Stop, Move
  <2>2. \A d \in Clients : at'[d] \in Commands => at[d] \in Commands
    BY <1>0, <2>1 DEF Commands
  <2> QED
    BY <1>0, <2>1, <2>2, StayApart
<1>12. ASSUME NEW c \in Clients, Leave(c) PROVE RaceInv'
  <2>1. at' = [at EXCEPT ![c] = "outside"] /\ UNCHANGED raced
    BY <1>12 DEF Leave, Move
  <2>2. \A d \in Clients : at'[d] \in Commands => at[d] \in Commands
    BY <1>0, <2>1 DEF Commands
  <2> QED
    BY <1>0, <2>1, <2>2, StayApart
<1>13. ASSUME NEW c \in Clients, Crash(c) PROVE RaceInv'
  <2>1. at' = [at EXCEPT ![c] = "dying"] /\ UNCHANGED raced
    BY <1>13 DEF Crash, Dies
  <2>2. \A d \in Clients : at'[d] \in Commands => at[d] \in Commands
    BY <1>0, <2>1 DEF Commands
  <2> QED
    BY <1>0, <2>1, <2>2, StayApart
<1>14. ASSUME NEW c \in Clients, KilledInside(c) PROVE RaceInv'
  <2>1. at' = [at EXCEPT ![c] = "dying"] /\ UNCHANGED raced
    BY <1>14 DEF KilledInside, Dies
  <2>2. \A d \in Clients : at'[d] \in Commands => at[d] \in Commands
    BY <1>0, <2>1 DEF Commands
  <2> QED
    BY <1>0, <2>1, <2>2, StayApart
<1>15. ASSUME NEW c \in Clients, NEW n \in Numbers, CloseAtExit(c, n) PROVE RaceInv'
  <2>1. (at' = at \/ at' = [at EXCEPT ![c] = "outside"]) /\ UNCHANGED raced
    BY <1>15 DEF CloseAtExit
  <2>2. \A d \in Clients : at'[d] \in Commands => at[d] \in Commands
    BY <1>0, <2>1 DEF Commands
  <2> QED
    BY <1>0, <2>1, <2>2, StayApart
<1>16. ASSUME LoadModule PROVE RaceInv'
  <2>1. UNCHANGED <<at, raced>>
    BY <1>16 DEF LoadModule
  <2> QED
    BY <1>0, <2>1, StayApart
<1>17. ASSUME FinishLoading PROVE RaceInv'
  <2>1. UNCHANGED <<at, raced>>
    BY <1>17 DEF FinishLoading
  <2> QED
    BY <1>0, <2>1, StayApart
<1>18. ASSUME UnloadModule PROVE RaceInv'
  <2>1. UNCHANGED raced /\ at' = [c \in Clients |->
          IF c \in {o \in Clients : Serves(o) /\ ~Forgotten(o)} THEN "lost" ELSE at[c]]
    BY <1>18 DEF UnloadModule
  <2>2. \A d \in Clients : at'[d] \in Commands => at[d] \in Commands
    BY <2>1 DEF Commands
  <2> QED
    BY <1>0, <2>1, <2>2, StayApart
<1>19. ASSUME NEW c \in Clients, OrphanCalls(c) PROVE RaceInv'
  <2>1. UNCHANGED <<at, raced>>
    BY <1>19 DEF OrphanCalls
  <2> QED
    BY <1>0, <2>1, StayApart
<1>20. ASSUME NEW p \in Ports, Other(p) PROVE RaceInv'
  <2>1. UNCHANGED <<at, raced>>
    BY <1>20 DEF Other
  <2> QED
    BY <1>0, <2>1, StayApart
<1> QED
  BY <1>1, <1>2, <1>3, <1>4, <1>5, <1>6, <1>7, <1>8, <1>9, <1>10, <1>11, <1>12, <1>13, <1>14,
     <1>15, <1>16, <1>17, <1>18, <1>19, <1>20
  DEF Next

\* Every step keeps the one that has started the driver.
LEMMA StepStarterInv == ASSUME LedInv, Next PROVE StarterInv'
<1> USE DEF LedInv
<1>0. /\ ~corrupted /\ ~raced /\ at \in [Clients -> Places]
      /\ f_ \in [Clients -> {"minus one"} \cup Numbers] /\ TypeOK
  BY DEF Next, TypeOK, Places
<1>1. ASSUME NEW c \in Clients, NEW p \in Ports \cup {BadPort}, SetState(c, p) PROVE StarterInv'
  <2>1. /\ UNCHANGED <<initialized, denied, crashes, early, files>>
        /\ UNCHANGED <<at, f_>>
    BY <1>1 DEF SetState, driverVars, fileVars, historyVars
  <2>2. /\ Starters' = Starters /\ Forgetters \subseteq Forgetters'
        /\ \A d \in Clients : at'[d] = "starting" => at[d] = "starting"
    BY <1>0, <2>1 DEF Starters, Forgetters, File
  <2> QED
    BY <2>1, <2>2, StarterKept
<1>2. ASSUME NEW c \in Clients, NEW n \in Numbers, NEW ports \in SUBSET Ports, Open(c, n, ports)
      PROVE StarterInv'
  <2>1. /\ at[c] = "outside" /\ at' = [at EXCEPT ![c] = "opened"]
        /\ f_' = [f_ EXCEPT ![c] = n] /\ files' = files \cup {<<c, n>>}
        /\ UNCHANGED <<initialized, denied, crashes>> /\ ~device_mutex
        /\ early' = (early \/ module = "made")
    BY <1>2 DEF Open, Move, Driver!DevOpen
  <2>2. early' \/ files = {}
    BY <2>1 DEF MutexInv
  <2>3. /\ Starters' = Starters
        /\ \A d \in Clients : at'[d] = "starting" => at[d] = "starting"
    BY <1>0, <2>1 DEF Starters
  <2>4. early' \/ Forgetters \subseteq Forgetters'
    BY <2>2 DEF Forgetters
  <2> QED
    BY <2>1, <2>3, <2>4, StarterKept
<1>3. ASSUME NEW c \in Clients, OpenFails(c) PROVE StarterInv'
  <2>1. /\ UNCHANGED <<initialized, denied, crashes, early, files>>
        /\ at[c] = "outside" /\ at' = [at EXCEPT ![c] = "object"]
        /\ f_' = [f_ EXCEPT ![c] = "minus one"]
    BY <1>3 DEF OpenFails, Move, driverVars, fileVars, historyVars
  <2>2. /\ Starters' = Starters /\ Forgetters \subseteq Forgetters'
        /\ \A d \in Clients : at'[d] = "starting" => at[d] = "starting"
    BY <1>0, <2>1 DEF Starters, Forgetters, File
  <2> QED
    BY <2>1, <2>2, StarterKept
<1>4. ASSUME NEW c \in Clients, CallStart(c) PROVE StarterInv'
  <2>1. /\ at[c] = "opened" /\ UNCHANGED <<initialized, denied, crashes, early, files, f_>>
        /\ IF initialized THEN at' = [at EXCEPT ![c] = "closing"]
                          ELSE at' = [at EXCEPT ![c] = "starting"]
    BY <1>4 DEF CallStart, Command, Move, Driver!Refuses, driverVars, fileVars, historyVars
  <2>2. Starters' = Starters /\ Forgetters \subseteq Forgetters'
    BY <1>0, <2>1 DEF Starters, Forgetters
  <2>3. CASE initialized
    <3>1. \A d \in Clients : at'[d] = "starting" => at[d] = "starting"
      BY <1>0, <2>1, <2>3
    <3> QED
      BY <2>1, <2>2, <3>1, StarterKept
  <2>4. CASE ~initialized
    BY <1>0, <2>1, <2>2, <2>4 DEF StarterInv
  <2> QED
    BY <2>3, <2>4
<1>5. ASSUME NEW c \in Clients, Start(c) PROVE StarterInv'
  <2>1. ~initialized /\ Starters = {}
    BY <1>5 DEF Start, Move, StarterInv
  <2>2. \A d \in Clients : at[d] = "starting" => d = c
    BY <1>0, <1>5 DEF Start, Move, RaceInv, Commands
  <2>3. initialized' = TRUE /\ UNCHANGED <<f_, files, crashes, early>>
    BY <1>5 DEF Start, Driver!StartGranted, Driver!Start, Driver!StartDenied, fileVars
  <2>4. CASE Move(c, "starting", "object") /\ denied' = FALSE
    <3>1. Starters' \subseteq {c} /\ \A d \in Clients \ {c} : at'[d] # "starting"
      BY <1>0, <2>1, <2>2, <2>3, <2>4 DEF Move, Starters
    <3>2. at'[c] = "object"
      BY <1>0, <2>4 DEF Move
    <3>3. c \in Starters' \/ c \in Forgetters'
      BY <2>3, <2>4, <3>2 DEF Move, PlaceInv, Commands, Numbers, File, Starters, Forgetters
    <3> QED
      BY <2>3, <2>4, <3>1, <3>2, <3>3 DEF StarterInv
  <2>5. CASE Move(c, "starting", "closing") /\ denied' = TRUE
    <3>1. Starters' = {} /\ \A d \in Clients : at'[d] # "starting"
      BY <1>0, <2>1, <2>2, <2>3, <2>5 DEF Move, Starters
    <3> QED
      BY <2>5, <3>1 DEF StarterInv
  <2> QED
    BY <1>5, <2>4, <2>5 DEF Start
<1>6. ASSUME NEW c \in Clients, Close(c) PROVE StarterInv'
  <2>1. /\ at[c] = "closing" /\ at' = [at EXCEPT ![c] = "object"]
        /\ f_' = [f_ EXCEPT ![c] = "zero"] /\ files' = files \ {<<c, f_[c]>>}
        /\ UNCHANGED <<initialized, denied, crashes, early>>
    BY <1>6 DEF Close, Move, File, Driver!DevRelease, historyVars
  <2>2. /\ Starters' = Starters /\ Forgetters \subseteq Forgetters'
        /\ \A d \in Clients : at'[d] = "starting" => at[d] = "starting"
    BY <1>0, <2>1 DEF Starters, Forgetters
  <2> QED
    BY <2>1, <2>2, StarterKept
<1>7. ASSUME NEW c \in Clients, CallSet(c) PROVE StarterInv'
  <2>1. /\ UNCHANGED <<initialized, denied, crashes, early, files>>
        /\ at[c] = "object" /\ f_[c] = "greater" /\ UNCHANGED f_
        /\ (at' = [at EXCEPT ![c] = "object"] \/ at' = [at EXCEPT ![c] = "setting"])
    BY <1>7 DEF CallSet, Usable, Command, Move, driverVars, fileVars,
          historyVars
  <2>2. /\ Starters' = Starters /\ c \in Starters'
        /\ \A d \in Clients : at'[d] = "starting" => at[d] = "starting"
    BY <1>0, <2>1 DEF Starters
  <2> QED
    BY <2>1, <2>2, StarterKept
<1>8. ASSUME NEW c \in Clients, Set(c) PROVE StarterInv'
  <2>1. /\ UNCHANGED <<initialized, denied, crashes, early, files>>
        /\ at[c] = "setting" /\ at' = [at EXCEPT ![c] = "object"] /\ UNCHANGED f_
    BY <1>8 DEF Set, Move, Driver!Set, fileVars, historyVars
  <2>2. /\ Starters' = Starters /\ Forgetters \subseteq Forgetters'
        /\ \A d \in Clients : at'[d] = "starting" => at[d] = "starting"
    BY <1>0, <2>1 DEF Starters, Forgetters, File
  <2> QED
    BY <2>1, <2>2, StarterKept
<1>9. ASSUME NEW c \in Clients, Get(c) PROVE StarterInv'
  <2>1. /\ UNCHANGED <<initialized, denied, crashes, early, files>>
        /\ UNCHANGED <<at, f_>>
    BY <1>9 DEF Get, driverVars, fileVars, historyVars
  <2>2. /\ Starters' = Starters /\ Forgetters \subseteq Forgetters'
        /\ \A d \in Clients : at'[d] = "starting" => at[d] = "starting"
    BY <1>0, <2>1 DEF Starters, Forgetters, File
  <2> QED
    BY <2>1, <2>2, StarterKept
<1>10. ASSUME NEW c \in Clients, CallStop(c) PROVE StarterInv'
  <2>1. /\ at[c] = "object" /\ f_[c] = "greater"
        /\ UNCHANGED <<initialized, denied, crashes, early, files, f_>>
        /\ IF initialized THEN at' = [at EXCEPT ![c] = "stopping"]
                          ELSE at' = [at EXCEPT ![c] = "closing"]
    BY <1>10 DEF CallStop, Usable, Command, Move, Driver!Refuses, driverVars, fileVars,
          historyVars
  <2>2. c \in Starters /\ initialized
    BY <2>1 DEF Starters, StarterInv
  <2>3. /\ Starters' = Starters
        /\ \A d \in Clients : at'[d] = "starting" => at[d] = "starting"
    BY <1>0, <2>1, <2>2 DEF Starters
  <2> QED
    BY <2>1, <2>2, <2>3 DEF StarterInv
<1>11. ASSUME NEW c \in Clients, Stop(c) PROVE StarterInv'
  <2>1. /\ at[c] = "stopping" /\ at' = [at EXCEPT ![c] = "closing"]
        /\ initialized' = FALSE /\ UNCHANGED f_
    BY <1>11 DEF Stop, Move, Driver!Stop
  <2>2. c \in Starters
    BY <2>1 DEF Starters, PlaceInv
  <2>3. Starters' = {}
    BY <1>0, <2>1, <2>2 DEF Starters, StarterInv
  <2> QED
    BY <2>1, <2>3 DEF StarterInv
<1>12. ASSUME NEW c \in Clients, Leave(c) PROVE StarterInv'
  <2>1. /\ UNCHANGED <<initialized, denied, crashes, early, files>>
        /\ at[c] = "object" /\ at' = [at EXCEPT ![c] = "outside"]
        /\ f_[c] # "greater" /\ f_' = [f_ EXCEPT ![c] = "zero"]
    BY <1>12 DEF Leave, Usable, Move, driverVars, fileVars, historyVars
  <2>2. /\ Starters' = Starters /\ Forgetters \subseteq Forgetters'
        /\ \A d \in Clients : at'[d] = "starting" => at[d] = "starting"
    BY <1>0, <2>1 DEF Starters, Forgetters, File
  <2> QED
    BY <2>1, <2>2, StarterKept
<1>13. ASSUME NEW c \in Clients, Crash(c) PROVE StarterInv'
  <2>1. crashes' > 0
    BY <1>0, <1>13, DeathCount DEF Crash
  <2>2. /\ UNCHANGED <<initialized, denied>> /\ at' = [at EXCEPT ![c] = "dying"]
        /\ f_' = [f_ EXCEPT ![c] = "zero"]
    BY <1>13 DEF Crash, Dies, driverVars
  <2>3. /\ Starters' \subseteq Starters
        /\ \A d \in Clients : at'[d] = "starting" => at[d] = "starting"
    BY <1>0, <2>2 DEF Starters
  <2> QED
    BY <2>1, <2>2, <2>3, StarterKept
<1>14. ASSUME NEW c \in Clients, KilledInside(c) PROVE StarterInv'
  <2>1. crashes' > 0
    BY <1>0, <1>14, DeathCount DEF KilledInside
  <2>2. /\ UNCHANGED <<initialized, denied>> /\ at' = [at EXCEPT ![c] = "dying"]
        /\ f_' = [f_ EXCEPT ![c] = "zero"]
    BY <1>14 DEF KilledInside, Dies, Driver!StartKilled
  <2>3. /\ Starters' \subseteq Starters
        /\ \A d \in Clients : at'[d] = "starting" => at[d] = "starting"
    BY <1>0, <2>2 DEF Starters
  <2> QED
    BY <2>1, <2>2, <2>3, StarterKept
<1>15. ASSUME NEW c \in Clients, NEW n \in Numbers, CloseAtExit(c, n) PROVE StarterInv'
  <2>1. /\ UNCHANGED <<initialized, denied, f_, crashes>> /\ at[c] = "dying"
        /\ (at' = at \/ at' = [at EXCEPT ![c] = "outside"])
    BY <1>15 DEF CloseAtExit, Driver!DevRelease, historyVars
  <2>2. crashes' > 0
    BY <2>1 DEF PlaceInv
  <2>3. /\ Starters' \subseteq Starters
        /\ \A d \in Clients : at'[d] = "starting" => at[d] = "starting"
    BY <1>0, <2>1 DEF Starters
  <2> QED
    BY <2>1, <2>2, <2>3, StarterKept
<1>16. ASSUME LoadModule PROVE StarterInv'
  <2>1. /\ UNCHANGED <<initialized, denied, crashes, early, files>>
        /\ UNCHANGED <<at, f_>>
    BY <1>16 DEF LoadModule, Driver!MakeDevice, fileVars, historyVars
  <2>2. /\ Starters' = Starters /\ Forgetters \subseteq Forgetters'
        /\ \A d \in Clients : at'[d] = "starting" => at[d] = "starting"
    BY <1>0, <2>1 DEF Starters, Forgetters, File
  <2> QED
    BY <2>1, <2>2, StarterKept
<1>17. ASSUME FinishLoading PROVE StarterInv'
  <2>1. /\ UNCHANGED <<initialized, denied, crashes, early, files>>
        /\ UNCHANGED <<at, f_>>
    BY <1>17 DEF FinishLoading, Driver!InitMutex, fileVars, historyVars
  <2>2. /\ Starters' = Starters /\ Forgetters \subseteq Forgetters'
        /\ \A d \in Clients : at'[d] = "starting" => at[d] = "starting"
    BY <1>0, <2>1 DEF Starters, Forgetters, File
  <2> QED
    BY <2>1, <2>2, StarterKept
<1>18. ASSUME UnloadModule PROVE StarterInv'
  <2>1. initialized' = FALSE /\ files' = {}
    BY <1>18 DEF UnloadModule, Driver!Exit
  <2>2. ASSUME NEW d \in Clients PROVE d \notin Starters'
    <3>1. /\ at'[d] = IF Serves(d) /\ ~Forgotten(d) THEN "lost" ELSE at[d]
          /\ f_'[d] = IF Serves(d) /\ ~Forgotten(d) THEN "zero" ELSE f_[d]
      BY <1>18 DEF UnloadModule
    <3>2. d \in Starters => File(d) \in files /\ Serves(d) /\ ~Forgotten(d)
      BY DEF Starters, PlaceInv, Commands, Numbers, File, Serves, Forgotten
    <3> QED
      BY <3>1, <3>2 DEF Starters
  <2>3. Starters' = {}
    BY <2>2 DEF Starters
  <2> QED
    BY <2>1, <2>3 DEF StarterInv
<1>19. ASSUME NEW c \in Clients, OrphanCalls(c) PROVE StarterInv'
  <2>1. /\ UNCHANGED <<initialized, denied, crashes, early, files>>
        /\ UNCHANGED <<at, f_>>
    BY <1>19 DEF OrphanCalls, fileVars, historyVars
  <2>2. /\ Starters' = Starters /\ Forgetters \subseteq Forgetters'
        /\ \A d \in Clients : at'[d] = "starting" => at[d] = "starting"
    BY <1>0, <2>1 DEF Starters, Forgetters, File
  <2> QED
    BY <2>1, <2>2, StarterKept
<1>20. ASSUME NEW p \in Ports, Other(p) PROVE StarterInv'
  <2>1. /\ UNCHANGED <<initialized, denied, crashes, early, files>>
        /\ UNCHANGED <<at, f_>>
    BY <1>20 DEF Other, Driver!OtherRequests, Driver!OtherFrees, fileVars,
          historyVars
  <2>2. /\ Starters' = Starters /\ Forgetters \subseteq Forgetters'
        /\ \A d \in Clients : at'[d] = "starting" => at[d] = "starting"
    BY <1>0, <2>1 DEF Starters, Forgetters, File
  <2> QED
    BY <2>1, <2>2, StarterKept
<1> QED
  BY <1>1, <1>2, <1>3, <1>4, <1>5, <1>6, <1>7, <1>8, <1>9, <1>10, <1>11, <1>12, <1>13, <1>14,
     <1>15, <1>16, <1>17, <1>18, <1>19, <1>20
  DEF Next

\* Every step keeps the lines that are held.
LEMMA StepLineInv == ASSUME LedInv, Next PROVE LineInv'
<1> USE DEF LedInv, TypeOK, Driver!TypeOK, LineInv, Held
<1>0. ~corrupted /\ ~raced
  BY DEF Next
<1>1. ASSUME NEW c \in Clients, NEW p \in Ports \cup {BadPort}, SetState(c, p) PROVE LineInv'
  BY <1>0, <1>1 DEF SetState, driverVars, fileVars, historyVars
<1>2. ASSUME NEW c \in Clients, NEW n \in Numbers, NEW ports \in SUBSET Ports, Open(c, n, ports)
      PROVE LineInv'
  BY <1>0, <1>2 DEF Open, Move, Driver!DevOpen, Driver!memVars, Driver!lineVars
<1>3. ASSUME NEW c \in Clients, OpenFails(c) PROVE LineInv'
  BY <1>0, <1>3 DEF OpenFails, Move, driverVars, fileVars, historyVars
<1>4. ASSUME NEW c \in Clients, CallStart(c) PROVE LineInv'
  BY <1>0, <1>4 DEF CallStart, Command, Move, Driver!Refuses, driverVars, fileVars, historyVars
<1>5. ASSUME NEW c \in Clients, Start(c) PROVE LineInv'
  <2>1. ~initialized /\ Held = abandoned
    BY <1>5 DEF Start, Move, StarterInv
  <2>2. isSet' = FALSE /\ initialized' = TRUE /\ leds' = mask_[c] /\ UNCHANGED abandoned
    BY <1>5 DEF Start, Driver!StartGranted, Driver!StartDenied, Driver!Start
  <2>3. CASE Driver!StartGranted(mask_[c]) /\ denied' = FALSE
    <3>1. /\ \A p \in mask_[c] : user[p] = "free"
          /\ user' = [p \in Ports |-> IF p \in mask_[c] THEN "driver" ELSE user[p]]
      BY <2>3 DEF Driver!StartGranted, Driver!Available, Driver!Start
    <3>2. mask_[c] \subseteq Ports
      OBVIOUS
    <3>3. Held' = mask_[c] \cup Held /\ mask_[c] \cap Held = {}
      BY <3>1, <3>2
    <3> HIDE DEF Held
    <3> QED
      BY <2>1, <2>2, <2>3, <3>3
  <2>4. CASE Driver!StartDenied(mask_[c]) /\ denied' = TRUE
    <3>1. Held' = Held
      BY <2>4 DEF Driver!StartDenied
    <3> HIDE DEF Held
    <3> QED
      BY <2>1, <2>2, <2>4, <3>1
  <2> QED
    BY <1>5, <2>3, <2>4 DEF Start
<1>6. ASSUME NEW c \in Clients, Close(c) PROVE LineInv'
  BY <1>0, <1>6 DEF Close, Move, Driver!DevRelease, Driver!memVars, Driver!lineVars, historyVars
<1>7. ASSUME NEW c \in Clients, CallSet(c) PROVE LineInv'
  BY <1>0, <1>7 DEF CallSet, Usable, Command, Move, Driver!Refuses, driverVars, fileVars,
      historyVars
<1>8. ASSUME NEW c \in Clients, Set(c) PROVE LineInv'
  BY <1>0, <1>8 DEF Set, Move, Driver!Set, Driver!memVars, fileVars, historyVars
<1>9. ASSUME NEW c \in Clients, Get(c) PROVE LineInv'
  BY <1>0, <1>9 DEF Get, Usable, Driver!DevRead, driverVars, fileVars, historyVars
<1>10. ASSUME NEW c \in Clients, CallStop(c) PROVE LineInv'
  BY <1>0, <1>10 DEF CallStop, Usable, Command, Move, Driver!Refuses, driverVars, fileVars,
      historyVars
<1>11. ASSUME NEW c \in Clients, Stop(c) PROVE LineInv'
  <2>1. c \in Starters
    BY <1>11 DEF Stop, Move, Starters, PlaceInv
  <2>2. Held = leds \cup abandoned /\ leds \cap abandoned = {}
    BY <2>1 DEF StarterInv
  <2>3. /\ initialized' = FALSE /\ UNCHANGED <<leds, abandoned>>
        /\ user' = [p \in Ports |-> IF p \in leds THEN "free" ELSE user[p]]
    BY <1>11 DEF Stop, Driver!Stop
  <2>4. Held' = Held \ leds
    BY <2>3
  <2> HIDE DEF Held
  <2> QED
    BY <2>2, <2>3, <2>4
<1>12. ASSUME NEW c \in Clients, Leave(c) PROVE LineInv'
  BY <1>0, <1>12 DEF Leave, Usable, Move, driverVars, fileVars, historyVars
<1>13. ASSUME NEW c \in Clients, Crash(c) PROVE LineInv'
  BY <1>0, <1>13 DEF Crash, Dies, driverVars, fileVars
<1>14. ASSUME NEW c \in Clients, KilledInside(c) PROVE LineInv'
  <2>1. /\ at[c] = "starting" /\ UNCHANGED <<initialized, user, abandoned, isSet>>
    BY <1>14 DEF KilledInside, Driver!StartKilled, Driver!lineVars
  <2>2. ~initialized
    BY <2>1 DEF StarterInv
  <2> QED
    BY <2>1, <2>2
<1>15. ASSUME NEW c \in Clients, NEW n \in Numbers, CloseAtExit(c, n) PROVE LineInv'
  BY <1>0, <1>15 DEF CloseAtExit, Driver!DevRelease, Driver!memVars, Driver!lineVars,
      historyVars
<1>16. ASSUME LoadModule PROVE LineInv'
  BY <1>0, <1>16 DEF LoadModule, Driver!MakeDevice, Driver!memVars, Driver!lineVars, fileVars,
      historyVars
<1>17. ASSUME FinishLoading PROVE LineInv'
  BY <1>0, <1>17 DEF FinishLoading, Driver!InitMutex, Driver!memVars, Driver!lineVars, fileVars,
      historyVars
<1>18. ASSUME UnloadModule PROVE LineInv'
  BY <1>0, <1>18 DEF UnloadModule, Driver!Exit, Serves, Forgotten
<1>19. ASSUME NEW c \in Clients, OrphanCalls(c) PROVE LineInv'
  BY <1>0, <1>19 DEF OrphanCalls, fileVars, historyVars
<1>20. ASSUME NEW p \in Ports, Other(p) PROVE LineInv'
  <2>1. UNCHANGED <<initialized, denied, leds, led_state, abandoned, isSet>>
    BY <1>20 DEF Other, Driver!OtherRequests, Driver!OtherFrees, Driver!memVars, historyVars
  <2>2. user[p] # "driver" /\ \E u \in {"free", "other"} : user' = [user EXCEPT ![p] = u]
    BY <1>20 DEF Other, Driver!OtherRequests, Driver!OtherFrees
  <2>3. Held' = Held
    BY <2>2
  <2>4. \A q \in Held : level'[q] = level[q]
    BY <1>20, <2>2 DEF Other, Driver!OtherRequests, Driver!OtherFrees
  <2> HIDE DEF Held
  <2> QED
    BY <2>1, <2>3, <2>4
<1> QED
  BY <1>1, <1>2, <1>3, <1>4, <1>5, <1>6, <1>7, <1>8, <1>9, <1>10, <1>11, <1>12, <1>13, <1>14,
     <1>15, <1>16, <1>17, <1>18, <1>19, <1>20
  DEF Next

\* Every step keeps the array.
LEMMA StepMemoryInv == ASSUME LedInv, Next PROVE MemoryInv'
<1> USE DEF LedInv, TypeOK, Driver!TypeOK, MemoryInv
<1>0. ~corrupted /\ ~raced
  BY DEF Next
<1>1. ASSUME NEW c \in Clients, NEW p \in Ports \cup {BadPort}, SetState(c, p) PROVE MemoryInv'
  BY <1>0, <1>1 DEF SetState, driverVars, fileVars, historyVars
<1>2. ASSUME NEW c \in Clients, NEW n \in Numbers, NEW ports \in SUBSET Ports, Open(c, n, ports)
      PROVE MemoryInv'
  BY <1>0, <1>2 DEF Open, Move, Driver!DevOpen, Driver!memVars, Driver!lineVars
<1>3. ASSUME NEW c \in Clients, OpenFails(c) PROVE MemoryInv'
  BY <1>0, <1>3 DEF OpenFails, Move, driverVars, fileVars, historyVars
<1>4. ASSUME NEW c \in Clients, CallStart(c) PROVE MemoryInv'
  BY <1>0, <1>4 DEF CallStart, Command, Move, Driver!Refuses, driverVars, fileVars, historyVars
<1>5. ASSUME NEW c \in Clients, Start(c) PROVE MemoryInv'
  <2>1. CASE Move(c, "starting", "object") /\ Driver!StartGranted(mask_[c]) /\ denied' = FALSE
    BY <1>0, <1>5, <2>1 DEF Start, Move, Driver!StartGranted, Driver!Start, Driver!Available,
        Driver!Lower, fileVars
  <2>2. CASE Move(c, "starting", "closing") /\ Driver!StartDenied(mask_[c]) /\ denied' = TRUE
    BY <1>0, <1>5, <2>2 DEF Start, Move, Driver!StartDenied, Driver!Start, Driver!Available,
        Driver!Lower, fileVars
  <2> QED
    BY <1>5, <2>1, <2>2 DEF Start
<1>6. ASSUME NEW c \in Clients, Close(c) PROVE MemoryInv'
  BY <1>0, <1>6 DEF Close, Move, Driver!DevRelease, Driver!memVars, Driver!lineVars, historyVars
<1>7. ASSUME NEW c \in Clients, CallSet(c) PROVE MemoryInv'
  BY <1>0, <1>7 DEF CallSet, Usable, Command, Move, Driver!Refuses, driverVars, fileVars,
      historyVars
<1>8. ASSUME NEW c \in Clients, Set(c) PROVE MemoryInv'
  BY <1>0, <1>8 DEF Set, Move, Driver!Set, Driver!memVars, fileVars, historyVars
<1>9. ASSUME NEW c \in Clients, Get(c) PROVE MemoryInv'
  BY <1>0, <1>9 DEF Get, Usable, Driver!DevRead, driverVars, fileVars, historyVars
<1>10. ASSUME NEW c \in Clients, CallStop(c) PROVE MemoryInv'
  BY <1>0, <1>10 DEF CallStop, Usable, Command, Move, Driver!Refuses, driverVars, fileVars,
      historyVars
<1>11. ASSUME NEW c \in Clients, Stop(c) PROVE MemoryInv'
  <2>1. c \in Starters
    BY <1>11 DEF Stop, Move, Starters, PlaceInv
  <2>2. initialized /\ (array = "freed" => leds = {})
    BY <2>1 DEF StarterInv
  <2>3. initialized' = FALSE /\ corrupted' = (array = "freed") /\ UNCHANGED leds
    BY <1>11 DEF Stop, Driver!Stop
  <2> QED
    BY <2>2, <2>3
<1>12. ASSUME NEW c \in Clients, Leave(c) PROVE MemoryInv'
  BY <1>0, <1>12 DEF Leave, Usable, Move, driverVars, fileVars, historyVars
<1>13. ASSUME NEW c \in Clients, Crash(c) PROVE MemoryInv'
  BY <1>0, <1>13 DEF Crash, Dies, driverVars, fileVars
<1>14. ASSUME NEW c \in Clients, KilledInside(c) PROVE MemoryInv'
  BY <1>0, <1>14 DEF KilledInside, Dies, Driver!StartKilled, Driver!lineVars, fileVars
<1>15. ASSUME NEW c \in Clients, NEW n \in Numbers, CloseAtExit(c, n) PROVE MemoryInv'
  BY <1>0, <1>15 DEF CloseAtExit, Driver!DevRelease, Driver!memVars, Driver!lineVars,
      historyVars
<1>16. ASSUME LoadModule PROVE MemoryInv'
  BY <1>0, <1>16 DEF LoadModule, Driver!MakeDevice, Driver!memVars, Driver!lineVars, fileVars,
      historyVars
<1>17. ASSUME FinishLoading PROVE MemoryInv'
  BY <1>0, <1>17 DEF FinishLoading, Driver!InitMutex, Driver!memVars, Driver!lineVars, fileVars,
      historyVars
<1>18. ASSUME UnloadModule PROVE MemoryInv'
  BY <1>0, <1>18 DEF UnloadModule, Driver!Exit, Serves, Forgotten
<1>19. ASSUME NEW c \in Clients, OrphanCalls(c) PROVE MemoryInv'
  BY <1>0, <1>19 DEF OrphanCalls, fileVars, historyVars
<1>20. ASSUME NEW p \in Ports, Other(p) PROVE MemoryInv'
  <2>1. UNCHANGED <<initialized, array, leds, corrupted>>
    BY <1>20 DEF Other, Driver!OtherRequests, Driver!OtherFrees, Driver!memVars
  <2> QED
    BY <1>0, <2>1
<1> QED
  BY <1>1, <1>2, <1>3, <1>4, <1>5, <1>6, <1>7, <1>8, <1>9, <1>10, <1>11, <1>12, <1>13, <1>14,
     <1>15, <1>16, <1>17, <1>18, <1>19, <1>20
  DEF Next

\* Initially the invariant holds.
LEMMA InitLed == Init => LedInv
<1> SUFFICES ASSUME Init PROVE LedInv
  OBVIOUS
<1> USE DEF Init, Driver!Init
<1>1. TypeOK
  <2>1. crashes \in 0 .. MaxCrashes
    BY LedAssumption DEF LedAssumption
  <2> QED
    BY <2>1 DEF TypeOK, Driver!TypeOK, Numbers
<1>2. PlaceInv /\ MutexInv /\ RaceInv
  BY DEF PlaceInv, MutexInv, RaceInv, Commands
<1>3. Starters = {}
  BY DEF Starters
<1>4. StarterInv /\ LineInv /\ MemoryInv
  BY <1>3 DEF StarterInv, LineInv, Held, MemoryInv
<1> QED
  BY <1>1, <1>2, <1>4 DEF LedInv

\* The invariant of the driver and its clients, for any number of processes and lines: where
\* each process is, which files are open, who has started the driver, and that two processes
\* are never inside of commands at once but after an open before mutex_init() (Led, dev_open,
\* led_gpio_init, led_gpio_shutdown, led_gpio_set).
THEOREM LedInvariant == Spec => []LedInv
<1>1. LedInv /\ UNCHANGED vars => LedInv'
  <2> SUFFICES ASSUME LedInv, UNCHANGED vars PROVE LedInv'
    OBVIOUS
  <2> USE DEF LedInv, vars, driverVars, fileVars, historyVars
  <2>1. TypeOK' /\ PlaceInv' /\ MutexInv' /\ RaceInv'
    BY DEF TypeOK, Driver!TypeOK, PlaceInv, MutexInv, RaceInv, File
  <2>2. StarterInv' /\ LineInv' /\ MemoryInv'
    BY DEF StarterInv, Starters, Forgetters, LineInv, Held, MemoryInv
  <2> QED
    BY <2>1, <2>2
<1>2. LedInv /\ [Next]_vars => LedInv'
  BY <1>1, StepTypeOK, StepPlaceInv, StepMutexInv, StepRaceInv, StepStarterInv, StepLineInv,
     StepMemoryInv
  DEF LedInv
<1> QED
  BY <1>2, InitLed, PTL DEF Spec

-----------------------------------------------------------------------------
(* The properties *)

\* The device mutex is held exactly as long as one process has the device open, and that
\* process works with it or has forgotten it as number 0, unless the device was opened before
\* mutex_init() (dev_open, dev_release, drv_init, Led).
THEOREM MutexIsExact == Spec => []OneClient
<1>1. LedInv => OneClient
  <2> SUFFICES ASSUME LedInv, ~early
               PROVE  /\ device_mutex <=> files # {}
                      /\ Cardinality(files) <= 1
                      /\ device_mutex => \E c \in Clients : Serves(c) \/ <<c, "zero">> \in files
    BY DEF OneClient
  <2>1. CASE device_mutex
    <3>1. PICK x \in Clients \X Numbers : files = {x}
      BY <2>1 DEF LedInv, MutexInv
    <3>2. Cardinality(files) = 1
      BY <3>1, FS_Singleton
    <3>3. PICK c \in Clients, n \in Numbers : <<c, n>> \in files
      BY <3>1
    <3>4. n = "greater" => Serves(c)
      BY <3>3 DEF LedInv, PlaceInv, Serves, Numbers
    <3> QED
      BY <2>1, <3>1, <3>2, <3>3, <3>4 DEF Numbers
  <2>2. CASE ~device_mutex
    <3>1. files = {}
      BY <2>2 DEF LedInv, MutexInv
    <3>2. Cardinality(files) = 0
      BY <3>1, FS_EmptySet
    <3> QED
      BY <2>2, <3>1, <3>2
  <2> QED
    BY <2>1, <2>2
<1> QED
  BY <1>1, LedInvariant, PTL

\* No two processes change the driver at once, unless the device was opened before
\* mutex_init(); so the driver holds the lines of its array while it is initialized, and no
\* others but those of a module that was unloaded, unless it was denied some; and what it
\* tells of them is true (led_gpio_init, led_gpio_shutdown, led_gpio_set, led_gpio_get).
THEOREM LinesAreHeld == Spec => []LinesHeld
<1>1. LedInv => LinesHeld
  BY DEF LedInv, RaceInv, LineInv, LinesHeld, Held
<1> QED
  BY <1>1, LedInvariant, PTL

\* A driver is left behind initialized only by an accident, and memory that is not the
\* driver's is used only after a start without lines or an unloading, as long as no two
\* processes have changed the driver at once (dev_release, led_gpio_init, led_gpio_shutdown,
\* drv_exit).
THEOREM FailuresAreAccidents == Spec => []FailsByAccident
<1>1. LedInv => FailsByAccident
  <2> SUFFICES ASSUME LedInv PROVE FailsByAccident
    OBVIOUS
  <2>1. Forgetters # {} /\ ~early => device_mutex
    BY DEF LedInv, MutexInv, Forgetters
  <2>2. Starters # {} /\ ~early => device_mutex
    BY DEF LedInv, MutexInv, PlaceInv, Starters, Commands
  <2> QED
    BY <2>1, <2>2 DEF LedInv, StarterInv, MemoryInv, FailsByAccident
<1> QED
  BY <1>1, LedInvariant, PTL
=============================================================================
