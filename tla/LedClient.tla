------------------------------ MODULE LedClient ------------------------------
(***************************************************************************)
(* Processes that use the LED driver (module LedDriver) through the class  *)
(* Gpio::Led of src/LinuxGpioLedDriver/ledgpio_client.cpp.  A process may  *)
(* die at any moment; the kernel then closes its files and calls nothing   *)
(* but dev_release.  The module may be unloaded at any moment.             *)
(*                                                                         *)
(* A device file is a process and its descriptor: 0, which Led takes for   *)
(* no file, or a greater one.                                              *)
(***************************************************************************)
EXTENDS Naturals, FiniteSets

CONSTANTS
  Clients, Ports,
  BadPort,       \* a number outside of the range of ports
  MaxCrashes     \* bound: processes that die

ASSUME LedAssumption == BadPort \notin Ports /\ MaxCrashes \in Nat

VARIABLES module, device_mutex, initialized, leds, array, led_state, user, level, corrupted,
          isSet, abandoned

VARIABLES
  at,        \* where each process is
  f_,        \* Led::f_: -1, 0 or a greater number
  mask_,     \* Led::State::mask_ of the process
  files,     \* the device files that are open
  orphans,   \* those that belong to a module that was unloaded
  raced,     \* two processes have changed the driver at once
  crashes,   \* how many processes have died
  denied,    \* history: the last LED_OP_START was denied its lines
  early      \* history: a process has opened the device before mutex_init()

Driver == INSTANCE LedDriver

driverVars == <<module, device_mutex, initialized, leds, array, led_state, user, level,
                corrupted, isSet, abandoned>>
fileVars == <<files, orphans>>
historyVars == <<crashes, denied, early>>
vars == <<driverVars, at, f_, mask_, fileVars, raced, historyVars>>

Numbers == {"zero", "greater"}
File(c) == <<c, f_[c]>>

\* The places of a process that is inside of a command which changes the driver
Commands == {"starting", "setting", "stopping"}

TypeOK ==
  /\ Driver!TypeOK
  /\ at \in [Clients -> {"outside", "opened", "object", "closing", "dying", "lost"} \cup Commands]
  /\ f_ \in [Clients -> {"minus one"} \cup Numbers]
  /\ mask_ \in [Clients -> SUBSET Ports]
  /\ files \subseteq Clients \X Numbers /\ orphans \subseteq Clients \X Numbers
  /\ raced \in BOOLEAN
  /\ crashes \in 0 .. MaxCrashes /\ denied \in BOOLEAN /\ early \in BOOLEAN

Init ==
  /\ Driver!Init
  /\ at = [c \in Clients |-> "outside"]
  /\ f_ = [c \in Clients |-> "zero"]
  /\ mask_ = [c \in Clients |-> {}]
  /\ files = {} /\ orphans = {} /\ raced = FALSE
  /\ crashes = 0 /\ denied = FALSE /\ early = FALSE

Move(c, from, to) == at[c] = from /\ at' = [at EXCEPT ![c] = to]

-----------------------------------------------------------------------------
(* The class Led *)

\* An object whose f_ is 0 does nothing, and one whose f_ is -1 nothing that succeeds
Usable(c) == f_[c] = "greater"

\* State::set: switching off is an exclusive or, which switches an off port on
SetState(c, p) ==
  /\ at[c] = "object" /\ Usable(c)
  /\ p \in Ports
  /\ \/ mask_' = [mask_ EXCEPT ![c] = @ \cup {p}]
     \/ mask_' = [mask_ EXCEPT ![c] = IF p \in @ THEN @ \ {p} ELSE @ \cup {p}]
  /\ UNCHANGED <<driverVars, at, f_, fileVars, raced, historyVars>>

\* The constructor opens the device, after the program has put any ports into its State. A
\* program that has closed its standard input may get number 0
Open(c, n, ports) ==
  /\ Move(c, "outside", "opened")
  /\ <<c, n>> \notin files \cup orphans
  /\ Driver!DevOpen
  /\ f_' = [f_ EXCEPT ![c] = n] /\ mask_' = [mask_ EXCEPT ![c] = ports]
  /\ files' = files \cup {<<c, n>>}
  /\ early' = (early \/ module = "made")
  /\ UNCHANGED <<orphans, raced, crashes, denied>>

\* A failed open leaves -1 in f_
OpenFails(c) ==
  /\ Move(c, "outside", "object")
  /\ device_mutex \/ module = "out"
  /\ f_' = [f_ EXCEPT ![c] = "minus one"]
  /\ UNCHANGED <<driverVars, mask_, fileVars, raced, historyVars>>

\* A command that the driver refuses, or the step into one that it does not. Behind the test
\* of driver_state nothing keeps two processes apart
Command(c, operation, from, to, refused) ==
  /\ IF Driver!Refuses(operation)
       THEN Move(c, from, refused) /\ UNCHANGED raced
       ELSE Move(c, from, to) /\ raced' = \E d \in Clients : at[d] \in Commands
  /\ UNCHANGED <<driverVars, f_, mask_, fileVars, historyVars>>

\* The constructor goes on with LED_OP_START, and closes the file again when that fails
CallStart(c) == Command(c, "LED_OP_START", "opened", "starting", "closing")

Start(c) ==
  /\ \/ Move(c, "starting", "object") /\ Driver!StartGranted(mask_[c]) /\ denied' = FALSE
     \/ Move(c, "starting", "closing") /\ Driver!StartDenied(mask_[c]) /\ denied' = TRUE
  /\ UNCHANGED <<f_, mask_, fileVars, raced, crashes, early>>

\* Mutant of Close: the file stays open
CloseForgotten(c) ==
  /\ Move(c, "closing", "object")
  /\ f_' = [f_ EXCEPT ![c] = "zero"]
  /\ UNCHANGED <<driverVars, mask_, fileVars, raced, historyVars>>

Close(c) ==
  /\ Move(c, "closing", "object")
  /\ Driver!DevRelease
  /\ f_' = [f_ EXCEPT ![c] = "zero"]
  /\ files' = files \ {File(c)}
  /\ UNCHANGED <<mask_, orphans, raced, historyVars>>

CallSet(c) == Usable(c) /\ Command(c, "LED_OP_SET", "object", "setting", "object")

Set(c) ==
  /\ Move(c, "setting", "object")
  /\ Driver!Set(mask_[c])
  /\ UNCHANGED <<f_, mask_, fileVars, raced, historyVars>>

Get(c) ==
  /\ at[c] = "object" /\ Usable(c)
  /\ mask_' = [mask_ EXCEPT ![c] = Driver!DevRead(@)]
  /\ UNCHANGED <<driverVars, at, f_, fileVars, raced, historyVars>>

\* Mutant of CallStop: the destructor does not send LED_OP_STOP
CallNoStop(c) ==
  /\ Usable(c) /\ Move(c, "object", "closing")
  /\ UNCHANGED <<driverVars, f_, mask_, fileVars, raced, historyVars>>

\* The destructor stops the driver, and closes the file in Close whatever comes of it
CallStop(c) == Usable(c) /\ Command(c, "LED_OP_STOP", "object", "stopping", "closing")

Stop(c) ==
  /\ Move(c, "stopping", "closing")
  /\ Driver!Stop
  /\ UNCHANGED <<f_, mask_, fileVars, raced, historyVars>>

\* The destructor of an object that is not usable changes nothing: a file with number 0 stays
\* open. The State of the program ends with the object
Leave(c) ==
  /\ ~Usable(c)
  /\ Move(c, "object", "outside")
  /\ f_' = [f_ EXCEPT ![c] = "zero"]
  /\ mask_' = [mask_ EXCEPT ![c] = {}]
  /\ UNCHANGED <<driverVars, fileVars, raced, historyVars>>

-----------------------------------------------------------------------------
(* The end of a process *)

Dies(c) ==
  /\ crashes < MaxCrashes /\ crashes' = crashes + 1
  /\ at' = [at EXCEPT ![c] = "dying"]
  /\ f_' = [f_ EXCEPT ![c] = "zero"]
  /\ mask_' = [mask_ EXCEPT ![c] = {}]
  /\ UNCHANGED <<fileVars, raced, denied, early>>

\* A process that is inside of a command comes out of it before it dies
Crash(c) ==
  /\ at[c] \notin Commands \cup {"dying", "lost"}
  /\ \E n \in Numbers : <<c, n>> \in files
  /\ Dies(c)
  /\ UNCHANGED driverVars

KilledInside(c) ==
  /\ at[c] = "starting"
  /\ Driver!StartKilled(mask_[c])
  /\ Dies(c)

\* The kernel closes one file after the other; the process is gone with the last
CloseAtExit(c, n) ==
  /\ at[c] = "dying" /\ <<c, n>> \in files
  /\ Driver!DevRelease
  /\ files' = files \ {<<c, n>>}
  /\ at' = IF \E m \in Numbers \ {n} : <<c, m>> \in files \cup orphans
             THEN at ELSE [at EXCEPT ![c] = "outside"]
  /\ UNCHANGED <<f_, mask_, orphans, raced, historyVars>>

-----------------------------------------------------------------------------
(* The module *)

LoadModule ==
  /\ Driver!MakeDevice
  /\ UNCHANGED <<at, f_, mask_, fileVars, raced, historyVars>>

FinishLoading == Driver!InitMutex /\ UNCHANGED <<at, f_, mask_, fileVars, raced, historyVars>>

\* A process that works with a file of the module, or is dying with one
Serves(c) == \E n \in Numbers : /\ <<c, n>> \in files
                                /\ at[c] = "dying" \/ (f_[c] = n /\ at[c] # "outside")
Forgotten(c) == at[c] = "object" /\ f_[c] = "zero"

\* Who works with a file of the module can only call code that is gone, and does so at once
\* when it is inside of a command
UnloadModule ==
  LET lost == {c \in Clients : Serves(c) /\ ~Forgotten(c)} IN
  /\ Driver!Exit
  /\ (\E c \in Clients : at[c] \in Commands) => corrupted'
  /\ at' = [c \in Clients |-> IF c \in lost THEN "lost" ELSE at[c]]
  /\ f_' = [c \in Clients |-> IF c \in lost THEN "zero" ELSE f_[c]]
  /\ mask_' = [c \in Clients |-> IF c \in lost THEN {} ELSE mask_[c]]
  /\ orphans' = orphans \cup files /\ files' = {}
  /\ early' = FALSE /\ denied' = FALSE
  /\ UNCHANGED <<raced, crashes>>

\* Its next call; or the end of a process that has such a file, used or forgotten
OrphanCalls(c) ==
  /\ \E n \in Numbers : <<c, n>> \in orphans
  /\ corrupted' = TRUE
  /\ UNCHANGED <<module, device_mutex, initialized, leds, array, led_state, user, level, isSet,
                 abandoned, at, f_, mask_, fileVars, raced, historyVars>>

Other(p) ==
  /\ Driver!OtherRequests(p) \/ Driver!OtherFrees(p)
  /\ UNCHANGED <<at, f_, mask_, fileVars, raced, historyVars>>

\* After memory was used that is not the driver's, or two processes have changed what it has
\* at once, the kernel may do anything: the model ends
Next ==
  /\ ~corrupted /\ ~raced
  /\ \/ LoadModule \/ FinishLoading \/ UnloadModule
     \/ \E c \in Clients : \/ OpenFails(c) \/ CallStart(c) \/ Start(c) \/ Close(c)
                           \/ CallSet(c) \/ Set(c) \/ Get(c) \/ CallStop(c) \/ Stop(c) \/ Leave(c)
                           \/ Crash(c) \/ KilledInside(c) \/ OrphanCalls(c)
     \/ \E c \in Clients, n \in Numbers : \/ CloseAtExit(c, n)
                                         \/ \E ports \in SUBSET Ports : Open(c, n, ports)
     \/ \E c \in Clients, p \in Ports \cup {BadPort} : SetState(c, p)
     \/ \E p \in Ports : Other(p)

Spec == Init /\ [][Next]_vars

-----------------------------------------------------------------------------
(* Properties *)

\* The device mutex is held exactly as long as one process has the device open, however
\* clients are constructed, refused, destroyed or die, and that process works with it or has
\* forgotten it as number 0, unless the device was opened before mutex_init() (dev_open,
\* dev_release, drv_init, Led).
OneClient ==
  ~early =>
    /\ device_mutex <=> files # {}
    /\ Cardinality(files) <= 1
    /\ device_mutex => \E c \in Clients : Serves(c) \/ <<c, "zero">> \in files

\* Commands take no lock but the hold of the device: no two processes are ever inside of
\* LED_OP_START, LED_OP_SET or LED_OP_STOP at once, where they would change driver_state,
\* leds_number and the array under each other, unless the device was opened before
\* mutex_init(). So the driver holds the lines of its array from LED_OP_START to LED_OP_STOP,
\* and no others but those of a module that was unloaded, unless it was denied some of them;
\* and what LED_OP_GET tells of them is true once LED_OP_SET was called (led_gpio_init,
\* led_gpio_shutdown, led_gpio_set, led_gpio_get).
LinesHeld ==
  LET held == {p \in Ports : user[p] = "driver"} IN
  /\ TypeOK
  /\ raced => early
  /\ ~raced /\ ~corrupted =>
       /\ ~initialized => held = abandoned
       /\ initialized /\ ~denied => held = leds \cup abandoned
       /\ initialized /\ isSet => \A p \in leds \cap held : level[p] <=> p \in led_state

\* A driver that stays initialized while nobody has it open, and refuses every later client,
\* was left behind by a process that died or by a LED_OP_START that was denied its lines, or
\* the device was opened before mutex_init(); and memory is used that is not the driver's only
\* after a client that started without any line or when the module is unloaded, as long as no
\* two processes were inside of commands at once, of which LinesHeld says when it may be
\* (dev_release, led_gpio_init, led_gpio_shutdown, drv_exit).
FailsByAccident ==
  /\ initialized /\ ~device_mutex => crashes > 0 \/ denied \/ early
  /\ corrupted => leds = {} \/ orphans # {}
=============================================================================
