------------------------------ MODULE LedDriver ------------------------------
(***************************************************************************)
(* The kernel driver src/LinuxGpioLedDriver/ledgpio.c: one device file,    *)
(* opened by one process at a time, on which commands start, stop, set and *)
(* get a set of GPIO lines.  The actions are the loading and unloading of  *)
(* the module and the file operations.  A command that starts, stops or    *)
(* sets is a test of driver_state, which may refuse it, and its effect, by *)
(* its outcome; in between a process is inside of the command.             *)
(***************************************************************************)
EXTENDS FiniteSets

CONSTANT Ports      \* the GPIO lines

VARIABLES
  module,           \* out; in, or in without a mutex_init() so far
  device_mutex,     \* the device is open
  initialized,      \* driver_state
  leds,             \* the lines named in the array leds
  array,            \* the pointer: to nothing, to the array, to memory given back
  led_state,        \* the lines of the last LED_OP_SET
  user, level,      \* of each line: who has requested it, whether it is high
  corrupted,        \* memory was given back twice, or used when it was given back
  isSet,            \* history: LED_OP_SET was called since LED_OP_START
  abandoned         \* history: lines that a module had when it was unloaded

lineVars == <<user, level, abandoned>>
memVars == <<leds, array, corrupted>>
vars == <<module, device_mutex, initialized, memVars, led_state, lineVars, isSet>>

TypeOK ==
  /\ module \in {"out", "made", "in"} /\ abandoned \subseteq Ports
  /\ device_mutex \in BOOLEAN /\ initialized \in BOOLEAN
  /\ leds \subseteq Ports /\ led_state \subseteq Ports
  /\ array \in {"null", "allocated", "freed"}
  /\ user \in [Ports -> {"free", "driver", "other"}]
  /\ level \in [Ports -> BOOLEAN]
  /\ corrupted \in BOOLEAN /\ isSet \in BOOLEAN

Init ==
  /\ module = "out" /\ abandoned = {}
  /\ device_mutex = FALSE /\ initialized = FALSE
  /\ leds = {} /\ array = "null" /\ led_state = {}
  /\ user = [p \in Ports |-> "free"] /\ level = [p \in Ports |-> FALSE]
  /\ corrupted = FALSE /\ isSet = FALSE

-----------------------------------------------------------------------------
(* drv_init and drv_exit *)

\* The device is made and can be opened from then on. A failure takes back what was done
MakeDevice ==
  /\ module = "out" /\ module' = "made"
  /\ UNCHANGED <<device_mutex, initialized, memVars, led_state, lineVars, isSet>>

InitMutex ==
  /\ module = "made" /\ module' = "in"
  /\ device_mutex' = FALSE
  /\ UNCHANGED <<initialized, memVars, led_state, lineVars, isSet>>

\* The file operations have no owner, so an open file does not keep the module. Lines and
\* array are not given back, and what was static is as new in the next module. The class is
\* given back, and then used to be given back once more, with whatever outcome
Exit ==
  /\ module = "in" /\ module' = "out"
  /\ device_mutex' = FALSE /\ initialized' = FALSE /\ isSet' = FALSE
  /\ leds' = {} /\ array' = "null" /\ led_state' = {}
  /\ abandoned' = {p \in Ports : user[p] = "driver"}
  /\ corrupted' \in BOOLEAN
  /\ UNCHANGED <<user, level>>

-----------------------------------------------------------------------------
(* open and release *)

DevOpen ==
  /\ module # "out" /\ ~device_mutex
  /\ device_mutex' = TRUE
  /\ UNCHANGED <<module, initialized, memVars, led_state, lineVars, isSet>>

DevRelease ==
  /\ device_mutex' = FALSE
  /\ UNCHANGED <<module, initialized, memVars, led_state, lineVars, isSet>>

-----------------------------------------------------------------------------
(* write: LED_OP_START, LED_OP_STOP, LED_OP_SET *)

Lower(ports) == level' = [p \in Ports |-> p \notin ports /\ level[p]]

\* The test of driver_state that comes first in each command
Refuses(operation) == IF operation = "LED_OP_START" THEN initialized ELSE ~initialized

\* led_gpio_init, behind its test: the array is allocated for a set that is not empty;
\* gpio_request_array requests all the lines or none; then all of them are set low, and the
\* driver is initialized in any case
Start(ports) ==
  /\ initialized' = TRUE /\ isSet' = FALSE
  /\ leds' = ports
  /\ array' = IF ports = {} THEN array ELSE "allocated"
  /\ user' = [p \in Ports |-> IF p \in ports THEN "driver" ELSE user[p]]
  /\ Lower(ports)
  /\ UNCHANGED <<module, device_mutex, led_state, corrupted, abandoned>>

Available(ports) == \A p \in ports : user[p] = "free"

StartGranted(ports) == Available(ports) /\ Start(ports)

\* A line is taken: the result is an error, and yet the driver is initialized
StartDenied(ports) ==
  /\ ~Available(ports)
  /\ initialized' = TRUE /\ isSet' = FALSE
  /\ leds' = ports /\ array' = "allocated"
  /\ Lower(ports)
  /\ UNCHANGED <<module, device_mutex, led_state, user, corrupted, abandoned>>

\* Without memory for the array the kernel writes to address 0, which kills the process
StartKilled(ports) ==
  /\ ports # {}
  /\ leds' = {} /\ array' = "null"
  /\ UNCHANGED <<module, device_mutex, initialized, led_state, lineVars, corrupted, isSet>>

\* Mutant of Stop: the lines are not released
StopKeeping ==
  /\ initialized' = FALSE
  /\ Lower(leds)
  /\ corrupted' = (array = "freed")
  /\ array' = IF array = "null" THEN "null" ELSE "freed"
  /\ UNCHANGED <<module, device_mutex, leds, led_state, user, abandoned, isSet>>

\* led_gpio_shutdown, behind its test: the pointer is tested against NULL and keeps its value
\* when the memory is given back
Stop ==
  /\ initialized' = FALSE
  /\ Lower(leds)
  /\ user' = [p \in Ports |-> IF p \in leds THEN "free" ELSE user[p]]
  /\ corrupted' = (array = "freed")
  /\ array' = IF array = "null" THEN "null" ELSE "freed"
  /\ UNCHANGED <<module, device_mutex, leds, led_state, abandoned, isSet>>

\* led_gpio_set, behind its test: only initialized lines change; led_state records what was
\* asked for
Set(ports) ==
  /\ level' = [p \in Ports |-> IF p \in leds THEN p \in ports ELSE level[p]]
  /\ led_state' = ports
  /\ isSet' = TRUE
  /\ UNCHANGED <<module, device_mutex, initialized, memVars, user, abandoned>>

-----------------------------------------------------------------------------
(* read: LED_OP_GET *)

\* The mask that a client finds after the call, which succeeds in any case
DevRead(mask) == IF initialized THEN led_state ELSE mask

-----------------------------------------------------------------------------
(* Another driver requests and gives back lines *)

OtherRequests(p) ==
  /\ user[p] = "free"
  /\ user' = [user EXCEPT ![p] = "other"]
  /\ level' = [level EXCEPT ![p] = TRUE]
  /\ UNCHANGED <<module, device_mutex, initialized, memVars, led_state, abandoned, isSet>>

OtherFrees(p) ==
  /\ user[p] = "other"
  /\ user' = [user EXCEPT ![p] = "free"]
  /\ level' = [level EXCEPT ![p] = FALSE]
  /\ UNCHANGED <<module, device_mutex, initialized, memVars, led_state, abandoned, isSet>>
=============================================================================
