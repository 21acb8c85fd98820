------------------------------ MODULE SerialDump ------------------------------
(***************************************************************************)
(* src/serial_dump/serialdump.c: its options, which become bits of a       *)
(* termios, and the loop that prints what a serial port receives until     *)
(* SIGINT.  What the bits mean is that of Linux.                           *)
(***************************************************************************)
EXTENDS Integers, Sequences

CONSTANTS
  Rates,          \* numbers for -b
  DefaultRate,
  MaxOptions      \* bound: options on the command line

SerialAssumption == MaxOptions \in Nat

VARIABLES
  args,           \* the options so far
  rate, c_cflag, c_iflag, print_time,
  stage,          \* where main() is
  g_stop,
  readable, unplugged   \* the port has received something; the port was unplugged

settings == <<args, rate, c_cflag, c_iflag, print_time>>
vars == <<settings, stage, g_stop, readable, unplugged>>

\* The numbers of the bits; in c_iflag bits 8 and 9 are ICRNL and IUCLC
CS == [five |-> {}, six |-> {4}, seven |-> {5}, eight |-> {4, 5}]
INPCK == 4
CSTOPB == 6
CREAD == 7
PARENB == 8
ICRNL == 8
PARODD == 9
IUCLC == 9
CLOCAL == 11

Numbered(o, numbers) == {[is |-> o, num |-> n] : n \in numbers}
Plain == {[is |-> o] : o \in {"time", "odd", "even", "none"} \cup DOMAIN CS}
\* An unknown option, or one without a number or with a wrong one
Wrong == [is |-> "wrong"]
Options == Plain \cup Numbered("baud", Rates) \cup Numbered("stop", {1, 2}) \cup {Wrong}

-----------------------------------------------------------------------------
(* parse_args *)

Init ==
  /\ args = <<>> /\ rate = DefaultRate /\ print_time = FALSE
  /\ c_cflag = {CREAD, CLOCAL} \cup CS.eight /\ c_iflag = {}
  /\ stage = "parse" /\ g_stop = FALSE /\ readable = FALSE /\ unplugged = FALSE

\* Mutant of ControlFlags: a second stop bit stays
ControlFlagsKept(o) ==
  CASE o.is \in DOMAIN CS -> c_cflag \cup CS[o.is]
    [] o.is = "stop" -> IF o.num = 2 THEN c_cflag \cup {CSTOPB} ELSE c_cflag
    [] OTHER -> c_cflag

ControlFlags(o) ==
  CASE o.is \in DOMAIN CS -> c_cflag \cup CS[o.is]
    [] o.is = "stop" -> IF o.num = 2 THEN c_cflag \cup {CSTOPB} ELSE c_cflag \ {CSTOPB}
    [] OTHER -> c_cflag

InputFlags(o) ==
  CASE o.is = "odd" -> c_iflag \cup {INPCK, PARODD, PARENB}
    [] o.is = "even" -> c_iflag \cup {INPCK, PARENB}
    [] o.is = "none" -> c_iflag \ {INPCK, PARODD, PARENB}
    [] OTHER -> c_iflag

Parse(o) ==
  /\ stage = "parse" /\ Len(args) < MaxOptions
  /\ args' = Append(args, o)
  /\ rate' = IF o.is = "baud" THEN o.num ELSE rate
  /\ c_cflag' = ControlFlags(o) /\ c_iflag' = InputFlags(o)
  /\ print_time' = (print_time \/ o.is = "time")
  /\ stage' = IF o = Wrong THEN "ended" ELSE "parse"
  /\ UNCHANGED <<g_stop, readable, unplugged>>

\* Without any option the usage is printed
ParseEnds ==
  /\ stage = "parse"
  /\ stage' = IF args = <<>> THEN "ended" ELSE "open"
  /\ UNCHANGED <<settings, g_stop, readable, unplugged>>

-----------------------------------------------------------------------------
(* main *)

\* The port is opened and set up, or cannot be; the handler is installed
Open ==
  /\ stage = "open"
  /\ stage' \in {"test", "ended"}
  /\ UNCHANGED <<settings, g_stop, readable, unplugged>>

Test ==
  /\ stage = "test"
  /\ stage' = IF g_stop THEN "ended" ELSE "select"
  /\ UNCHANGED <<settings, g_stop, readable, unplugged>>

\* A port that is gone is always ready; otherwise the second may pass
Select ==
  /\ stage = "select"
  /\ stage' = IF readable \/ unplugged THEN "read" ELSE "test"
  /\ UNCHANGED <<settings, g_stop, readable, unplugged>>

\* Mutant of Read: the next select comes without a test
ReadOn ==
  /\ stage = "read"
  /\ stage' = "select" /\ readable' = FALSE
  /\ UNCHANGED <<settings, g_stop, unplugged>>

\* What was received is printed; a failure and the end of the port are ignored
Read ==
  /\ stage = "read"
  /\ stage' = "test" /\ readable' = FALSE
  /\ UNCHANGED <<settings, g_stop, unplugged>>

Program == ParseEnds \/ Open \/ Test \/ Select \/ Read

\* SIGINT: before the handler is there it kills; during select() it ends that and the loop,
\* just before it, it does not
Interrupt ==
  /\ stage # "ended"
  /\ \/ stage \in {"parse", "open", "select"} /\ stage' = "ended"
     \/ stage \in {"test", "select", "read"} /\ UNCHANGED stage
  /\ g_stop' = (g_stop \/ stage \in {"test", "select", "read"})
  /\ UNCHANGED <<settings, readable, unplugged>>

\* What the port does while it is open
IsOpen == stage \in {"test", "select", "read"}

Receive ==
  /\ IsOpen /\ ~unplugged
  /\ readable' = TRUE
  /\ UNCHANGED <<settings, stage, g_stop, unplugged>>

Unplug ==
  /\ IsOpen
  /\ unplugged' = TRUE
  /\ UNCHANGED <<settings, stage, g_stop, readable>>

Next == (\E o \in Options : Parse(o)) \/ Program \/ Interrupt \/ Receive \/ Unplug

Spec == Init /\ [][Next]_vars /\ WF_vars(Program)

-----------------------------------------------------------------------------
(* Properties *)

TypeOK ==
  /\ Len(args) <= MaxOptions /\ rate \in Rates \cup {DefaultRate} /\ print_time \in BOOLEAN
  /\ c_cflag \subseteq 0 .. 15 /\ c_iflag \subseteq 0 .. 15
  /\ stage \in {"parse", "open", "test", "select", "read", "ended"}

\* The last option of a kind, and its number
IsLast(i, option) == args[i].is = option /\ \A j \in i + 1 .. Len(args) : args[j].is # option
LastNumber(option, n) == \E i \in DOMAIN args : IsLast(i, option) /\ args[i].num = n
Never(option) == \A i \in DOMAIN args : args[i].is # option

SinceNone(options) ==
  \E i \in DOMAIN args : args[i].is \in options
                          /\ \A j \in i + 1 .. Len(args) : args[j].is # "none"

\* The port is opened with the settings that the usage promises, but for two: a word has
\* always eight bits, and a parity is neither made nor checked by it; it turns each received
\* carriage return into a line feed instead (parse_args, print_usage).
SettingsRight ==
  stage \in {"open", "test", "select", "read"} =>
    /\ LastNumber("baud", rate) \/ (Never("baud") /\ rate = DefaultRate)
    /\ CSTOPB \in c_cflag <=> LastNumber("stop", 2)
    /\ print_time <=> \E i \in DOMAIN args : args[i].is = "time"
    /\ CS.eight \subseteq c_cflag
    /\ {PARENB, PARODD} \cap c_cflag = {}
    /\ ICRNL \in c_iflag <=> SinceNone({"odd", "even"})
    /\ IUCLC \in c_iflag <=> SinceNone({"odd"})

\* SIGINT ends the program, whatever the port does (term_handler, main).
StopEnds == g_stop ~> stage = "ended"
=============================================================================
