------------------------------ MODULE Robostix ------------------------------
(***************************************************************************)
(* packages/robostix-module and robostix-cmdline: the driver of the pins   *)
(* between a gumstix and the AVR on a robostix board, the script that      *)
(* starts it, and its two users: the robostix command, and avrdude, which  *)
(* takes the driver for a parallel port.  The serial line to the AVR is on *)
(* two of the pins and is lent to avrdude.                                 *)
(*                                                                         *)
(* An ioctl runs under the big kernel lock, which it holds except while    *)
(* it sleeps.                                                              *)
(***************************************************************************)
EXTENDS Integers, Sequences

CONSTANTS
    Tools,        \* processes that run the robostix command
    Programmers,  \* processes that run avrdude
    Commands,     \* what the users ask the robostix command for
    Flips,        \* the bits of the data register that avrdude changes
    BootPins,     \* the pins as the boot loader may leave them
    Faults

Ir == {"txd", "rxd"}
Pin == Ir \cup {"vcc5", "245", "reset", "sck", "ss", "mosi", "miso"}
Mode == [af : 0 .. 2, out : BOOLEAN, edge : BOOLEAN]
Bit == {0, 1}
\* What the data register of the parallel port is mapped to.
DataBits == {"vcc5", "reset", "sck", "txd"}

Command ==
    [op : {"power", "245", "sck", "ss", "mosi", "txd"}, arg : Bit]
    \cup [op : {"reset"}, arg : 0 .. 2]
    \cup [op : {"rxd"}, arg : {0}]

AllFaults ==
    {"load",   \* a registration in robostix_init fails
     "kill",   \* avrdude is killed while it programs
     "gpio"}   \* a write to /proc/gpio fails

ASSUME RobostixAssumption ==
    /\ Commands \subseteq Command
    /\ BootPins \subseteq [Pin -> [mode : Mode, latch : Bit]]
    /\ Flips \subseteq DataBits
    /\ Faults \subseteq AllFaults

VARIABLES
    mode,     \* GAFR, GPDR and GRER/GFER of each pin
    latch,    \* what GPSR and GPCR last made of each pin
    module,   \* "out", "init" or "in"
    step,     \* where robostix_init is
    reg,      \* what the driver has registered
    left,     \* what a failed robostix_init has left registered
    saved,    \* gIrTxdConfig and gIrRxdConfig
    tool,     \* the robostix commands
    avr,      \* the avrdudes, with their shadow of the data register
    script,   \* where robostix.init is
    tested    \* somebody has tried the serial pins by hand

pins == <<mode, latch>>
driver == <<module, step, reg, left>>
vars == <<pins, driver, saved, tool, avr, script, tested>>

Gpio(out) == [af |-> 0, out |-> out, edge |-> FALSE]
Idle == [pc |-> "idle"]
NotStarted == [pc |-> "idle", data |-> {}]

Init ==
    /\ \E b \in BootPins : /\ mode = [p \in Pin |-> b[p].mode]
                           /\ latch = [p \in Pin |-> b[p].latch]
    /\ module = "out" /\ step = 0 /\ reg = {} /\ left = {}
    /\ saved = [p \in Ir |-> [mode |-> Gpio(FALSE), level |-> 0]]
    /\ tool = [t \in Tools |-> Idle]
    /\ avr = [a \in Programmers |-> NotStarted]
    /\ script = "boot" /\ tested = FALSE

-----------------------------------------------------------------------------
\* SET_GPIO for the pins that f is defined on.
SET_GPIO(f) ==
    latch' = [p \in Pin |-> IF p \in DOMAIN f THEN f[p] ELSE latch[p]]

robostix_configure_pin(p, out) == mode' = [mode EXCEPT ![p] = Gpio(out)]

\* What GPLR may say: a pin that is not driven is anything.
Driven(p) == mode[p].af = 0 /\ mode[p].out
GET_GPIO(p) == IF Driven(p) THEN {latch[p]} ELSE Bit

-----------------------------------------------------------------------------
(***************************************************************************)
(* robostix_init: a number, the pins one by one, and what makes the device *)
(* visible.  It returns at the first failure, with all that it has.        *)
(***************************************************************************)
Set(p, v) == [op |-> "set", pin |-> p, level |-> v]
Conf(p, o) == [op |-> "conf", pin |-> p, out |-> o]

\* Mutation: the pins are made outputs before they have their levels.
InitPinsGlitch ==
    <<Conf("miso", FALSE),
      Conf("vcc5", TRUE), Set("vcc5", 1), Conf("reset", TRUE), Set("reset", 0),
      Conf("sck", TRUE), Conf("ss", TRUE), Conf("mosi", TRUE),
      Conf("245", TRUE), Set("245", 0)>>

InitPins ==
    <<Conf("miso", FALSE),
      Set("vcc5", 1), Conf("vcc5", TRUE), Set("reset", 0), Conf("reset", TRUE),
      Conf("sck", TRUE), Conf("ss", TRUE), Conf("mosi", TRUE),
      Set("245", 0), Conf("245", TRUE)>>

Alloc ==
    /\ script = "modprobe" /\ module = "out"
    /\ reg' = {"region", "sysctl"}
    /\ module' = "init" /\ step' = 1
    /\ UNCHANGED <<pins, left, saved, tool, avr, script, tested>>

InitPin ==
    /\ module = "init" /\ step \in DOMAIN InitPins
    /\ LET i == InitPins[step] IN
          \/ i.op = "set" /\ SET_GPIO([p \in {i.pin} |-> i.level])
                          /\ mode' = mode
          \/ i.op = "conf" /\ robostix_configure_pin(i.pin, i.out)
                           /\ latch' = latch
    /\ step' = step + 1
    /\ UNCHANGED <<module, reg, left, saved, tool, avr, script, tested>>

Registered == module = "init" /\ step = Len(InitPins) + 1

\* class_device_create, the last, may fail unseen: there is no node then.
CdevAdd ==
    /\ Registered
    /\ reg' \in {reg \cup {"cdev", "class", "node"}, reg \cup {"cdev", "class"}}
    /\ module' = "in" /\ step' = 0 /\ script' = "release"
    /\ UNCHANGED <<pins, left, saved, tool, avr, tested>>

InitFails ==
    /\ "load" \in Faults
    /\ \/ script = "modprobe" /\ module = "out" /\ left' = left
       \/ Registered /\ left' \in {left \cup reg, left \cup reg \cup {"cdev"}}
    /\ module' = "out" /\ step' = 0 /\ reg' = {} /\ script' = "release"
    /\ UNCHANGED <<pins, saved, tool, avr, tested>>

-----------------------------------------------------------------------------
\* fops.owner: while a file is open the module stays.
Open ==
    (\E t \in Tools : tool[t].pc # "idle")
    \/ (\E a \in Programmers : avr[a].pc # "idle")

\* Mutation: the file operations have no owner.
ExitUnowned ==
    /\ module = "in"
    /\ module' = "out" /\ reg' = {}
    /\ UNCHANGED <<pins, step, left, saved, tool, avr, script, tested>>

robostix_exit ==
    /\ module = "in" /\ ~Open
    /\ module' = "out" /\ reg' = {}
    /\ UNCHANGED <<pins, step, left, saved, tool, avr, script, tested>>

-----------------------------------------------------------------------------
(***************************************************************************)
(* robostix.init: start writes /proc/gpio and loads the driver; whatever   *)
(* fails, it goes on.                                                      *)
(***************************************************************************)
proc_gpio(p, m, v) ==
    /\ mode' = [mode EXCEPT ![p] = [m EXCEPT !.edge = mode[p].edge]]
    /\ latch' = [latch EXCEPT ![p] = v]

Uart(p) == IF p = "rxd" THEN [af |-> 2, out |-> FALSE, edge |-> FALSE]
           ELSE [af |-> 1, out |-> TRUE, edge |-> FALSE]

Start ==
    /\ script \in {"boot", "idle"} /\ script' = "rxd"
    /\ UNCHANGED <<pins, driver, saved, tool, avr, tested>>

Unwritten == "gpio" \in Faults /\ UNCHANGED pins

StartPin ==
    /\ \/ /\ script = "rxd" /\ script' = "txd"
          /\ proc_gpio("rxd", Uart("rxd"), latch["rxd"]) \/ Unwritten
       \/ /\ script = "txd" /\ script' = "245"
          /\ proc_gpio("txd", Uart("txd"), latch["txd"]) \/ Unwritten
       \/ /\ script = "245" /\ script' = "vcc5"
          /\ proc_gpio("245", Gpio(TRUE), 0) \/ Unwritten
       \/ /\ script = "vcc5" /\ script' = "modprobe"
          /\ proc_gpio("vcc5", Gpio(TRUE), 1) \/ Unwritten
       \/ /\ script = "release" /\ script' = "idle"
          /\ proc_gpio("reset", Gpio(TRUE), 1) \/ Unwritten
    /\ UNCHANGED <<driver, saved, tool, avr, tested>>

Loaded ==
    /\ script = "modprobe" /\ module = "in" /\ script' = "release"
    /\ UNCHANGED <<pins, driver, saved, tool, avr, tested>>

\* restart is stop and start.
Stop ==
    /\ script \in {"boot", "idle"} /\ script' \in {script, "rxd"}
    /\ proc_gpio("reset", Gpio(TRUE), 0) \/ Unwritten
    /\ UNCHANGED <<driver, saved, tool, avr, tested>>

-----------------------------------------------------------------------------
\* The robostix command: one ioctl, and its exit closes the file.
ToolOpen(t) ==
    /\ tool[t].pc = "idle" /\ "node" \in reg
    /\ \E c \in Commands :
          tool' = [tool EXCEPT ![t] = [pc |-> "open", cmd |-> c]]
    /\ UNCHANGED <<pins, driver, saved, avr, script, tested>>

Asks(t, ops) == tool[t].pc = "open" /\ tool[t].cmd.op \in ops
ToolExits(t) == tool' = [tool EXCEPT ![t] = Idle]

\* The levels that a command gives: reset, 245 and its like are active low.
Levels(c) ==
    CASE c.op = "power" ->
             [p \in {"vcc5", "245"} |-> IF p = "vcc5" THEN c.arg ELSE 1 - c.arg]
      [] c.op = "reset" ->
             [p \in {"reset"} |-> IF c.arg = 2 THEN 1 ELSE 1 - c.arg]
      [] c.op = "245" -> [p \in {"245"} |-> 1 - c.arg]
      [] OTHER -> [p \in {c.op} |-> c.arg]

SetPins(t) ==
    /\ \/ Asks(t, {"power", "reset", "sck", "ss", "mosi"})
       \/ Asks(t, {"245"}) /\ tool[t].cmd.arg = 0
    /\ SET_GPIO(Levels(tool[t].cmd)) /\ mode' = mode
    /\ ToolExits(t)
    /\ UNCHANGED <<driver, saved, avr, script, tested>>

\* The warning that the console may go is printed, and given time.
Warn245(t) ==
    /\ Asks(t, {"245"}) /\ tool[t].cmd.arg # 0
    /\ tool' = [tool EXCEPT ![t].pc = "asleep"]
    /\ UNCHANGED <<pins, driver, saved, avr, script, tested>>

Wake245(t) ==
    /\ tool[t].pc = "asleep"
    /\ SET_GPIO(Levels(tool[t].cmd)) /\ mode' = mode
    /\ ToolExits(t)
    /\ UNCHANGED <<driver, saved, avr, script, tested>>

\* Somebody who tests the serial pins has to put them back himself.
TestIr(t) ==
    /\ Asks(t, Ir)
    /\ robostix_configure_pin(tool[t].cmd.op, tool[t].cmd.op = "txd")
    /\ IF tool[t].cmd.op = "txd" THEN SET_GPIO(Levels(tool[t].cmd))
       ELSE latch' = latch
    /\ ToolExits(t) /\ tested' = TRUE
    /\ UNCHANGED <<driver, saved, avr, script>>

-----------------------------------------------------------------------------
\* avrdude, and the ioctls of the parallel port that it knows.
Claims(a) == avr[a].pc \in {"claimed", "ready"}

AvrOpen(a) ==
    /\ avr[a].pc = "idle" /\ "node" \in reg
    /\ avr' = [avr EXCEPT ![a].pc = "open"]
    /\ UNCHANGED <<pins, driver, saved, tool, script, tested>>

\* GPLR is read with the rest.
robostix_get_pin_config(p, level) == [mode |-> mode[p], level |-> level]

\* The level goes back inverted: a 0 is set, anything else cleared.
robostix_set_pin_config ==
    /\ mode' = [p \in Pin |-> IF p \in Ir THEN saved[p].mode ELSE mode[p]]
    /\ SET_GPIO([p \in Ir |-> 1 - saved[p].level])

\* Mutation: the serial pins are saved after they have become GPIO.
PPCLAIMLate(a) ==
    /\ avr[a].pc = "open" /\ avr' = [avr EXCEPT ![a].pc = "claimed"]
    /\ mode' = [p \in Pin |-> IF p \in Ir THEN Gpio(p = "txd") ELSE mode[p]]
    /\ \E f \in [Ir -> Bit] :
          /\ \A p \in Ir : f[p] \in GET_GPIO(p)
          /\ saved' = [p \in Ir |-> [mode |-> Gpio(p = "txd"), level |-> f[p]]]
    /\ UNCHANGED <<latch, driver, tool, script, tested>>

PPCLAIM(a) ==
    /\ avr[a].pc = "open" /\ avr' = [avr EXCEPT ![a].pc = "claimed"]
    /\ \E f \in [Ir -> Bit] :
          /\ \A p \in Ir : f[p] \in GET_GPIO(p)
          /\ saved' = [p \in Ir |-> robostix_get_pin_config(p, f[p])]
    /\ mode' = [p \in Pin |-> IF p \in Ir THEN Gpio(p = "txd") ELSE mode[p]]
    /\ UNCHANGED <<latch, driver, tool, script, tested>>

\* Once, for avrdude's shadow of the register.
PPRDATA(a) ==
    /\ avr[a].pc = "claimed"
    /\ \E f \in [DataBits -> Bit] :
          /\ \A p \in DataBits : f[p] \in GET_GPIO(p)
          /\ avr' = [avr EXCEPT ![a] = [pc |-> "ready",
                                       data |-> {p \in DataBits : f[p] = 1}]]
    /\ UNCHANGED <<pins, driver, saved, tool, script, tested>>

\* avrdude changes one bit of its shadow, and all of them are written.
PPWDATA(a) ==
    /\ avr[a].pc = "ready"
    /\ \E b \in Flips :
          avr' = [avr EXCEPT ![a].data =
                      IF b \in @ THEN @ \ {b} ELSE @ \cup {b}]
    /\ SET_GPIO([p \in DataBits \cup {"245"} |->
                     IF p = "245" THEN IF "vcc5" \in avr'[a].data THEN 0 ELSE 1
                     ELSE IF p \in avr'[a].data THEN 1 ELSE 0])
    /\ UNCHANGED <<mode, driver, saved, tool, script, tested>>

PPRELEASE(a) ==
    /\ Claims(a) /\ avr' = [avr EXCEPT ![a] = [pc |-> "released", data |-> {}]]
    /\ robostix_set_pin_config
    /\ UNCHANGED <<driver, saved, tool, script, tested>>

\* robostix_release does nothing, for who has released and who was killed.
AvrClose(a) ==
    /\ \/ avr[a].pc \in {"open", "released"}
       \/ Claims(a) /\ "kill" \in Faults
    /\ avr' = [avr EXCEPT ![a] = NotStarted]
    /\ UNCHANGED <<pins, driver, saved, tool, script, tested>>

Next ==
    \/ Alloc \/ InitPin \/ CdevAdd \/ InitFails \/ robostix_exit
    \/ Start \/ StartPin \/ Loaded \/ Stop
    \/ \E t \in Tools :
          ToolOpen(t) \/ SetPins(t) \/ Warn245(t) \/ Wake245(t) \/ TestIr(t)
    \/ \E a \in Programmers :
          AvrOpen(a) \/ PPCLAIM(a) \/ PPRDATA(a) \/ PPWDATA(a) \/ PPRELEASE(a)
          \/ AvrClose(a)

Spec == Init /\ [][Next]_vars

-----------------------------------------------------------------------------
Resource == {"region", "sysctl", "cdev", "class", "node"}

TypeOK ==
    /\ mode \in [Pin -> Mode]
    /\ latch \in [Pin -> Bit]
    /\ module \in {"out", "init", "in"}
    /\ step \in 0 .. Len(InitPins) + 1
    /\ reg \in SUBSET Resource /\ left \in SUBSET Resource
    /\ saved \in [Ir -> [mode : Mode, level : Bit]]
    /\ tool \in [Tools -> {Idle} \cup [pc : {"open", "asleep"}, cmd : Commands]]
    /\ avr \in [Programmers ->
                   [pc : {"idle", "open", "claimed", "ready", "released"},
                    data : SUBSET DataBits]]
    /\ script \in {"boot", "rxd", "txd", "245", "vcc5", "modprobe", "release",
                   "idle"}
    /\ tested \in BOOLEAN

OnUart(m, p) == m.af = Uart(p).af /\ m.out = Uart(p).out

(***************************************************************************)
(* "We use this opportunity to restore the state of the IR TxD/RxD lines   *)
(* back to what they were" (robostix.c:939): when nobody programs the AVR, *)
(* the serial line is a serial line, whatever the commands, a restart of   *)
(* the script and a reload of the driver did meanwhile.  Who tests the     *)
(* pins by hand is on his own (robostix.c:729).                            *)
(***************************************************************************)
SerialBack ==
    module = "in" /\ ~tested /\ (\A a \in Programmers : ~Claims(a))
    => \A p \in Ir : OnUart(mode[p], p)

(***************************************************************************)
(* "We set the GPIO value register before setting configuring it as a GPIO *)
(* so that we don't create a glitch" (robostix.c:506): the moment that     *)
(* robostix_init begins to drive a pin, the pin has its level.             *)
(***************************************************************************)
Wanted == [p \in {"vcc5", "reset", "245"} |-> IF p = "vcc5" THEN 1 ELSE 0]
NoGlitch ==
    [][module = "init" =>
          \A p \in DOMAIN Wanted :
              ~Driven(p) /\ Driven(p)' => latch'[p] = Wanted[p]]_vars

(***************************************************************************)
(* Who opens the node meets a whole driver, and it does not go away under  *)
(* him, asleep in an ioctl or not.                                         *)
(***************************************************************************)
Served ==
    /\ "node" \in reg => {"region", "cdev", "class"} \subseteq reg
    /\ "node" \in reg \/ Open => module = "in"

-----------------------------------------------------------------------------
\* "Restores the pin configuration to a previously saved" one (robostix.c:370).
LevelBack ==
    [][\A a \in Programmers :
          Claims(a) /\ avr'[a].pc = "released" =>
              \A p \in Ir : saved[p].mode = Gpio(TRUE) =>
                                latch'[p] = saved[p].level]_vars

\* "Warning turning '245 off" (robostix.c:698) is said before it goes off.
WarnedOff ==
    [][\A t \in Tools :
          /\ tool[t] # Idle /\ tool'[t] = Idle /\ tool[t].cmd.op = "245"
          /\ latch["245"] = 0 /\ latch'["245"] = 1
          => tool[t].pc = "asleep"]_vars

\* A driver that is not loaded has nothing registered.
NothingLeft == left = {}
=============================================================================
