--------------------------- MODULE RobostixProofs ---------------------------
(***************************************************************************)
(* Proofs about Robostix: types, the registration and, for one avrdude     *)
(* that is not killed, the serial line.                                    *)
(***************************************************************************)
EXTENDS Robostix, TLAPS

-----------------------------------------------------------------------------
\* What SET_GPIO makes of the latches.
LEMMA SetTyped ==
    ASSUME latch \in [Pin -> Bit], NEW f,
           \A p \in DOMAIN f : f[p] \in Bit, SET_GPIO(f)
    PROVE  latch' \in [Pin -> Bit]
  BY DEF SET_GPIO

\* What robostix_configure_pin and /proc/gpio make of a pin.
LEMMA ConfTyped ==
    ASSUME mode \in [Pin -> Mode], NEW p \in Pin, NEW o \in BOOLEAN,
           robostix_configure_pin(p, o)
    PROVE  mode' \in [Pin -> Mode]
  BY DEF robostix_configure_pin, Gpio, Mode

LEMMA ProcTyped ==
    ASSUME mode \in [Pin -> Mode], latch \in [Pin -> Bit],
           NEW p \in Pin, NEW m \in Mode, NEW v \in Bit, proc_gpio(p, m, v)
    PROVE  mode' \in [Pin -> Mode] /\ latch' \in [Pin -> Bit]
  BY DEF proc_gpio, Mode

LEMMA Modes ==
    /\ \A o \in BOOLEAN : Gpio(o) \in Mode
    /\ \A p \in Ir : Uart(p) \in Mode
  BY DEF Gpio, Uart, Mode

\* The table of robostix_init names pins, and none of the serial ones.
LEMMA InitTable ==
    ASSUME NEW i \in DOMAIN InitPins
    PROVE  /\ InitPins[i].pin \in Pin \ Ir
           /\ InitPins[i].op = "set" => InitPins[i].level \in Bit
           /\ InitPins[i].op = "conf" => InitPins[i].out \in BOOLEAN
           /\ i \in 1 .. Len(InitPins)
  <1>1. i \in 1 .. 10 /\ Len(InitPins) = 10
    BY DEF InitPins
  <1>2. \/ InitPins[i] \in {Set("vcc5", 1), Set("reset", 0), Set("245", 0)}
        \/ InitPins[i] \in {Conf("miso", FALSE), Conf("vcc5", TRUE),
                            Conf("reset", TRUE), Conf("sck", TRUE),
                            Conf("ss", TRUE), Conf("mosi", TRUE),
                            Conf("245", TRUE)}
    <2>1. /\ InitPins[1] = Conf("miso", FALSE) /\ InitPins[2] = Set("vcc5", 1)
          /\ InitPins[3] = Conf("vcc5", TRUE) /\ InitPins[4] = Set("reset", 0)
          /\ InitPins[5] = Conf("reset", TRUE) /\ InitPins[6] = Conf("sck", TRUE)
          /\ InitPins[7] = Conf("ss", TRUE) /\ InitPins[8] = Conf("mosi", TRUE)
          /\ InitPins[9] = Set("245", 0) /\ InitPins[10] = Conf("245", TRUE)
      BY DEF InitPins
    <2>2. \/ i = 1 \/ i = 2 \/ i = 3 \/ i = 4 \/ i = 5
          \/ i = 6 \/ i = 7 \/ i = 8 \/ i = 9 \/ i = 10
      BY <1>1
    <2> QED
      BY <2>1, <2>2, Zenon
  <1>3. CASE InitPins[i] \in {Set("vcc5", 1), Set("reset", 0), Set("245", 0)}
    BY <1>1, <1>3 DEF Set, Pin, Ir, Bit
  <1>4. CASE InitPins[i] \in {Conf("miso", FALSE), Conf("vcc5", TRUE),
                              Conf("reset", TRUE), Conf("sck", TRUE),
                              Conf("ss", TRUE), Conf("mosi", TRUE),
                              Conf("245", TRUE)}
    <2>1. PICK p \in {"miso", "vcc5", "reset", "sck", "ss", "mosi", "245"},
                o \in BOOLEAN : InitPins[i] = Conf(p, o)
      BY <1>4
    <2>2. p \in Pin \ Ir
      BY DEF Pin, Ir
    <2>3. InitPins[i] = [op |-> "conf", pin |-> p, out |-> o]
      BY <2>1 DEF Conf
    <2> QED
      BY <1>1, <2>2, <2>3
  <1> QED
    BY <1>2, <1>3, <1>4

LEMMA LevelsTyped ==
    ASSUME NEW c \in Command, c.op # "rxd"
    PROVE  \A p \in DOMAIN Levels(c) : Levels(c)[p] \in Bit
  <1>1. CASE c.op = "power"
    BY <1>1 DEF Levels, Command, Bit
  <1>2. CASE c.op = "reset"
    BY <1>2 DEF Levels, Command, Bit
  <1>3. CASE c.op = "245"
    BY <1>3 DEF Levels, Command, Bit
  <1>4. CASE c.op \notin {"power", "reset", "245"}
    <2>1. c.arg \in Bit
      BY <1>4 DEF Command
    <2> QED
      BY <1>4, <2>1 DEF Levels
  <1> QED
    BY <1>1, <1>2, <1>3, <1>4

\* A command that a process was started with.
LEMMA CommandTyped ==
    ASSUME TypeOK, NEW t \in Tools, tool[t].pc # "idle"
    PROVE  tool[t].pc \in {"open", "asleep"} /\ tool[t].cmd \in Commands
           /\ tool[t].cmd \in Command
  BY RobostixAssumption DEF TypeOK, Idle

LEMMA GpioBit ==
    ASSUME TypeOK, NEW p \in Pin
    PROVE  GET_GPIO(p) \subseteq Bit
  BY DEF TypeOK, GET_GPIO

-----------------------------------------------------------------------------
LEMMA InitTyped == Init => TypeOK
  <1> SUFFICES ASSUME Init PROVE TypeOK
    OBVIOUS
  <1> USE DEF Init
  <1>1. mode \in [Pin -> Mode] /\ latch \in [Pin -> Bit]
    BY RobostixAssumption
  <1>2. saved \in [Ir -> [mode : Mode, level : Bit]]
    BY Modes DEF Bit
  <1>3. step \in 0 .. Len(InitPins) + 1
    BY DEF InitPins
  <1>4. avr \in [Programmers ->
                    [pc : {"idle", "open", "claimed", "ready", "released"},
                     data : SUBSET DataBits]]
    BY DEF NotStarted
  <1> QED
    BY <1>1, <1>2, <1>3, <1>4 DEF TypeOK, Resource

LEMMA DriverTyped ==
    ASSUME TypeOK, Alloc \/ InitPin \/ CdevAdd \/ InitFails \/ robostix_exit
    PROVE  TypeOK'
  <1> USE DEF TypeOK, driver, pins, Resource
  <1>0. Len(InitPins) \in Nat /\ DOMAIN InitPins = 1 .. Len(InitPins)
    BY DEF InitPins
  <1>1. CASE Alloc
    BY <1>0, <1>1 DEF Alloc
  <1>2. CASE InitPin
    <2>1. step' \in 0 .. Len(InitPins) + 1
      BY <1>0, <1>2 DEF InitPin
    <2>2. mode' \in [Pin -> Mode] /\ latch' \in [Pin -> Bit]
      <3> DEFINE i == InitPins[step]
      <3>1. step \in DOMAIN InitPins
        BY <1>2 DEF InitPin
      <3>2. CASE i.op = "set" /\ SET_GPIO([p \in {i.pin} |-> i.level])
                 /\ mode' = mode
        <4>1. \A p \in DOMAIN [q \in {i.pin} |-> i.level] :
                  [q \in {i.pin} |-> i.level][p] \in Bit
          BY <3>1, <3>2, InitTable
        <4> QED
          BY <3>2, <4>1, SetTyped
      <3>3. CASE i.op = "conf" /\ robostix_configure_pin(i.pin, i.out)
                 /\ latch' = latch
        BY <3>1, <3>3, InitTable, ConfTyped
      <3> QED
        BY <1>2, <3>2, <3>3 DEF InitPin
    <2> QED
      BY <1>2, <2>1, <2>2 DEF InitPin
  <1>3. CASE CdevAdd
    BY <1>0, <1>3 DEF CdevAdd
  <1>4. CASE InitFails
    <2>1. left' \in SUBSET Resource
      BY <1>4 DEF InitFails
    <2>2. /\ module' = "out" /\ reg' = {} /\ script' = "release"
          /\ step' \in 0 .. Len(InitPins) + 1
      BY <1>0, <1>4 DEF InitFails
    <2> QED
      BY <1>4, <2>1, <2>2 DEF InitFails
  <1>5. CASE robostix_exit
    BY <1>5 DEF robostix_exit
  <1> QED
    BY <1>1, <1>2, <1>3, <1>4, <1>5

LEMMA ScriptTyped ==
    ASSUME TypeOK, Start \/ StartPin \/ Loaded \/ Stop
    PROVE  TypeOK'
  <1>1. CASE Start
    BY <1>1 DEF Start, TypeOK, pins, driver
  <1>2. CASE StartPin
    <2>1. mode' \in [Pin -> Mode] /\ latch' \in [Pin -> Bit]
      <3>1. Uart("rxd") \in Mode /\ Uart("txd") \in Mode /\ Gpio(TRUE) \in Mode
        BY Modes DEF Ir
      <3>2. {"rxd", "txd", "245", "vcc5", "reset"} \subseteq Pin
        BY DEF Pin, Ir
      <3>3. latch["rxd"] \in Bit /\ latch["txd"] \in Bit
        BY <3>2 DEF TypeOK
      <3>4. 0 \in Bit /\ 1 \in Bit
        BY DEF Bit
      <3>5. mode \in [Pin -> Mode] /\ latch \in [Pin -> Bit]
        BY DEF TypeOK
      <3>6. CASE Unwritten
        BY <3>5, <3>6 DEF Unwritten, pins
      <3>7. CASE ~Unwritten
        BY <1>2, <3>1, <3>2, <3>3, <3>4, <3>5, <3>7, ProcTyped DEF StartPin
      <3> QED
        BY <3>6, <3>7
    <2> QED
      BY <1>2, <2>1 DEF StartPin, TypeOK, driver
  <1>3. CASE Loaded
    BY <1>3 DEF Loaded, TypeOK, pins, driver
  <1>4. CASE Stop
    <2>1. Gpio(TRUE) \in Mode /\ "reset" \in Pin /\ 0 \in Bit
      BY Modes DEF Pin, Bit
    <2>2. mode' \in [Pin -> Mode] /\ latch' \in [Pin -> Bit]
      <3>1. CASE Unwritten
        BY <3>1 DEF Unwritten, pins, TypeOK
      <3>2. CASE ~Unwritten
        BY <1>4, <2>1, <3>2, ProcTyped DEF Stop, TypeOK
      <3> QED
        BY <3>1, <3>2
    <2> QED
      BY <1>4, <2>2 DEF Stop, TypeOK, driver
  <1> QED
    BY <1>1, <1>2, <1>3, <1>4

LEMMA ToolTyped ==
    ASSUME TypeOK, NEW t \in Tools,
           ToolOpen(t) \/ SetPins(t) \/ Warn245(t) \/ Wake245(t) \/ TestIr(t)
    PROVE  TypeOK'
  <1> DEFINE Tool == {Idle} \cup [pc : {"open", "asleep"}, cmd : Commands]
  <1>0. tool \in [Tools -> Tool]
    BY DEF TypeOK
  <1>1. CASE ToolOpen(t)
    <2>1. PICK c \in Commands :
              tool' = [tool EXCEPT ![t] = [pc |-> "open", cmd |-> c]]
      BY <1>1 DEF ToolOpen
    <2>2. tool' \in [Tools -> Tool]
      BY <1>0, <2>1
    <2> QED
      BY <1>1, <2>2 DEF ToolOpen, TypeOK, pins, driver
  <1>2. CASE SetPins(t)
    <2>1. tool[t].cmd \in Command /\ tool[t].cmd.op # "rxd"
      BY <1>2, CommandTyped DEF SetPins, Asks
    <2>2. latch' \in [Pin -> Bit]
      BY <1>2, <2>1, LevelsTyped, SetTyped DEF SetPins, TypeOK
    <2>3. tool' \in [Tools -> Tool]
      BY <1>0, <1>2 DEF SetPins, ToolExits
    <2> QED
      BY <1>2, <2>2, <2>3 DEF SetPins, TypeOK, driver
  <1>3. CASE Warn245(t)
    <2>1. tool[t].cmd \in Commands /\ tool[t].pc = "open"
      BY <1>3, CommandTyped DEF Warn245, Asks
    <2>2. tool[t] \in [pc : {"open", "asleep"}, cmd : Commands]
      BY <1>0, <2>1 DEF Idle
    <2>3. tool' \in [Tools -> Tool]
      BY <1>0, <1>3, <2>2 DEF Warn245
    <2> QED
      BY <1>3, <2>3 DEF Warn245, TypeOK, pins, driver
  <1>4. CASE Wake245(t)
    <2>1. tool[t].cmd \in Command
      BY <1>4, CommandTyped DEF Wake245
    <2>2. CASE tool[t].cmd.op # "rxd"
      <3>1. latch' \in [Pin -> Bit]
        BY <1>4, <2>1, <2>2, LevelsTyped, SetTyped DEF Wake245, TypeOK
      <3>2. tool' \in [Tools -> Tool]
        BY <1>0, <1>4 DEF Wake245, ToolExits
      <3> QED
        BY <1>4, <3>1, <3>2 DEF Wake245, TypeOK, driver
    <2>3. CASE tool[t].cmd.op = "rxd"
      <3>1. \A p \in DOMAIN Levels(tool[t].cmd) : Levels(tool[t].cmd)[p] \in Bit
        BY <2>1, <2>3 DEF Levels, Command, Bit
      <3>2. latch' \in [Pin -> Bit]
        BY <1>4, <3>1, SetTyped DEF Wake245, TypeOK
      <3>3. tool' \in [Tools -> Tool]
        BY <1>0, <1>4 DEF Wake245, ToolExits
      <3> QED
        BY <1>4, <3>2, <3>3 DEF Wake245, TypeOK, driver
    <2> QED
      BY <2>2, <2>3
  <1>5. CASE TestIr(t)
    <2>1. tool[t].cmd \in Command /\ tool[t].cmd.op \in Ir
      BY <1>5, CommandTyped DEF TestIr, Asks
    <2>2. mode' \in [Pin -> Mode]
      BY <1>5, <2>1, ConfTyped DEF TestIr, TypeOK, Pin
    <2>3. latch' \in [Pin -> Bit]
      <3>1. CASE tool[t].cmd.op = "txd"
        BY <1>5, <2>1, <3>1, LevelsTyped, SetTyped DEF TestIr, TypeOK
      <3>2. CASE tool[t].cmd.op # "txd"
        BY <1>5, <3>2 DEF TestIr, TypeOK
      <3> QED
        BY <3>1, <3>2
    <2>4. tool' \in [Tools -> Tool]
      BY <1>0, <1>5 DEF TestIr, ToolExits
    <2> QED
      BY <1>5, <2>2, <2>3, <2>4 DEF TestIr, TypeOK, driver
  <1> QED
    BY <1>1, <1>2, <1>3, <1>4, <1>5

LEMMA AvrTyped ==
    ASSUME TypeOK, NEW a \in Programmers,
           AvrOpen(a) \/ PPCLAIM(a) \/ PPRDATA(a) \/ PPWDATA(a)
           \/ PPRELEASE(a) \/ AvrClose(a)
    PROVE  TypeOK'
  <1> DEFINE Avr == [pc : {"idle", "open", "claimed", "ready", "released"},
                     data : SUBSET DataBits]
  <1>0. avr \in [Programmers -> Avr]
    BY DEF TypeOK
  <1>1. CASE AvrOpen(a)
    <2>1. avr' \in [Programmers -> Avr]
      BY <1>0, <1>1 DEF AvrOpen
    <2> QED
      BY <1>1, <2>1 DEF AvrOpen, TypeOK, pins, driver
  <1>2. CASE PPCLAIM(a)
    <2>1. avr' \in [Programmers -> Avr]
      BY <1>0, <1>2 DEF PPCLAIM
    <2>2. saved' \in [Ir -> [mode : Mode, level : Bit]]
      BY <1>2 DEF PPCLAIM, robostix_get_pin_config, TypeOK, Pin
    <2>3. mode' \in [Pin -> Mode]
      BY <1>2, Modes DEF PPCLAIM, TypeOK
    <2> QED
      BY <1>2, <2>1, <2>2, <2>3 DEF PPCLAIM, TypeOK, driver
  <1>3. CASE PPRDATA(a)
    <2>1. avr' \in [Programmers -> Avr]
      BY <1>0, <1>3 DEF PPRDATA
    <2> QED
      BY <1>3, <2>1 DEF PPRDATA, TypeOK, pins, driver
  <1>4. CASE PPWDATA(a)
    <2>1. avr' \in [Programmers -> Avr]
      BY <1>0, <1>4, RobostixAssumption DEF PPWDATA
    <2>2. latch' \in [Pin -> Bit]
      BY <1>4, SetTyped DEF PPWDATA, TypeOK, Bit
    <2> QED
      BY <1>4, <2>1, <2>2 DEF PPWDATA, TypeOK, driver
  <1>5. CASE PPRELEASE(a)
    <2>1. avr' \in [Programmers -> Avr]
      BY <1>0, <1>5 DEF PPRELEASE
    <2>2. mode' \in [Pin -> Mode]
      BY <1>5 DEF PPRELEASE, robostix_set_pin_config, TypeOK
    <2>3. latch' \in [Pin -> Bit]
      BY <1>5, SetTyped DEF PPRELEASE, robostix_set_pin_config, TypeOK, Bit
    <2> QED
      BY <1>5, <2>1, <2>2, <2>3 DEF PPRELEASE, TypeOK, driver
  <1>6. CASE AvrClose(a)
    <2>1. avr' \in [Programmers -> Avr]
      BY <1>0, <1>6 DEF AvrClose, NotStarted
    <2> QED
      BY <1>6, <2>1 DEF AvrClose, TypeOK, pins, driver
  <1> QED
    BY <1>1, <1>2, <1>3, <1>4, <1>5, <1>6

LEMMA StepTyped == TypeOK /\ [Next]_vars => TypeOK'
  <1> SUFFICES ASSUME TypeOK, [Next]_vars PROVE TypeOK'
    OBVIOUS
  <1>1. CASE UNCHANGED vars
    BY <1>1 DEF vars, TypeOK, pins, driver
  <1> QED
    BY <1>1, DriverTyped, ScriptTyped, ToolTyped, AvrTyped DEF Next

\* The variables keep their types, for any users, pins and faults.
THEOREM Typed == Spec => []TypeOK
  BY InitTyped, StepTyped, PTL DEF Spec

-----------------------------------------------------------------------------
\* How far the driver is, what it has for that, and who may be inside it.
Loading ==
    /\ module = "init" => script = "modprobe" /\ step >= 1
    /\ module = "out" => reg = {}
    /\ module = "init" => reg = {"region", "sysctl"}
    /\ module = "in" => {"region", "cdev", "class"} \subseteq reg
    /\ Open => module = "in"

\* Who starts finds the node; who ends was inside.
LEMMA OpenKept ==
    ASSUME TypeOK, Loading, module' = module,
           \A t \in Tools : tool'[t].pc # "idle" =>
               tool[t].pc # "idle" \/ "node" \in reg,
           \A a \in Programmers : avr'[a].pc # "idle" =>
               avr[a].pc # "idle" \/ "node" \in reg
    PROVE  Open' => module' = "in"
  BY DEF Loading, Open, TypeOK

LEMMA StepLoading == TypeOK /\ Loading /\ [Next]_vars => Loading'
  <1> SUFFICES ASSUME TypeOK, Loading, [Next]_vars PROVE Loading'
    OBVIOUS
  <1> USE DEF Loading
  <1>0. Len(InitPins) = 10
    BY DEF InitPins
  <1>1. CASE Alloc
    BY <1>1 DEF Alloc, Open
  <1>2. CASE InitPin
    BY <1>2 DEF InitPin, Open, TypeOK
  <1>3. CASE CdevAdd
    BY <1>3 DEF CdevAdd, Registered, Open
  <1>4. CASE InitFails
    BY <1>4 DEF InitFails, Registered, Open
  <1>5. CASE robostix_exit
    BY <1>5 DEF robostix_exit, Open
  <1>6. CASE Start \/ StartPin \/ Loaded \/ Stop
    <2>1. UNCHANGED <<module, step, reg, tool, avr>>
      BY <1>6 DEF Start, StartPin, Loaded, Stop, driver
    <2>2. module = "init" => script' = "modprobe"
      BY <1>6 DEF Start, StartPin, Loaded, Stop
    <2> QED
      BY <2>1, <2>2 DEF Open
  <1>7. ASSUME NEW t \in Tools,
               ToolOpen(t) \/ SetPins(t) \/ Warn245(t) \/ Wake245(t) \/ TestIr(t)
        PROVE  Loading'
    <2>1. UNCHANGED <<module, step, reg, avr, script>>
      BY <1>7 DEF ToolOpen, SetPins, Warn245, Wake245, TestIr, driver
    <2>2. \A u \in Tools : tool'[u].pc # "idle" =>
              tool[u].pc # "idle" \/ "node" \in reg
      <3>1. CASE ToolOpen(t)
        BY <3>1 DEF ToolOpen, TypeOK
      <3>2. CASE Warn245(t)
        <4>1. tool' = [tool EXCEPT ![t].pc = "asleep"] /\ tool[t].pc = "open"
          BY <3>2 DEF Warn245, Asks
        <4> QED
          BY <4>1 DEF TypeOK
      <3>3. CASE SetPins(t) \/ Wake245(t) \/ TestIr(t)
        <4>1. tool' = [tool EXCEPT ![t] = Idle]
          BY <3>3 DEF SetPins, Wake245, TestIr, ToolExits
        <4> QED
          BY <4>1 DEF Idle, TypeOK
      <3> QED
        BY <1>7, <3>1, <3>2, <3>3
    <2> QED
      BY <2>1, <2>2, OpenKept
  <1>8. ASSUME NEW a \in Programmers,
               AvrOpen(a) \/ PPCLAIM(a) \/ PPRDATA(a) \/ PPWDATA(a)
               \/ PPRELEASE(a) \/ AvrClose(a)
        PROVE  Loading'
    <2>1. UNCHANGED <<module, step, reg, tool, script>>
      BY <1>8 DEF AvrOpen, PPCLAIM, PPRDATA, PPWDATA, PPRELEASE, AvrClose, driver
    <2>2. \A b \in Programmers : avr'[b].pc # "idle" =>
              avr[b].pc # "idle" \/ "node" \in reg
      <3>1. \A b \in Programmers : b # a => avr'[b] = avr[b]
        BY <1>8 DEF AvrOpen, PPCLAIM, PPRDATA, PPWDATA, PPRELEASE, AvrClose, TypeOK
      <3>2. avr[a].pc # "idle" \/ "node" \in reg
        BY <1>8 DEF AvrOpen, PPCLAIM, PPRDATA, PPWDATA, PPRELEASE, AvrClose, Claims
      <3> QED
        BY <3>1, <3>2
    <2> QED
      BY <2>1, <2>2, OpenKept
  <1>9. CASE UNCHANGED vars
    BY <1>9 DEF vars, driver, Open
  <1> QED
    BY <1>1, <1>2, <1>3, <1>4, <1>5, <1>6, <1>7, <1>8, <1>9 DEF Next

LEMMA InitLoading == Init => Loading
  BY DEF Init, Loading, Open, Idle, NotStarted

LEMMA LoadingServes == TypeOK /\ Loading => Served
  BY DEF Loading, Served, TypeOK

\* The node leads to a whole driver, which stays while somebody is inside.
THEOREM AlwaysServed == Spec => []Served
  <1>1. TypeOK /\ Loading /\ [Next]_vars => TypeOK' /\ Loading'
    BY StepTyped, StepLoading
  <1> QED
    BY <1>1, InitTyped, InitLoading, LoadingServes, PTL DEF Spec

-----------------------------------------------------------------------------
(***************************************************************************)
(* The serial line is where it belongs, or it is what avrdude gives back.  *)
(* One avrdude at a time: a second would save what the first has made.     *)
(***************************************************************************)
OneProgrammer == \A a, b \in Programmers : a = b
NotKilled == "kill" \notin Faults

Lent ==
    /\ (\E a \in Programmers : Claims(a)) =>
           \A p \in Ir : OnUart(saved[p].mode, p)
    /\ (\A a \in Programmers : ~Claims(a)) =>
           \A p \in Ir : OnUart(mode[p], p)

Serial ==
    ~tested =>
        /\ module # "out" \/ script \in {"245", "vcc5", "modprobe"} => Lent
        /\ module = "out" /\ script = "txd" => OnUart(mode["rxd"], "rxd")

IInv == TypeOK /\ Loading /\ Serial

\* A step that leaves the serial pins and avrdude alone.
LEMMA LentSame ==
    ASSUME Lent, saved' = saved, avr' = avr, \A p \in Ir : mode'[p] = mode[p]
    PROVE  Lent'
  BY DEF Lent, Claims

LEMMA SerialSame ==
    ASSUME Serial, UNCHANGED <<module, script, saved, avr, tested>>,
           \A p \in Ir : mode'[p] = mode[p]
    PROVE  Serial'
  BY LentSame DEF Serial, Ir

\* robostix.init makes a serial pin of it.
LEMMA ProcUart ==
    ASSUME TypeOK, NEW q \in Ir, NEW v, proc_gpio(q, Uart(q), v)
    PROVE  OnUart(mode'[q], q)
  <1>1. q \in Pin
    BY DEF Pin
  <1>2. mode'[q] = [Uart(q) EXCEPT !.edge = mode[q].edge]
    BY <1>1 DEF proc_gpio, TypeOK
  <1>3. CASE q = "rxd"
    BY <1>2, <1>3 DEF OnUart, Uart
  <1>4. CASE q = "txd"
    BY <1>2, <1>4 DEF OnUart, Uart
  <1> QED
    BY <1>3, <1>4 DEF Ir

\* Nobody is inside a driver that is not loaded.
LEMMA NoClaims ==
    ASSUME Loading, module # "in"
    PROVE  \A a \in Programmers : ~Claims(a)
  BY DEF Loading, Open, Claims

LEMMA DriverSerial ==
    ASSUME IInv, Alloc \/ InitPin \/ CdevAdd \/ InitFails \/ robostix_exit
    PROVE  Serial'
  <1> USE DEF IInv
  <1>1. CASE Alloc
    BY <1>1, LentSame DEF Alloc, Serial, pins
  <1>2. CASE InitPin
    <2>1. \A p \in Ir : mode'[p] = mode[p]
      BY <1>2, InitTable DEF InitPin, robostix_configure_pin, TypeOK, Pin
    <2> QED
      BY <1>2, <2>1, SerialSame DEF InitPin
  <1>3. CASE CdevAdd
    BY <1>3, LentSame DEF CdevAdd, Registered, Serial, pins
  <1>4. CASE InitFails
    BY <1>4 DEF InitFails, Serial
  <1>5. CASE robostix_exit
    <2>1. \A a \in Programmers : ~Claims(a)
      BY <1>5 DEF robostix_exit, Open, Claims
    <2>2. ~tested => Lent
      BY <1>5 DEF robostix_exit, Serial
    <2>3. ~tested => Lent'
      BY <1>5, <2>2, LentSame DEF robostix_exit, pins
    <2>4. ~tested => OnUart(mode["rxd"], "rxd")
      BY <2>1, <2>2 DEF Lent, Ir
    <2> QED
      BY <1>5, <2>3, <2>4 DEF robostix_exit, Serial, pins
  <1> QED
    BY <1>1, <1>2, <1>3, <1>4, <1>5

\* Each write to /proc/gpio reaches the pin.
GpioWritten == "gpio" \notin Faults

LEMMA ScriptSerial ==
    ASSUME GpioWritten, IInv, Start \/ StartPin \/ Loaded \/ Stop
    PROVE  Serial'
  <1> USE DEF IInv
  <1>w. ~Unwritten
    BY DEF Unwritten, GpioWritten
  <1>0. UNCHANGED <<module, saved, avr, tested>>
    BY DEF Start, StartPin, Loaded, Stop, driver
  <1>1. CASE Start
    BY <1>0, <1>1, LentSame DEF Start, Serial, pins
  <1>2. CASE script = "rxd" /\ script' = "txd"
             /\ proc_gpio("rxd", Uart("rxd"), latch["rxd"])
    <2>1. OnUart(mode'["rxd"], "rxd") /\ mode'["txd"] = mode["txd"]
      BY <1>2, ProcUart DEF proc_gpio, TypeOK, Ir, Pin
    <2>2. ~tested /\ module # "out" => Lent'
      BY <1>0, <2>1 DEF Serial, Lent, Ir, Claims
    <2> QED
      BY <1>0, <1>2, <2>1, <2>2 DEF Serial
  <1>3. CASE script = "txd" /\ script' = "245"
             /\ proc_gpio("txd", Uart("txd"), latch["txd"])
    <2>1. OnUart(mode'["txd"], "txd") /\ mode'["rxd"] = mode["rxd"]
      BY <1>3, ProcUart DEF proc_gpio, TypeOK, Ir, Pin
    <2>2. ~tested /\ module # "out" => Lent'
      BY <1>0, <2>1 DEF Serial, Lent, Ir, Claims
    <2>3. ~tested /\ module = "out" => Lent'
      <3>1. module = "out" => \A a \in Programmers : ~Claims(a)'
        BY <1>0, NoClaims DEF Claims
      <3> QED
        BY <1>0, <1>3, <2>1, <3>1 DEF Serial, Lent, Ir
    <2> QED
      BY <1>0, <1>3, <2>2, <2>3 DEF Serial
  <1>4. CASE \/ script = "245" /\ script' = "vcc5" /\ proc_gpio("245", Gpio(TRUE), 0)
             \/ script = "vcc5" /\ script' = "modprobe"
                /\ proc_gpio("vcc5", Gpio(TRUE), 1)
             \/ script = "release" /\ script' = "idle"
                /\ proc_gpio("reset", Gpio(TRUE), 1)
    <2>1. \A p \in Ir : mode'[p] = mode[p]
      BY <1>4 DEF proc_gpio, TypeOK, Pin, Ir
    <2> QED
      BY <1>0, <1>4, <2>1, LentSame DEF Serial
  <1>5. CASE Loaded
    BY <1>0, <1>5, LentSame DEF Loaded, Serial, pins
  <1>6. CASE Stop
    <2>1. \A p \in Ir : mode'[p] = mode[p]
      BY <1>w, <1>6 DEF Stop, proc_gpio, TypeOK, Pin, Ir
    <2> QED
      BY <1>0, <1>6, <2>1, LentSame DEF Stop, Serial
  <1> QED
    BY <1>w, <1>1, <1>2, <1>3, <1>4, <1>5, <1>6 DEF StartPin

LEMMA ToolSerial ==
    ASSUME IInv, NEW t \in Tools,
           ToolOpen(t) \/ SetPins(t) \/ Warn245(t) \/ Wake245(t) \/ TestIr(t)
    PROVE  Serial'
  <1>1. CASE TestIr(t)
    BY <1>1 DEF TestIr, Serial
  <1>2. CASE ToolOpen(t) \/ SetPins(t) \/ Warn245(t) \/ Wake245(t)
    BY <1>2, SerialSame
    DEF ToolOpen, SetPins, Warn245, Wake245, IInv, driver, pins
  <1> QED
    BY <1>1, <1>2

LEMMA AvrSerial ==
    ASSUME IInv, OneProgrammer, NotKilled, NEW a \in Programmers,
           AvrOpen(a) \/ PPCLAIM(a) \/ PPRDATA(a) \/ PPWDATA(a)
           \/ PPRELEASE(a) \/ AvrClose(a)
    PROVE  Serial'
  <1> USE DEF IInv
  <1>1. avr \in [Programmers ->
                    [pc : {"idle", "open", "claimed", "ready", "released"},
                     data : SUBSET DataBits]]
    BY DEF TypeOK
  <1>2. \A b \in Programmers : b = a
    BY DEF OneProgrammer
  <1>3. UNCHANGED <<module, script, tested>>
    BY DEF AvrOpen, PPCLAIM, PPRDATA, PPWDATA, PPRELEASE, AvrClose, driver
  <1>4. ASSUME Lent PROVE Lent'
    <2>1. CASE PPCLAIM(a)
      <3>1. ~Claims(a) /\ Claims(a)'
        BY <1>1, <2>1 DEF PPCLAIM, Claims
      <3>2. \A p \in Ir : saved'[p].mode = mode[p]
        BY <2>1 DEF PPCLAIM, robostix_get_pin_config
      <3> QED
        BY <1>2, <1>4, <3>1, <3>2 DEF Lent
    <2>2. CASE PPRELEASE(a)
      <3>1. Claims(a) /\ ~Claims(a)'
        BY <1>1, <2>2 DEF PPRELEASE, Claims
      <3>2. \A p \in Ir : mode'[p] = saved[p].mode
        BY <2>2 DEF PPRELEASE, robostix_set_pin_config, Pin
      <3> QED
        BY <1>2, <1>4, <3>1, <3>2 DEF Lent
    <2>3. CASE AvrOpen(a) \/ PPRDATA(a) \/ PPWDATA(a) \/ AvrClose(a)
      <3>1. mode' = mode /\ saved' = saved
        BY <2>3 DEF AvrOpen, PPRDATA, PPWDATA, AvrClose, pins
      <3>2. Claims(a)' <=> Claims(a)
        <4>1. CASE AvrOpen(a)
          BY <1>1, <4>1 DEF AvrOpen, Claims
        <4>2. CASE PPRDATA(a)
          BY <1>1, <4>2 DEF PPRDATA, Claims
        <4>3. CASE PPWDATA(a)
          <5>1. avr'[a].pc = avr[a].pc
            BY <1>1, <4>3 DEF PPWDATA
          <5> QED
            BY <5>1 DEF Claims
        <4>4. CASE AvrClose(a)
          BY <1>1, <4>4 DEF AvrClose, Claims, NotKilled, NotStarted
        <4> QED
          BY <2>3, <4>1, <4>2, <4>3, <4>4
      <3> QED
        BY <1>2, <1>4, <3>1, <3>2 DEF Lent
    <2> QED
      BY <2>1, <2>2, <2>3
  <1>5. module = "in"
    BY DEF Loading, Open, AvrOpen, PPCLAIM, PPRDATA, PPWDATA, PPRELEASE,
           AvrClose, Claims, TypeOK
  <1> QED
    BY <1>3, <1>4, <1>5 DEF Serial

LEMMA InitSerial == Init => IInv
  BY InitTyped, InitLoading DEF Init, IInv, Serial

LEMMA StepInv ==
    OneProgrammer /\ NotKilled /\ GpioWritten /\ IInv /\ [Next]_vars => IInv'
  <1> SUFFICES ASSUME OneProgrammer, NotKilled, GpioWritten, IInv, [Next]_vars
               PROVE  Serial'
    BY StepTyped, StepLoading DEF IInv
  <1>1. CASE UNCHANGED vars
    BY <1>1, SerialSame DEF vars, pins, driver, IInv
  <1> QED
    BY <1>1, DriverSerial, ScriptSerial, ToolSerial, AvrSerial DEF Next

LEMMA InvBack == IInv => SerialBack
  BY DEF IInv, Serial, Lent, SerialBack

(***************************************************************************)
(* avrdude gives the serial line back, whatever else uses the driver, if   *)
(* there is one avrdude, nobody kills it and /proc/gpio takes what         *)
(* robostix.init writes.                                                   *)
(***************************************************************************)
THEOREM SerialIsBack ==
    ASSUME OneProgrammer, NotKilled, GpioWritten
    PROVE  Spec => []SerialBack
  <1>1. IInv /\ [Next]_vars => IInv'
    BY StepInv
  <1> QED
    BY <1>1, InitSerial, InvBack, PTL DEF Spec

-----------------------------------------------------------------------------
\* Before a pin is made an output its level is there.
Ready ==
    module = "init" =>
        /\ step = 3 => latch["vcc5"] = 1
        /\ step = 5 => latch["reset"] = 0
        /\ step = 10 => latch["245"] = 0

\* While robostix_init runs nobody else does anything to the driver's pins.
LEMMA AloneInInit ==
    ASSUME TypeOK, Loading, module = "init", [Next]_vars
    PROVE  InitPin \/ CdevAdd \/ InitFails \/ UNCHANGED vars
  <1>1. /\ script = "modprobe"
        /\ \A t \in Tools : tool[t].pc = "idle"
        /\ \A a \in Programmers : avr[a].pc = "idle"
        /\ reg = {"region", "sysctl"}
    BY DEF Loading, Open
  <1>2. ~Alloc /\ ~robostix_exit
    BY DEF Alloc, robostix_exit
  <1>3. ~Start /\ ~StartPin /\ ~Loaded /\ ~Stop
    BY <1>1 DEF Start, StartPin, Loaded, Stop
  <1>4. \A t \in Tools : ~ToolOpen(t) /\ ~SetPins(t) /\ ~Warn245(t)
                         /\ ~Wake245(t) /\ ~TestIr(t)
    BY <1>1 DEF ToolOpen, SetPins, Warn245, Wake245, TestIr, Asks
  <1>5. \A a \in Programmers : ~AvrOpen(a) /\ ~PPCLAIM(a) /\ ~PPRDATA(a)
                               /\ ~PPWDATA(a) /\ ~PPRELEASE(a) /\ ~AvrClose(a)
    BY <1>1 DEF AvrOpen, PPCLAIM, PPRDATA, PPWDATA, PPRELEASE, AvrClose, Claims
  <1> QED
    BY <1>2, <1>3, <1>4, <1>5 DEF Next

LEMMA StepReady == TypeOK /\ Loading /\ Ready /\ [Next]_vars => Ready'
  <1> SUFFICES ASSUME TypeOK, Loading, Ready, [Next]_vars, module' = "init"
               PROVE  Ready'
    BY DEF Ready
  <1>1. CASE module = "init"
    <2>1. CASE InitPin
      <3>1. step' = step + 1 /\ step \in 1 .. 10
        BY <2>1 DEF InitPin, InitPins
      <3>2. CASE step = 2
        <4>1. InitPins[step] = [op |-> "set", pin |-> "vcc5", level |-> 1]
          BY <3>2 DEF InitPins, Set
        <4>2. latch'["vcc5"] = 1
          BY <2>1, <4>1 DEF InitPin, SET_GPIO, Pin
        <4> QED
          BY <3>1, <3>2, <4>2 DEF Ready
      <3>3. CASE step = 4
        <4>1. InitPins[step] = [op |-> "set", pin |-> "reset", level |-> 0]
          BY <3>3 DEF InitPins, Set
        <4>2. latch'["reset"] = 0
          BY <2>1, <4>1 DEF InitPin, SET_GPIO, Pin
        <4> QED
          BY <3>1, <3>3, <4>2 DEF Ready
      <3>4. CASE step = 9
        <4>1. InitPins[step] = [op |-> "set", pin |-> "245", level |-> 0]
          BY <3>4 DEF InitPins, Set
        <4>2. latch'["245"] = 0
          BY <2>1, <4>1 DEF InitPin, SET_GPIO, Pin
        <4> QED
          BY <3>1, <3>4, <4>2 DEF Ready
      <3>5. CASE step \notin {2, 4, 9}
        BY <3>1, <3>5 DEF Ready
      <3> QED
        BY <3>2, <3>3, <3>4, <3>5
    <2>2. CASE CdevAdd \/ InitFails
      BY <2>2 DEF CdevAdd, InitFails
    <2>3. CASE UNCHANGED vars
      BY <1>1, <2>3 DEF vars, driver, pins, Ready
    <2> QED
      BY <1>1, <2>1, <2>2, <2>3, AloneInInit
  <1>2. CASE module # "init"
    <2>1. Alloc
      BY <1>2 DEF Next, vars, InitPin, CdevAdd, InitFails, robostix_exit, Start,
                  StartPin, Loaded, Stop, ToolOpen, SetPins, Warn245, Wake245,
                  TestIr, AvrOpen, PPCLAIM, PPRDATA, PPWDATA, PPRELEASE,
                  AvrClose, driver
    <2> QED
      BY <2>1 DEF Alloc, Ready
  <1> QED
    BY <1>1, <1>2

LEMMA PinsReady ==
    ASSUME TypeOK, Loading, Ready, [Next]_vars, module = "init",
           NEW p \in DOMAIN Wanted, ~Driven(p), Driven(p)'
    PROVE  latch'[p] = Wanted[p]
  <1>1. CASE InitPin
    <2>1. step \in 1 .. 10 /\ p \in Pin
      BY <1>1 DEF InitPin, InitPins, Wanted, Pin
    <2>2. mode' # mode
      BY DEF Driven
    <2>3. /\ InitPins[step].op = "conf" /\ latch' = latch
          /\ robostix_configure_pin(InitPins[step].pin, InitPins[step].out)
      BY <1>1, <2>2 DEF InitPin
    <2>4. InitPins[step].pin = p
      BY <2>1, <2>3 DEF robostix_configure_pin, Driven, TypeOK
    <2>5. p \in {"vcc5", "reset", "245"}
      BY DEF Wanted
    <2>6. step \in {3, 5, 10}
      <3>1. /\ InitPins[1].pin = "miso" /\ InitPins[2].op = "set"
            /\ InitPins[4].op = "set" /\ InitPins[6].pin = "sck"
            /\ InitPins[7].pin = "ss" /\ InitPins[8].pin = "mosi"
            /\ InitPins[9].op = "set"
        BY DEF InitPins, Set, Conf
      <3>2. step \notin {1, 2, 4, 6, 7, 8, 9}
        BY <2>3, <2>4, <2>5, <3>1
      <3> QED
        BY <2>1, <3>2
    <2>7. /\ InitPins[3].pin = "vcc5" /\ InitPins[5].pin = "reset"
          /\ InitPins[10].pin = "245"
      BY DEF InitPins, Conf
    <2> QED
      BY <2>3, <2>4, <2>6, <2>7 DEF Ready, Wanted
  <1>2. CASE CdevAdd \/ InitFails \/ UNCHANGED vars
    BY <1>2 DEF CdevAdd, InitFails, vars, pins, Driven
  <1> QED
    BY <1>1, <1>2, AloneInInit

\* The driver begins to drive no pin before it has its level.
THEOREM NeverGlitches == Spec => NoGlitch
  <1> DEFINE RInv == TypeOK /\ Loading /\ Ready
  <1>1. Init => RInv
    BY InitTyped, InitLoading DEF Init, Ready
  <1>2. RInv /\ [Next]_vars => RInv'
    BY StepTyped, StepLoading, StepReady
  <1>3. RInv /\ [Next]_vars =>
            [module = "init" =>
                \A p \in DOMAIN Wanted :
                    ~Driven(p) /\ Driven(p)' => latch'[p] = Wanted[p]]_vars
    BY PinsReady
  <1> QED
    BY <1>1, <1>2, <1>3, PTL DEF Spec, NoGlitch
=============================================================================
