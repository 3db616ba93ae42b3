-------------------------------- MODULE Sccd --------------------------------
(***************************************************************************)
(* The StorCenter control daemon sccd, its client scc, and the             *)
(* microcontroller that drives the LED, the fan and the soft power.        *)
(*                                                                         *)
(* The daemon keeps the wanted state in two words, merges into them the    *)
(* packets that clients send over a socket, makes a blue LED blink on disk *)
(* activity, and sends the words to the controller about twice a second.   *)
(* The answer tells it of the power switch.  scc talks to the daemon, or,  *)
(* with -d or when the daemon does not listen, to the controller itself.   *)
(*                                                                         *)
(* A packet is the function of its bytes, with the ID and the checksum     *)
(* kept apart.  The controller is modelled from the README of the package: *)
(* a packet that is not understood changes nothing, and every packet is    *)
(* answered with the state.  What it makes of an ID that is not the host's *)
(* or of a wrong checksum is not known: it takes such a packet or not.     *)
(***************************************************************************)
EXTENDS Integers, Sequences

CONSTANTS
    Client,    \* the scc processes, each of one command
    Direct,    \* those run with -d
    Command,   \* what a command may ask: a function from some fields to bytes
    Junk,      \* the bits an uninitialised word may set, likewise
    Ctlr,      \* the ID in the controller's answers: of a board 5.x or 3.x
    Fds,       \* how many descriptors the daemon may leak
    MaxStarts, \* bound: the starts of the daemon
    Faults,    \* the faults this instance may suffer
    MaxFaults  \* bound: how many of them

Field == {"power", "led", "rate", "fan", "hot", "cold"}
Byte == 0 .. 255

FaultKinds ==
    {"late",   \* an answer comes after the timeout of a second
     "lose",   \* the serial line loses a packet
     "fork",   \* fork fails
     "early",  \* scc is run while the daemon does not listen
     "kill",   \* scc is killed between connect and send
     "term"}   \* the daemon gets a SIGTERM

ASSUME SccdAssumption ==
    /\ Direct \subseteq Client
    /\ \A x \in Command \cup Junk : DOMAIN x \subseteq Field /\ \A f \in DOMAIN x : x[f] \in Byte
    /\ Ctlr \in {0, 18}
    /\ Faults \subseteq FaultKinds
    /\ Fds \in Nat /\ MaxStarts \in Nat /\ MaxFaults \in Nat

\* Bytes of the power, LED and fan fields.
Run == 98
Stop == 99
AdvStop == 100
Restart == 101
AdvRestart == 102
Reset == 103
AdvReset == 104
Blue == 98
BlueFlash == 100
RedFlash == 101
IoRate == 20

\* scc_defaults
Defaults == [power |-> Run, led |-> 99, rate |-> 10, fan |-> 97, hot |-> 50, cold |-> 45]
\* "#iomega", of which the a is the ID byte: 97
ResetPacket == [power |-> 35, led |-> 105, rate |-> 111, fan |-> 109, hot |-> 101, cold |-> 103]

\* p with the fields of x set as in x
Over(p, x) == [f \in Field |-> IF f \in DOMAIN x THEN x[f] ELSE p[f]]
\* what scc sends to the daemon: 0 where nothing is asked
Packet(x) == Over([f \in Field |-> 0], x)

HOST == 7
scc_cksum(p, id) == (p.power + p.led + p.rate + p.fan + p.hot + p.cold + id) % 128
\* a packet on the line
Signed(p, id) == [p |-> p, id |-> id, sum |-> scc_cksum(p, id)]

scc_validate(p) == p.power \in Run .. AdvReset /\ p.led \in 97 .. 103 /\ p.fan \in {97, 98}

VARIABLES
    pc,       \* the daemon: off, send, wait, read, loop, recv or blink
    stage,    \* the sendrecv it is in or did last: listen, enter or refresh
    w,        \* w1 and w2 ...
    id, sum,  \* ... and the ID and the checksum in w2
    saverate, \* the saved rate; -1 before it is set
    watched,  \* disk_activity has read the counters before
    conn,     \* the client whose packet is being read: a set of at most one
    leaked,   \* descriptors never closed
    called,   \* shutdown_called
    die,      \* scc_die
    starts,   \* how often the daemon was started
    backlog,  \* connections not yet accepted
    cpc,      \* cpc[c]: where client c is
    cmd,      \* cmd[c]: what it asks
    toCtl,    \* packets on the way to the controller
    fromCtl,  \* answers on the way back
    ctl,      \* the state of the controller
    pressed,  \* the power switch was pressed
    machine,  \* on, cut (after the switch) or commanded off by a packet
    faults,   \* how many faults there were
    asked,    \* ghost: what clients have asked for, since the first answer
    inherited,\* ghost: a first answer reported Stop, Restart or Reset
    execs     \* ghost: the programs this daemon started

state == <<w, id, sum, asked, inherited>>
blinking == <<saverate, watched>>
sockets == <<conn, leaked, backlog>>
life == <<called, execs, die, starts>>
daemon == <<pc, stage, state, blinking, conn, leaked, life>>
clients == <<cpc, cmd>>
line == <<toCtl, fromCtl>>
box == <<ctl, pressed, machine>>
vars == <<pc, stage, state, blinking, sockets, life, clients, line, box, faults>>

\* setup_clnt was called, and the socket not closed since.
listening == stage # "listen"

Fault(k) == k \in Faults /\ faults < MaxFaults /\ faults' = faults + 1

Init ==
    /\ pc = "off" /\ stage = "listen" /\ conn = {} /\ leaked = 0 /\ starts = 0
    /\ w = Defaults /\ id = HOST /\ sum = 0 /\ saverate = -1 /\ watched = FALSE
    /\ asked = Defaults /\ inherited = FALSE
    /\ called = FALSE /\ die = FALSE /\ execs = <<>>
    /\ backlog = <<>> /\ cpc = [c \in Client |-> "idle"]
    /\ cmd = [c \in Client |-> <<>>]
    /\ toCtl = <<>> /\ fromCtl = <<>>
    /\ ctl = Defaults /\ pressed = FALSE /\ machine = "on" /\ faults = 0

-----------------------------------------------------------------------------
\* The daemon starts, opens the serial line and flushes its input.
Start ==
    /\ pc = "off" /\ starts < MaxStarts /\ starts' = starts + 1
    /\ pc' = "send" /\ fromCtl' = <<>>
    /\ saverate' = -1 /\ watched' = FALSE /\ leaked' = 0
    /\ called' = FALSE /\ die' = FALSE /\ execs' = <<>>
    /\ UNCHANGED <<stage, state, conn, backlog, clients, toCtl, box, faults>>

\* sendrecv: write, of the reset packet or of w1 and w2 ...
Send ==
    /\ pc = "send" /\ pc' = "wait"
    /\ toCtl' = Append(toCtl, IF stage = "listen" THEN Signed(ResetPacket, 97)
                              ELSE [p |-> w, id |-> id, sum |-> sum])
    /\ UNCHANGED <<stage, state, blinking, sockets, life, clients, fromCtl, box, faults>>

\* ... select, for at most a second ...
Selected ==
    /\ pc = "wait" /\ fromCtl # <<>> /\ pc' = "read"
    /\ UNCHANGED <<stage, state, blinking, sockets, life, clients, line, box, faults>>

\* An answer that does not come or, with a fault, comes too late.
NoAnswer ==
    fromCtl = <<>> /\ IF toCtl = <<>> THEN UNCHANGED faults ELSE Fault("late")

\* Mutation: the daemon goes on waiting for the answer.
TimedOutWaits ==
    /\ pc = "wait" /\ NoAnswer
    /\ pc' = IF stage = "listen" THEN "off" ELSE "wait"
    /\ UNCHANGED <<stage, state, blinking, sockets, life, clients, line, box>>

\* The daemon ends without an answer to the reset, and else carries on.
TimedOut ==
    /\ pc = "wait" /\ NoAnswer
    /\ pc' = IF stage = "listen" THEN "off" ELSE "loop"
    /\ UNCHANGED <<stage, state, blinking, sockets, life, clients, line, box>>

\* Mutation: halt and reboot are swapped.
ProgramSwapped(a) == CASE a = Stop -> {"reboot"}
                       [] a \in {Restart, Reset} -> {"halt"}
                       [] OTHER -> {}

\* What an answer makes the daemon start, if anything.
Program(a) == CASE a = Stop -> {"halt"}
                [] a \in {Restart, Reset} -> {"reboot"}
                [] OTHER -> {}

\* Mutation: only halt is remembered.
ExamineForgets(a) ==
    \/ /\ called \/ Program(a) = {}
       /\ UNCHANGED <<called, execs, faults>>
    \/ /\ ~called
       /\ \E x \in Program(a) :
             \/ execs' = Append(execs, x) /\ called' = (x = "halt") /\ UNCHANGED faults
             \/ Fault("fork") /\ UNCHANGED <<called, execs>>

\* Mutation: a shutdown that could not be started is not tried again.
ExamineTriesOnce(a) ==
    \/ /\ called \/ Program(a) = {}
       /\ UNCHANGED <<called, execs, faults>>
    \/ /\ ~called
       /\ \E x \in Program(a) :
             \/ execs' = Append(execs, x) /\ called' = TRUE /\ UNCHANGED faults
             \/ Fault("fork") /\ called' = TRUE /\ UNCHANGED execs

\* The end of the loop body: halt or reboot, once.
Examine(a) ==
    \/ /\ called \/ Program(a) = {}
       /\ UNCHANGED <<called, execs, faults>>
    \/ /\ ~called
       /\ \E x \in Program(a) :
             \/ execs' = Append(execs, x) /\ called' = TRUE /\ UNCHANGED faults
             \/ Fault("fork") /\ UNCHANGED <<called, execs>>

Hard == {Stop, Restart, Reset}

\* Mutation: the answer goes into w1.
ReadIntoState ==
    /\ pc = "read" /\ stage = "refresh" /\ fromCtl # <<>>
    /\ fromCtl' = Tail(fromCtl) /\ pc' = "loop"
    /\ Examine(Head(fromCtl).p.power)
    /\ w' = [w EXCEPT !.power = Head(fromCtl).p.power]
    /\ UNCHANGED <<stage, id, sum, asked, inherited, blinking, sockets, die, starts, clients, toCtl, box>>

\* ... and read, which blocks: the answer to a refresh.
Read ==
    /\ pc = "read" /\ stage = "refresh" /\ fromCtl # <<>>
    /\ fromCtl' = Tail(fromCtl) /\ pc' = "loop"
    /\ Examine(Head(fromCtl).p.power)
    /\ UNCHANGED <<stage, state, blinking, sockets, die, starts, clients, toCtl, box>>

(***************************************************************************)
(* The answer to the first packet of work_loop, for which sendrecv is      *)
(* given w1 and w2 themselves: it becomes what the daemon keeps.           *)
(***************************************************************************)
ReadEnter ==
    /\ pc = "read" /\ stage = "enter" /\ fromCtl # <<>>
    /\ fromCtl' = Tail(fromCtl) /\ pc' = "loop"
    /\ LET m == Head(fromCtl) IN
          /\ w' = m.p /\ id' = m.id /\ sum' = m.sum /\ asked' = m.p
          /\ inherited' = (inherited \/ m.p.power \in Hard)
    /\ UNCHANGED <<stage, blinking, sockets, life, clients, toCtl, box, faults>>

\* After the answer to the reset: setup_clnt and the start of work_loop.
ReadListen ==
    /\ pc = "read" /\ stage = "listen" /\ fromCtl # <<>>
    /\ fromCtl' = Tail(fromCtl) /\ pc' = "send" /\ stage' = "enter"
    /\ w' = [Defaults EXCEPT !.led = RedFlash] /\ asked' = w'
    /\ id' = HOST /\ sum' = scc_cksum(w', HOST)
    /\ UNCHANGED <<inherited, blinking, sockets, life, clients, toCtl, box, faults>>

-----------------------------------------------------------------------------
\* The loop ends after a SIGTERM; clients still waiting are cut off.
Exit ==
    /\ pc = "loop" /\ die
    /\ pc' = "off" /\ stage' = "listen" /\ backlog' = <<>>
    /\ cpc' = [c \in Client |-> IF cpc[c] = "conn" THEN "done" ELSE cpc[c]]
    /\ UNCHANGED <<state, blinking, conn, leaked, life, cmd, line, box, faults>>

\* select, for half a second: without a client, to refresh the controller
Idle ==
    /\ pc = "loop" /\ ~die /\ backlog = <<>> /\ pc' = "blink"
    /\ UNCHANGED <<stage, state, blinking, sockets, life, clients, line, box, faults>>

(***************************************************************************)
(* handle_clnt: accept.  With no descriptor left accept fails; select      *)
(* finds the client again and the loop changes nothing any more.           *)
(***************************************************************************)
Accept ==
    /\ pc = "loop" /\ ~die /\ backlog # <<>> /\ leaked < Fds
    /\ pc' = "recv" /\ conn' = {Head(backlog)} /\ backlog' = Tail(backlog)
    /\ UNCHANGED <<stage, state, blinking, leaked, life, clients, line, box, faults>>

\* The new state, from the bytes that are not 0.
Merged(x) == [f \in Field |-> IF Packet(x)[f] # 0 THEN Packet(x)[f] ELSE w[f]]

\* Ghost: what clients have asked for when x, if valid, is asked for too.
Asks(x) ==
    asked' = IF scc_validate(Over(asked, x)) THEN Over(asked, x) ELSE asked

\* Mutation: the packet is merged into the state and validated afterwards.
RecvInPlace ==
    /\ pc = "recv" /\ \E c \in conn :
          /\ cpc[c] = "sent"
          /\ w' = Merged(cmd[c]) /\ id' = HOST /\ sum' = scc_cksum(w', HOST)
          /\ pc' = IF scc_validate(w') THEN "blink" ELSE "loop"
          /\ Asks(cmd[c])
    /\ conn' = {}
    /\ UNCHANGED <<stage, inherited, blinking, leaked, backlog, life, clients, line, box, faults>>

\* A state that is not valid is dropped, and this turn ends without a refresh.
Recv ==
    /\ pc = "recv" /\ \E c \in conn :
          /\ cpc[c] = "sent"
          /\ \/ /\ scc_validate(Merged(cmd[c]))
                /\ w' = Merged(cmd[c]) /\ id' = HOST /\ sum' = scc_cksum(w', HOST)
                /\ pc' = "blink"
             \/ /\ ~scc_validate(Merged(cmd[c]))
                /\ pc' = "loop" /\ UNCHANGED <<w, id, sum>>
          /\ Asks(cmd[c])
    /\ conn' = {}
    /\ UNCHANGED <<stage, inherited, blinking, leaked, backlog, life, clients, line, box, faults>>

\* Mutation: the client that is gone is still the one being served.
RecvNothingKeeps ==
    /\ pc = "recv" /\ \E c \in conn : cpc[c] = "killed"
    /\ leaked' = leaked + 1 /\ pc' = "loop"
    /\ UNCHANGED <<stage, state, blinking, conn, backlog, life, clients, line, box, faults>>

\* recv of a client that is gone: the socket is not closed.
RecvNothing ==
    /\ pc = "recv" /\ \E c \in conn : cpc[c] = "killed"
    /\ conn' = {} /\ leaked' = leaked + 1 /\ pc' = "loop"
    /\ UNCHANGED <<stage, state, blinking, backlog, life, clients, line, box, faults>>

\* disk_activity: the first call only takes the base of the counters.
disk_activity == IF watched THEN BOOLEAN ELSE {FALSE}

\* The LED blinks while a disk is active.
Blink(active) ==
    \/ active /\ w.led = Blue
       /\ saverate' = w.rate /\ w' = [w EXCEPT !.led = BlueFlash, !.rate = IoRate]
    \/ ~active /\ w.led = BlueFlash /\ UNCHANGED saverate
       /\ \/ saverate # -1 /\ w' = [w EXCEPT !.led = Blue, !.rate = saverate]
          \/ saverate = -1 /\ \E x \in Junk : w' = Over([w EXCEPT !.led = Blue], x)
    \/ w.led # (IF active THEN Blue ELSE BlueFlash) /\ UNCHANGED <<w, saverate>>

\* Then the refresh begins.
Activity ==
    /\ pc = "blink" /\ \E active \in disk_activity : Blink(active)
    /\ watched' = TRUE /\ pc' = "send" /\ stage' = "refresh"
    /\ UNCHANGED <<id, sum, asked, inherited, sockets, life, clients, line, box, faults>>

(***************************************************************************)
(* SIGTERM.  A select that waits for an answer is interrupted, and then    *)
(* the answer is not read; the other system calls are restarted.           *)
(***************************************************************************)
Term ==
    /\ pc # "off" /\ ~die /\ Fault("term") /\ die' = TRUE
    /\ \/ UNCHANGED pc
       \/ pc = "wait" /\ pc' = IF stage = "listen" THEN "off" ELSE "loop"
    /\ UNCHANGED <<stage, state, blinking, sockets, called, execs, starts, clients, line, box>>

-----------------------------------------------------------------------------
\* Client c is now at l.
Goes(c, l) == cpc' = [cpc EXCEPT ![c] = l]

(***************************************************************************)
(* scc starts and connects to the daemon, which blocks while 5 wait; with  *)
(* -d, or refused, it opens and flushes the serial line.                   *)
(***************************************************************************)
Ask(c) ==
    /\ cpc[c] = "idle" /\ \E x \in Command : cmd' = [cmd EXCEPT ![c] = x]
    /\ \/ /\ c \notin Direct /\ listening /\ Len(backlog) < 5
          /\ Goes(c, "conn") /\ backlog' = Append(backlog, c) /\ UNCHANGED fromCtl
       \/ /\ c \in Direct \/ (~listening /\ "early" \in Faults)
          /\ Goes(c, "reset") /\ fromCtl' = <<>> /\ UNCHANGED backlog
    /\ UNCHANGED <<daemon, toCtl, box, faults>>

\* send, or the death of scc before it
SendPacket(c) ==
    /\ cpc[c] = "conn"
    /\ \/ Goes(c, "sent") /\ UNCHANGED faults
       \/ Goes(c, "killed") /\ Fault("kill")
    /\ UNCHANGED <<daemon, backlog, cmd, line, box>>

(***************************************************************************)
(* Directly: the reset, in which scc puts the ID into the wrong word, then *)
(* the defaults with what is asked, each with a sendrecv.                  *)
(***************************************************************************)
DirectSend(c) ==
    /\ \/ /\ cpc[c] = "reset" /\ Goes(c, "reset_wait")
          /\ toCtl' = Append(toCtl, Signed([ResetPacket EXCEPT !.rate = HOST], 97))
       \/ /\ cpc[c] = "set" /\ Goes(c, "set_wait")
          /\ toCtl' = Append(toCtl, Signed(Over(Defaults, cmd[c]), HOST))
    /\ UNCHANGED <<daemon, backlog, cmd, fromCtl, box, faults>>

DirectSelected(c) ==
    /\ fromCtl # <<>>
    /\ \/ cpc[c] = "reset_wait" /\ Goes(c, "reset_read")
       \/ cpc[c] = "set_wait" /\ Goes(c, "set_read")
    /\ UNCHANGED <<daemon, backlog, cmd, line, box, faults>>

DirectTimedOut(c) ==
    /\ cpc[c] \in {"reset_wait", "set_wait"} /\ NoAnswer /\ Goes(c, "done")
    /\ UNCHANGED <<daemon, backlog, cmd, line, box>>

DirectRead(c) ==
    /\ fromCtl # <<>> /\ fromCtl' = Tail(fromCtl)
    /\ \/ cpc[c] = "reset_read" /\ Goes(c, "set")
       \/ cpc[c] = "set_read" /\ Goes(c, "done")
    /\ UNCHANGED <<daemon, backlog, cmd, toCtl, box, faults>>

-----------------------------------------------------------------------------
(***************************************************************************)
(* The controller takes a packet.  Stop, Restart and Reset take effect at  *)
(* once.  An Advise makes it report the state advised, with a red LED that *)
(* flashes.  After the switch was pressed only Stop is reported.           *)
(***************************************************************************)
Obeyed(p) ==
    LET power == CASE pressed -> Stop
                   [] p.power \in {AdvStop, AdvRestart, AdvReset} -> p.power - 1
                   [] OTHER -> p.power
    IN  IF p = ResetPacket THEN [Defaults EXCEPT !.power = IF pressed THEN Stop ELSE Run]
        ELSE IF ~scc_validate(p) THEN ctl
        ELSE [p EXCEPT !.power = power, !.led = IF power = Run THEN p.led ELSE RedFlash]

\* A packet of the host, whole
Proper(m) == m.id \in {HOST, 97} /\ m.sum = scc_cksum(m.p, m.id)

\* c as it is reported: after a reset the power alone.
Answer(p, c) ==
    IF p = ResetPacket THEN Signed(Packet([power |-> c.power]), 0) ELSE Signed(c, Ctlr)

Control ==
    /\ toCtl # <<>> /\ toCtl' = Tail(toCtl)
    /\ LET m == Head(toCtl) IN
       \/ /\ ctl' = Obeyed(m.p) /\ fromCtl' = Append(fromCtl, Answer(m.p, ctl'))
          /\ machine' = IF /\ scc_validate(m.p)
                           /\ m.p.power \in (IF pressed THEN {Stop} ELSE Hard)
                        THEN "commanded" ELSE machine
          /\ UNCHANGED faults
       \/ /\ ~Proper(m) /\ fromCtl' = Append(fromCtl, Signed(ctl, Ctlr))
          /\ UNCHANGED <<ctl, machine, faults>>
       \/ Fault("lose") /\ UNCHANGED <<ctl, fromCtl, machine>>
    /\ UNCHANGED <<daemon, backlog, clients, pressed>>

Press ==
    /\ ~pressed /\ pressed' = TRUE /\ ctl' = [ctl EXCEPT !.power = Stop, !.led = RedFlash]
    /\ UNCHANGED <<daemon, backlog, clients, line, machine, faults>>

\* Some 20 seconds after the switch the power goes.
PowerCut ==
    /\ pressed /\ machine' = "cut"
    /\ UNCHANGED <<daemon, backlog, clients, line, ctl, pressed, faults>>

Step ==
    \/ Send \/ Selected \/ TimedOut \/ Read \/ ReadEnter \/ ReadListen
    \/ Exit \/ Idle \/ Accept \/ Recv \/ RecvNothing \/ Activity

Scc(c) ==
    SendPacket(c) \/ DirectSend(c) \/ DirectSelected(c) \/ DirectTimedOut(c) \/ DirectRead(c)

Next ==
    /\ machine = "on"
    /\ \/ Start \/ Term \/ Step
       \/ \E c \in Client : Ask(c) \/ Scc(c)
       \/ Control \/ Press \/ PowerCut

Spec == Init /\ [][Next]_vars

\* Every process runs, and the controller answers; nobody need start or ask.
FairSpec ==
    /\ Spec /\ WF_vars(machine = "on" /\ Step) /\ WF_vars(machine = "on" /\ Control)
    /\ \A c \in Client : WF_vars(machine = "on" /\ Scc(c))

-----------------------------------------------------------------------------
\* The words the daemon keeps.
WordType ==
    /\ w \in [Field -> Byte] /\ asked \in [Field -> Byte]
    /\ id \in Byte /\ sum \in 0 .. 127 /\ saverate \in Byte \cup {-1}

\* Its run.
DaemonType ==
    /\ pc \in {"off", "send", "wait", "read", "loop", "recv", "blink"}
    /\ stage \in {"listen", "enter", "refresh"}
    /\ conn \subseteq Client /\ (pc = "recv" <=> conn # {})
    /\ leaked \in 0 .. Fds /\ starts \in 0 .. MaxStarts
    /\ execs \in Seq({"halt", "reboot"})

\* What was seen or done.
FlagType ==
    /\ watched \in BOOLEAN /\ called \in BOOLEAN /\ die \in BOOLEAN
    /\ pressed \in BOOLEAN /\ inherited \in BOOLEAN

ClientType ==
    /\ backlog \in Seq(Client)
    /\ cpc \in [Client -> {"idle", "conn", "sent", "killed", "done", "reset", "reset_wait",
                           "reset_read", "set", "set_wait", "set_read"}]
    /\ cmd \in [Client -> Command \cup {<<>>}]

\* The serial line.
LineType ==
    /\ toCtl \in Seq([p : [Field -> Byte], id : Byte, sum : 0 .. 127])
    /\ fromCtl \in Seq([p : [Field -> Byte], id : Byte, sum : 0 .. 127])

BoxType ==
    /\ ctl \in [Field -> Byte]
    /\ machine \in {"on", "cut", "commanded"} /\ faults \in 0 .. MaxFaults

\* Every variable keeps to its values.
TypeOK == WordType /\ DaemonType /\ FlagType /\ ClientType /\ LineType /\ BoxType

(***************************************************************************)
(* "Clients only send fields they want enacted. This allows this daemon to *)
(* keep the other values constant", and an invalid packet corrupts         *)
(* nothing: over what the first answer of the controller said, the power   *)
(* and fan settings are what the clients asked for, and so is the LED,     *)
(* blinking apart.                                                         *)
(***************************************************************************)
SettingsKept ==
    /\ \A f \in {"power", "fan", "hot", "cold"} : w[f] = asked[f]
    /\ w.led = asked.led \/ {w.led, asked.led} = {Blue, BlueFlash}

\* "Once shutdown (reboot or halt) has beed call don't do it again."
OneShutdown == Len(execs) <= 1

AskedFor(S) == \E c \in Client : "power" \in DOMAIN cmd[c] /\ cmd[c].power \in S

(***************************************************************************)
(* The power goes without a shutdown only if a user commanded it, or if    *)
(* the first answer of the controller already reported Stop, Restart or    *)
(* Reset: no later report is sent back as a command.                       *)
(***************************************************************************)
NoSuddenOff == machine = "commanded" => AskedFor(Hard) \/ inherited

\* "Only a client should alter w1 and w2": the power goes for users alone.
OnlyUsersCommand == machine = "commanded" => AskedFor(Hard)

(***************************************************************************)
(* The daemon takes the machine down only for a reason, and the right way: *)
(* it halts when the switch was pressed or a user asked for that, and      *)
(* reboots when a user asked for that, whatever answers were late or lost, *)
(* and whoever used the serial line meanwhile.                             *)
(***************************************************************************)
Halts == {Stop, AdvStop}
Reboots == {Restart, AdvRestart, Reset, AdvReset}

ShutdownCaused ==
    \A i \in 1 .. Len(execs) :
        \/ execs[i] = "halt" /\ (pressed \/ AskedFor(Halts))
        \/ execs[i] = "reboot" /\ AskedFor(Reboots)

\* The LED that blinks no more gets back the rate that clients asked for.
RateRestored == stage = "refresh" /\ pc = "send" /\ w.led = Blue => w.rate = asked.rate

\* A packet on the way to the controller has the checksum of its bytes.
ChecksumRight ==
    \A i \in 1 .. Len(toCtl) : toCtl[i].sum = scc_cksum(toCtl[i].p, toCtl[i].id)

\* A packet with the ID byte of the reset is the reset packet.
ResetIsReset == \A i \in 1 .. Len(toCtl) : toCtl[i].id = 97 => toCtl[i].p = ResetPacket

\* The daemon answers the power switch with a halt, unless it ends before.
SoftPowerSeen == pressed ~> execs # <<>> \/ machine # "on" \/ pc = "off"

(***************************************************************************)
(* Over and over the controller does what the daemon wants, whatever was   *)
(* lost: unless the power goes or the daemon ends.                         *)
(***************************************************************************)
Enacted == []<>(machine # "on" \/ pc = "off" \/ \A f \in {"fan", "hot", "cold"} : ctl[f] = w[f])
=============================================================================
