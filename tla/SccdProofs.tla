----------------------------- MODULE SccdProofs -----------------------------
(***************************************************************************)
(* What the daemon sccd guarantees for any number of clients, for all they *)
(* may ask, and for any number of packets on the line.                     *)
(*                                                                         *)
(* Two facts about the data of an instance stand for what the findings     *)
(* show.  JunkRate: a rate that was never saved spoils the rate alone, not *)
(* the other bytes of its word.  NonZero: nobody asks the daemon for a 0.  *)
(***************************************************************************)
EXTENDS Sccd, TLAPS

JunkRate == \A x \in Junk : DOMAIN x \subseteq {"rate"}
NonZero == \A x \in Command : \A f \in DOMAIN x : x[f] # 0

-----------------------------------------------------------------------------
(***************************************************************************)
(* Words and packets: what the operators of Sccd return.                   *)
(***************************************************************************)
Words == [Field -> Byte]
Packets == [p : Words, id : Byte, sum : 0 .. 127]

\* The constant words have bytes in them.
LEMMA Constants ==
    /\ Defaults \in Words /\ ResetPacket \in Words
    /\ {0, HOST, 97, Blue, BlueFlash, RedFlash, IoRate} \subseteq Byte
    /\ Ctlr \in Byte
BY SccdAssumption DEF Defaults, ResetPacket, Run, Words, Field, Byte, HOST, Blue,
       BlueFlash, RedFlash, IoRate

\* Setting one byte gives words again.
LEMMA SetByte ==
    ASSUME NEW p \in Words, NEW f \in Field, NEW b \in Byte
    PROVE  [p EXCEPT ![f] = b] \in Words
BY DEF Words

\* The same of the LED, alone and with its rate.
LEMMA SetLed ==
    ASSUME NEW p \in Words, NEW b \in Byte, NEW r \in Byte
    PROVE  /\ [p EXCEPT !.led = b] \in Words
           /\ [p EXCEPT !.led = b, !.rate = r] \in Words
BY SetByte DEF Field

\* Over words, bytes give words.
LEMMA OverAny ==
    ASSUME NEW p \in Words, NEW x, \A f \in DOMAIN x : x[f] \in Byte
    PROVE  Over(p, x) \in Words
BY DEF Over, Words

\* Over takes bytes from the command, else from the words.
LEMMA OverType ==
    ASSUME NEW p \in Words, NEW x \in Command \cup Junk \cup {<<>>}
    PROVE  Over(p, x) \in Words
<1>1. CASE x = <<>>
  <2>1. \A f \in DOMAIN x : x[f] \in Byte
    BY <1>1
  <2> QED BY <2>1, OverAny
<1>2. CASE x \in Command \cup Junk
  <2>1. \A f \in DOMAIN x : x[f] \in Byte
    BY <1>2, SccdAssumption
  <2> QED BY <2>1, OverAny
<1> QED BY <1>1, <1>2

\* Merging a command keeps words.
LEMMA MergedType ==
    ASSUME w \in Words, NEW x \in Command \cup {<<>>}
    PROVE  Merged(x) \in Words
<1>1. [f \in Field |-> 0] \in Words
  BY DEF Words, Byte
<1>2. Packet(x) \in Words
  BY <1>1, OverType DEF Packet
<1> QED BY <1>2 DEF Merged, Words

\* The checksum fits into seven bits.
LEMMA CksumType ==
    ASSUME NEW p \in Words, NEW i \in Byte
    PROVE  scc_cksum(p, i) \in 0 .. 127
<1> DEFINE n == p.power + p.led + p.rate + p.fan + p.hot + p.cold + i
<1>1. n \in Int
  <2>1. \A f \in Field : p[f] \in Int
    BY DEF Words, Byte
  <2> QED BY <2>1 DEF Field, Byte
<1> HIDE DEF n
<1>2. n % 128 \in 0 .. 127
  BY <1>1
<1> QED BY <1>2 DEF scc_cksum, n

\* A signed packet is a packet.
LEMMA SignedType ==
    ASSUME NEW p \in Words, NEW i \in Byte
    PROVE  Signed(p, i) \in Packets
BY CksumType DEF Signed, Packets

-----------------------------------------------------------------------------
(***************************************************************************)
(* Types.  The bound of the leaked descriptors needs more: the daemon      *)
(* serves a client only with a descriptor to spare.                        *)
(***************************************************************************)
TInv == TypeOK /\ (pc = "recv" => leaked < Fds)

\* It holds at first.
LEMMA InitTInv == Init => TInv
<1> SUFFICES ASSUME Init PROVE TInv
  OBVIOUS
<1>1. WordType
  BY Constants DEF Init, WordType, Words
<1>2. DaemonType
  BY SccdAssumption DEF Init, DaemonType
<1>3. FlagType
  BY DEF Init, FlagType
<1>4. ClientType /\ LineType
  BY DEF Init, ClientType, LineType
<1>5. BoxType
  BY Constants, SccdAssumption DEF Init, BoxType, Words
<1> QED BY <1>1, <1>2, <1>3, <1>4, <1>5 DEF Init, TInv, TypeOK

(***************************************************************************)
(* What Recv does with the packet of client c.                             *)
(***************************************************************************)
Received(c) ==
    /\ \/ /\ scc_validate(Merged(cmd[c]))
          /\ w' = Merged(cmd[c]) /\ id' = HOST /\ sum' = scc_cksum(w', HOST)
       \/ ~scc_validate(Merged(cmd[c])) /\ UNCHANGED <<w, id, sum>>
    /\ Asks(cmd[c])

\* Recv receives the command of the client it serves.
LEMMA RecvWords == TInv /\ Recv => \E c \in conn : Received(c) /\ cmd[c] \in Command \cup {<<>>}
BY DEF TInv, TypeOK, DaemonType, ClientType, Recv, Received

\* The LED keeps the words bytes.
LEMMA BlinkWords ==
    ASSUME w \in Words, saverate \in Byte \cup {-1}, NEW active \in BOOLEAN, Blink(active)
    PROVE  w' \in Words /\ saverate' \in Byte \cup {-1}
<1>1. [w EXCEPT !.led = Blue] \in Words
  BY Constants, SetLed
<1>2. \A x \in Junk : Over([w EXCEPT !.led = Blue], x) \in Words
  BY <1>1, OverType
<1>3. [w EXCEPT !.led = BlueFlash, !.rate = IoRate] \in Words
  BY Constants, SetLed
<1>4. saverate # -1 => [w EXCEPT !.led = Blue, !.rate = saverate] \in Words
  BY Constants, SetLed
<1>5. w.rate \in Byte
  BY DEF Words, Field
<1> QED BY <1>2, <1>3, <1>4, <1>5 DEF Blink

\* The daemon keeps the types.
LEMMA DaemonTInv == TInv /\ (Start \/ Term \/ Step) => TInv'
<1> SUFFICES ASSUME TInv, Start \/ Term \/ Step PROVE TInv'
  OBVIOUS
<1> USE DEF TInv, TypeOK, state, blinking, sockets, life, clients, line, box, Fault
<1>1. CASE Start
  <2>1. DaemonType'
    BY <1>1, SccdAssumption DEF Start, DaemonType
  <2>2. FlagType'
    BY <1>1, SccdAssumption DEF Start, FlagType
  <2>3. LineType'
    BY <1>1, SccdAssumption DEF Start, LineType
  <2>4. (WordType /\ ClientType /\ BoxType)'
    BY <1>1, SccdAssumption DEF Start, WordType, ClientType, BoxType
  <2>5. (pc = "recv" => leaked < Fds)'
    BY <1>1 DEF Start
  <2> QED BY <2>1, <2>2, <2>3, <2>4, <2>5
<1>2. CASE Term
  <2>1. FlagType'
    BY <1>2, SccdAssumption DEF Term, FlagType
  <2>2. DaemonType'
    <3>1. pc' = pc \/ (pc = "wait" /\ pc' \in {"off", "loop"})
      BY <1>2 DEF Term
    <3> QED BY <1>2, <3>1, SccdAssumption DEF Term, DaemonType
  <2>3. (WordType /\ ClientType /\ LineType /\ BoxType)'
    BY <1>2, SccdAssumption DEF Term, WordType, ClientType, LineType, BoxType
  <2>4. (pc = "recv" => leaked < Fds)'
    BY <1>2 DEF Term
  <2> QED BY <2>1, <2>2, <2>3, <2>4
<1>3. CASE Send
  <2>1. LineType'
    <3>1. PICK m \in Packets : toCtl' = Append(toCtl, m)
      <4>1. Signed(ResetPacket, 97) \in Packets
        BY Constants, SignedType
      <4>2. [p |-> w, id |-> id, sum |-> sum] \in Packets
        BY DEF Packets, Words, WordType
      <4> QED BY <1>3, <4>1, <4>2 DEF Send
    <3>2. toCtl \in Seq(Packets)
      BY DEF LineType, Packets, Words
    <3>3. toCtl' \in Seq(Packets)
      BY <3>1, <3>2
    <3> QED BY <1>3, <3>3 DEF Send, LineType, Packets, Words
  <2>2. (WordType /\ DaemonType /\ FlagType /\ ClientType /\ BoxType)'
    BY <1>3, SccdAssumption DEF Send, WordType, DaemonType, FlagType, ClientType, BoxType
  <2>3. (pc = "recv" => leaked < Fds)'
    BY <1>3 DEF Send
  <2> QED BY <2>1, <2>2, <2>3
<1>4. CASE Selected
  BY <1>4, SccdAssumption DEF Selected, WordType, DaemonType, FlagType, ClientType,
       LineType, BoxType
<1>5. CASE TimedOut
  BY <1>5, SccdAssumption DEF TimedOut, WordType, DaemonType, FlagType, ClientType,
       LineType, BoxType, NoAnswer
<1>6. CASE Read
  <2>1. DaemonType'
    <3>1. Program(Head(fromCtl).p.power) \subseteq {"halt", "reboot"}
      BY DEF Program
    <3>2. execs' \in Seq({"halt", "reboot"})
      BY <1>6, <3>1 DEF Read, DaemonType, Examine
    <3> QED BY <1>6, <3>2 DEF Read, DaemonType
  <2>2. FlagType'
    BY <1>6, SccdAssumption DEF Read, FlagType, Examine
  <2>3. (WordType /\ ClientType /\ LineType /\ BoxType)'
    BY <1>6, SccdAssumption DEF Read, WordType, ClientType, LineType, BoxType, Examine,
         Program
  <2>4. (pc = "recv" => leaked < Fds)'
    BY <1>6 DEF Read, Examine, Program
  <2> QED BY <2>1, <2>2, <2>3, <2>4
<1>7. CASE ReadEnter
  <2>1. WordType'
    <3>1. fromCtl \in Seq(Packets) /\ fromCtl # <<>>
      BY <1>7 DEF ReadEnter, LineType, Packets, Words
    <3>2. Head(fromCtl) \in Packets
      BY <3>1
    <3>3. w' \in Words /\ asked' \in Words /\ id' \in Byte /\ sum' \in 0 .. 127
      BY <1>7, <3>2 DEF ReadEnter, Packets
    <3> QED BY <1>7, <3>3 DEF ReadEnter, WordType, Words
  <2>2. FlagType'
    <3>1. inherited' \in BOOLEAN
      BY <1>7 DEF ReadEnter
    <3> QED BY <1>7, <3>1 DEF ReadEnter, FlagType
  <2>3. (DaemonType /\ ClientType /\ LineType /\ BoxType)'
    BY <1>7, SccdAssumption DEF ReadEnter, DaemonType, ClientType, LineType, BoxType
  <2>4. (pc = "recv" => leaked < Fds)'
    BY <1>7 DEF ReadEnter
  <2> QED BY <2>1, <2>2, <2>3, <2>4
<1>8. CASE ReadListen
  <2>1. WordType'
    <3>1. w' \in Words /\ asked' = w'
      BY <1>8, Constants, SetLed DEF ReadListen
    <3>2. id' \in Byte /\ sum' \in 0 .. 127
      BY <1>8, <3>1, Constants, CksumType DEF ReadListen
    <3> QED BY <1>8, <3>1, <3>2 DEF ReadListen, WordType, Words
  <2>2. (DaemonType /\ FlagType /\ ClientType /\ LineType /\ BoxType)'
    BY <1>8, SccdAssumption DEF ReadListen, DaemonType, FlagType, ClientType, LineType,
         BoxType
  <2>3. (pc = "recv" => leaked < Fds)'
    BY <1>8 DEF ReadListen
  <2> QED BY <2>1, <2>2, <2>3
<1>9. CASE Exit
  BY <1>9, SccdAssumption DEF Exit, WordType, DaemonType, FlagType, ClientType,
       LineType, BoxType
<1>10. CASE Idle
  BY <1>10, SccdAssumption DEF Idle, WordType, DaemonType, FlagType, ClientType,
       LineType, BoxType
<1>11. CASE Accept
  BY <1>11, SccdAssumption DEF Accept, WordType, DaemonType, FlagType, ClientType,
       LineType, BoxType
<1>12. CASE Recv
  <2>1. WordType'
    <3>1. PICK c \in conn : Received(c) /\ cmd[c] \in Command \cup {<<>>}
      BY <1>12, RecvWords
    <3>2. w \in Words /\ asked \in Words /\ Merged(cmd[c]) \in Words
      BY <3>1, MergedType DEF WordType, Words
    <3>3. asked' \in Words
      BY <3>1, <3>2, OverType DEF Received, Asks
    <3>4. w' \in Words /\ id' \in Byte /\ sum' \in 0 .. 127
      BY <3>1, <3>2, Constants, CksumType DEF Received, WordType
    <3> QED BY <1>12, <3>3, <3>4 DEF Recv, WordType, Words
  <2>2. DaemonType'
    BY <1>12, SccdAssumption DEF Recv, DaemonType
  <2>3. (FlagType /\ ClientType /\ LineType /\ BoxType)'
    BY <1>12, SccdAssumption DEF Recv, FlagType, ClientType, LineType, BoxType
  <2>4. (pc = "recv" => leaked < Fds)'
    BY <1>12 DEF Recv
  <2> QED BY <2>1, <2>2, <2>3, <2>4
<1>13. CASE RecvNothing
  BY <1>13, SccdAssumption DEF RecvNothing, WordType, DaemonType, FlagType, ClientType,
       LineType, BoxType
<1>14. CASE Activity
  <2>1. WordType'
    <3>1. PICK active \in BOOLEAN : Blink(active)
      BY <1>14 DEF Activity, disk_activity
    <3>2. w' \in Words /\ saverate' \in Byte \cup {-1}
      BY <3>1, BlinkWords DEF WordType, Words
    <3> QED BY <1>14, <3>2 DEF Activity, WordType, Words
  <2>2. FlagType'
    BY <1>14, SccdAssumption DEF Activity, FlagType
  <2>3. (DaemonType /\ ClientType /\ LineType /\ BoxType)'
    BY <1>14, SccdAssumption DEF Activity, DaemonType, ClientType, LineType, BoxType
  <2>4. (pc = "recv" => leaked < Fds)'
    BY <1>14 DEF Activity
  <2> QED BY <2>1, <2>2, <2>3, <2>4
<1> HIDE DEF TInv
<1> QED
  BY <1>1, <1>2, <1>3, <1>4, <1>5, <1>6, <1>7, <1>8, <1>9, <1>10, <1>11, <1>12, <1>13,
       <1>14 DEF Step

Place == {"idle", "conn", "sent", "killed", "done", "reset", "reset_wait",
          "reset_read", "set", "set_wait", "set_read"}

\* A client that goes somewhere leaves the others where they are.
LEMMA GoesType ==
    ASSUME cpc \in [Client -> Place], NEW c \in Client, NEW l \in Place, Goes(c, l)
    PROVE  cpc' \in [Client -> Place]
BY DEF Goes

\* The controller keeps words, whatever it is sent.
LEMMA ObeyedType ==
    ASSUME NEW p \in Words, ctl \in Words
    PROVE  Obeyed(p) \in Words
<1> DEFINE power == CASE pressed -> Stop
                      [] p.power \in {AdvStop, AdvRestart, AdvReset} -> p.power - 1
                      [] OTHER -> p.power
<1>1. Stop \in Byte /\ Run \in Byte /\ "power" \in Field /\ "led" \in Field
  BY DEF Stop, Run, Byte, Field
<1>2. p.power \in Byte /\ p.led \in Byte
  BY <1>1 DEF Words
<1>3. power \in Byte
  BY <1>1, <1>2 DEF AdvStop, AdvRestart, AdvReset, Byte
<1> HIDE DEF power
<1>4. [p EXCEPT !.power = power, !.led = IF power = Run THEN p.led ELSE RedFlash] \in Words
  BY <1>1, <1>2, <1>3, Constants, SetByte
<1>5. [Defaults EXCEPT !.power = IF pressed THEN Stop ELSE Run] \in Words
  BY <1>1, Constants, SetByte
<1> QED BY <1>4, <1>5 DEF Obeyed, power

\* So do its clients.
LEMMA SccTInv == TInv /\ (\E c \in Client : Ask(c) \/ Scc(c)) => TInv'
<1> SUFFICES ASSUME TInv, \E c \in Client : Ask(c) \/ Scc(c) PROVE TInv'
  OBVIOUS
<1> USE DEF TInv, TypeOK, daemon, state, blinking, sockets, life, clients, line, box, Fault
<1>1. ASSUME NEW c \in Client, Ask(c)
      PROVE  TInv'
  <2>1. DaemonType'
    BY <1>1, SccdAssumption DEF Ask, DaemonType
  <2>2. ClientType'
    <3>1. cpc' \in [Client -> Place]
      <4>1. cpc \in [Client -> Place] /\ {"conn", "reset"} \subseteq Place
        BY DEF ClientType, Place
      <4> QED BY <1>1, <4>1, GoesType DEF Ask
    <3>2. cmd' \in [Client -> Command \cup {<<>>}]
      BY <1>1 DEF Ask, ClientType
    <3>3. backlog' \in Seq(Client)
      BY <1>1 DEF Ask, ClientType
    <3> QED BY <3>1, <3>2, <3>3 DEF ClientType, Place
  <2>3. LineType'
    <3>1. toCtl' = toCtl /\ (fromCtl' = <<>> \/ fromCtl' = fromCtl)
      BY <1>1 DEF Ask
    <3>2. fromCtl \in Seq(Packets) /\ <<>> \in Seq(Packets)
      BY DEF LineType, Packets, Words
    <3>3. toCtl \in Seq(Packets)
      BY DEF LineType, Packets, Words
    <3> QED BY <3>1, <3>2, <3>3 DEF LineType, Packets, Words
  <2>4. (WordType /\ FlagType /\ BoxType)'
    BY <1>1, SccdAssumption DEF Ask, WordType, FlagType, BoxType
  <2>5. (pc = "recv" => leaked < Fds)'
    BY <1>1 DEF Ask
  <2> QED BY <2>1, <2>2, <2>3, <2>4, <2>5
<1>2. ASSUME NEW c \in Client, SendPacket(c)
      PROVE  TInv'
  <2>1. ClientType'
    <3>1. cpc' \in [Client -> Place]
      <4>1. cpc \in [Client -> Place] /\ {"sent", "killed"} \subseteq Place
        BY DEF ClientType, Place
      <4> QED BY <1>2, <4>1, GoesType DEF SendPacket
    <3> QED BY <1>2, <3>1 DEF SendPacket, ClientType, Place
  <2>2. (WordType /\ DaemonType /\ FlagType /\ LineType /\ BoxType)'
    BY <1>2, SccdAssumption DEF SendPacket, WordType, DaemonType, FlagType, LineType,
         BoxType
  <2>3. (pc = "recv" => leaked < Fds)'
    BY <1>2 DEF SendPacket
  <2> QED BY <2>1, <2>2, <2>3
<1>3. ASSUME NEW c \in Client, DirectSend(c)
      PROVE  TInv'
  <2>1. ClientType'
    <3>1. cpc' \in [Client -> Place]
      <4>1. cpc \in [Client -> Place] /\ {"reset_wait", "set_wait"} \subseteq Place
        BY DEF ClientType, Place
      <4> QED BY <1>3, <4>1, GoesType DEF DirectSend
    <3> QED BY <1>3, <3>1 DEF DirectSend, ClientType, Place
  <2>2. LineType'
    <3>1. PICK m \in Packets : toCtl' = Append(toCtl, m)
      <4>1. Signed([ResetPacket EXCEPT !.rate = HOST], 97) \in Packets
        BY Constants, SetByte, SignedType DEF Field
      <4>2. Signed(Over(Defaults, cmd[c]), HOST) \in Packets
        BY Constants, OverType, SignedType DEF ClientType
      <4> QED BY <1>3, <4>1, <4>2 DEF DirectSend
    <3>2. toCtl \in Seq(Packets)
      BY DEF LineType, Packets, Words
    <3>3. toCtl' \in Seq(Packets)
      BY <3>1, <3>2
    <3> QED BY <1>3, <3>3 DEF DirectSend, LineType, Packets, Words
  <2>3. (WordType /\ DaemonType /\ FlagType /\ BoxType)'
    BY <1>3, SccdAssumption DEF DirectSend, WordType, DaemonType, FlagType, BoxType
  <2>4. (pc = "recv" => leaked < Fds)'
    BY <1>3 DEF DirectSend
  <2> QED BY <2>1, <2>2, <2>3, <2>4
<1>4. ASSUME NEW c \in Client, DirectSelected(c)
      PROVE  TInv'
  <2>1. ClientType'
    <3>1. cpc' \in [Client -> Place]
      <4>1. cpc \in [Client -> Place] /\ {"reset_read", "set_read"} \subseteq Place
        BY DEF ClientType, Place
      <4> QED BY <1>4, <4>1, GoesType DEF DirectSelected
    <3> QED BY <1>4, <3>1 DEF DirectSelected, ClientType, Place
  <2>2. (WordType /\ DaemonType /\ FlagType /\ LineType /\ BoxType)'
    BY <1>4, SccdAssumption DEF DirectSelected, WordType, DaemonType, FlagType,
         LineType, BoxType
  <2>3. (pc = "recv" => leaked < Fds)'
    BY <1>4 DEF DirectSelected
  <2> QED BY <2>1, <2>2, <2>3
<1>5. ASSUME NEW c \in Client, DirectTimedOut(c)
      PROVE  TInv'
  <2>1. ClientType'
    <3>1. cpc' \in [Client -> Place]
      <4>1. cpc \in [Client -> Place] /\ {"done"} \subseteq Place
        BY DEF ClientType, Place
      <4> QED BY <1>5, <4>1, GoesType DEF DirectTimedOut
    <3> QED BY <1>5, <3>1 DEF DirectTimedOut, ClientType, Place
  <2>2. (WordType /\ DaemonType /\ FlagType /\ LineType /\ BoxType)'
    BY <1>5, SccdAssumption DEF DirectTimedOut, WordType, DaemonType, FlagType,
         LineType, BoxType, NoAnswer
  <2>3. (pc = "recv" => leaked < Fds)'
    BY <1>5 DEF DirectTimedOut, NoAnswer
  <2> QED BY <2>1, <2>2, <2>3
<1>6. ASSUME NEW c \in Client, DirectRead(c)
      PROVE  TInv'
  <2>1. ClientType'
    <3>1. cpc' \in [Client -> Place]
      <4>1. cpc \in [Client -> Place] /\ {"set", "done"} \subseteq Place
        BY DEF ClientType, Place
      <4> QED BY <1>6, <4>1, GoesType DEF DirectRead
    <3> QED BY <1>6, <3>1 DEF DirectRead, ClientType, Place
  <2>2. (WordType /\ DaemonType /\ FlagType /\ LineType /\ BoxType)'
    BY <1>6, SccdAssumption DEF DirectRead, WordType, DaemonType, FlagType, LineType,
         BoxType
  <2>3. (pc = "recv" => leaked < Fds)'
    BY <1>6 DEF DirectRead
  <2> QED BY <2>1, <2>2, <2>3
<1> HIDE DEF TInv
<1> QED
  BY <1>1, <1>2, <1>3, <1>4, <1>5, <1>6 DEF Scc

\* So are its answers packets, signed, with the power it reports.
LEMMA AnswerType ==
    ASSUME NEW p \in Words, NEW c \in Words
    PROVE  /\ Answer(p, c) \in Packets /\ Signed(c, Ctlr) \in Packets
           /\ \A m \in {Answer(p, c), Signed(c, Ctlr)} :
                  /\ m.p.power = c.power /\ m.p.led \in {0, c.led}
                  /\ m.id \in {0, Ctlr} /\ m.sum = scc_cksum(m.p, m.id)
<1> DEFINE q == Packet([power |-> c.power])
<1>1. q \in Words
  <2>1. [f \in Field |-> 0] \in Words
    BY Constants DEF Words
  <2>2. \A f \in DOMAIN [power |-> c.power] : [power |-> c.power][f] \in Byte
    BY DEF Words, Field
  <2> QED BY <2>1, <2>2, OverAny DEF Packet
<1>2. q.power = c.power /\ q.led = 0
  BY DEF Packet, Over, Field
<1>3. Signed(q, 0) \in Packets /\ Signed(c, Ctlr) \in Packets
  BY <1>1, Constants, SignedType
<1> HIDE DEF q
<1>4. Answer(p, c) \in {Signed(q, 0), Signed(c, Ctlr)}
  BY DEF Answer, q
<1> QED BY <1>2, <1>3, <1>4 DEF Signed

(***************************************************************************)
(* What the controller does with a packet: it answers with what it then    *)
(* reports, or the packet is lost.                                         *)
(***************************************************************************)
LEMMA Controlled ==
    ASSUME TInv, Control
    PROVE  /\ toCtl \in Seq(Packets) /\ toCtl # <<>> /\ toCtl' = Tail(toCtl)
           /\ Head(toCtl) \in Packets /\ Head(toCtl).p \in Words
           /\ ctl' = ctl \/ ctl' = Obeyed(Head(toCtl).p)
           /\ ctl' \in Words
           /\ \/ UNCHANGED fromCtl
              \/ \E m \in Packets :
                    /\ fromCtl' = Append(fromCtl, m)
                    /\ m.p.power = ctl'.power /\ m.p.led \in {0, ctl'.led}
                    /\ m.id \in {0, Ctlr} /\ m.sum = scc_cksum(m.p, m.id)
<1>1. toCtl \in Seq(Packets) /\ toCtl # <<>> /\ toCtl' = Tail(toCtl)
  BY DEF Control, TInv, TypeOK, LineType, Packets, Words
<1>2. Head(toCtl) \in Packets
  BY <1>1
<1>3. Head(toCtl).p \in Words
  BY <1>2 DEF Packets
<1>4. ctl' = ctl \/ ctl' = Obeyed(Head(toCtl).p)
  BY DEF Control
<1>5. ctl \in Words
  BY DEF TInv, TypeOK, BoxType, Words
<1>6. ctl' \in Words
  BY <1>3, <1>4, <1>5, ObeyedType
<1>7. \/ UNCHANGED fromCtl
      \/ fromCtl' = Append(fromCtl, Answer(Head(toCtl).p, ctl'))
      \/ fromCtl' = Append(fromCtl, Signed(ctl', Ctlr))
  BY DEF Control
<1> QED BY <1>1, <1>2, <1>3, <1>4, <1>6, <1>7, AnswerType

\* And so does the controller.
LEMMA BoxTInv == TInv /\ (Control \/ Press \/ PowerCut) => TInv'
<1> SUFFICES ASSUME TInv, Control \/ Press \/ PowerCut PROVE TInv'
  OBVIOUS
<1> USE DEF TInv, TypeOK, daemon, state, blinking, sockets, life, clients, line, box, Fault
<1>1. CASE Control
  <2>1. LineType'
    <3>1. toCtl' \in Seq(Packets)
      BY <1>1, Controlled
    <3>2. fromCtl \in Seq(Packets)
      BY DEF LineType, Packets, Words
    <3>3. fromCtl' = fromCtl \/ \E m \in Packets : fromCtl' = Append(fromCtl, m)
      BY <1>1, Controlled
    <3>4. fromCtl' \in Seq(Packets)
      BY <3>2, <3>3
    <3> QED BY <3>1, <3>4 DEF LineType, Packets, Words
  <2>2. BoxType'
    <3>1. ctl' \in Words
      BY <1>1, Controlled
    <3>2. machine' \in {"on", "cut", "commanded"} /\ faults' \in 0 .. MaxFaults
      BY <1>1, SccdAssumption DEF Control, BoxType
    <3> QED BY <3>1, <3>2 DEF BoxType, Words
  <2>3. (WordType /\ DaemonType /\ FlagType /\ ClientType)'
    BY <1>1, SccdAssumption DEF Control, WordType, DaemonType, FlagType, ClientType
  <2>4. (pc = "recv" => leaked < Fds)'
    BY <1>1 DEF Control
  <2> QED BY <2>1, <2>2, <2>3, <2>4
<1>2. CASE Press
  <2>1. FlagType'
    BY <1>2, SccdAssumption DEF Press, FlagType
  <2>2. BoxType'
    <3>1. Stop \in Byte
      BY DEF Stop, Byte
    <3>2. [ctl EXCEPT !.power = Stop, !.led = RedFlash] \in Words
      BY <3>1, Constants, SetByte DEF BoxType, Words, Field
    <3> QED BY <1>2, <3>2 DEF Press, BoxType, Words
  <2>3. (WordType /\ DaemonType /\ ClientType /\ LineType)'
    BY <1>2, SccdAssumption DEF Press, WordType, DaemonType, ClientType, LineType
  <2>4. (pc = "recv" => leaked < Fds)'
    BY <1>2 DEF Press
  <2> QED BY <2>1, <2>2, <2>3, <2>4
<1>3. CASE PowerCut
  <2>1. BoxType'
    BY <1>3, SccdAssumption DEF PowerCut, BoxType
  <2>2. (WordType /\ DaemonType /\ FlagType /\ ClientType /\ LineType)'
    BY <1>3, SccdAssumption DEF PowerCut, WordType, DaemonType, FlagType, ClientType,
         LineType
  <2>3. (pc = "recv" => leaked < Fds)'
    BY <1>3 DEF PowerCut
  <2> QED BY <2>1, <2>2, <2>3
<1> HIDE DEF TInv
<1> QED
  BY <1>1, <1>2, <1>3 DEF Next

\* Every step keeps the types.
LEMMA TInvStep == TInv /\ [Next]_vars => TInv'
<1>1. TInv /\ UNCHANGED vars => TInv'
  BY DEF TInv, TypeOK, WordType, DaemonType, FlagType, ClientType, LineType, BoxType,
         vars, state, blinking, sockets, life, clients, line, box
<1> QED
  BY <1>1, DaemonTInv, SccTInv, BoxTInv DEF Next

\* Every variable of the daemon, its clients, the line and the box keeps its type.
THEOREM TypeCorrect == Spec => []TypeOK
<1>1. TInv => TypeOK
  BY DEF TInv
<1> QED
  BY <1>1, InitTInv, TInvStep, PTL DEF Spec

-----------------------------------------------------------------------------
(***************************************************************************)
(* The words change in four steps of the daemon, the line in three, and    *)
(* the commands of the clients only when they start.                       *)
(***************************************************************************)
LEMMA WordSteps ==
    ASSUME [Next]_vars
    PROVE  UNCHANGED state \/ ReadListen \/ ReadEnter \/ Recv \/ Activity
<1> USE DEF vars, blinking, sockets, life, daemon, clients, line, box
<1>1. Start \/ Term \/ Send \/ Selected \/ TimedOut \/ Read \/ Exit \/ Idle
      \/ Accept \/ RecvNothing => UNCHANGED state
  BY DEF Start, Term, Send, Selected, TimedOut, Read, Exit, Idle, Accept, RecvNothing
<1>2. (\E c \in Client : Ask(c) \/ Scc(c)) => UNCHANGED state
  BY DEF Ask, Scc, SendPacket, DirectSend, DirectSelected, DirectTimedOut, DirectRead
<1>3. Control \/ Press \/ PowerCut => UNCHANGED state
  BY DEF Control, Press, PowerCut
<1>4. UNCHANGED vars => UNCHANGED state
  OBVIOUS
<1> QED BY <1>1, <1>2, <1>3, <1>4 DEF Next, Step

\* Packets enter the line at two places and leave it at one.
LEMMA LineSteps ==
    ASSUME [Next]_vars
    PROVE  UNCHANGED toCtl \/ Send \/ (\E c \in Client : DirectSend(c)) \/ Control
<1> USE DEF vars, state, blinking, sockets, life, daemon, clients, line, box
<1>1. Start \/ Term \/ Selected \/ TimedOut \/ Read \/ ReadEnter \/ ReadListen \/ Exit
      \/ Idle \/ Accept \/ Recv \/ RecvNothing \/ Activity => UNCHANGED toCtl
  BY DEF Start, Term, Selected, TimedOut, Read, ReadEnter, ReadListen, Exit, Idle,
         Accept, Recv, RecvNothing, Activity
<1>2. \A c \in Client : Ask(c) \/ SendPacket(c) \/ DirectSelected(c) \/ DirectTimedOut(c)
                        \/ DirectRead(c) => UNCHANGED toCtl
  BY DEF Ask, SendPacket, DirectSelected, DirectTimedOut, DirectRead
<1>3. Press \/ PowerCut => UNCHANGED toCtl
  BY DEF Press, PowerCut
<1>4. UNCHANGED vars => UNCHANGED toCtl
  OBVIOUS
<1> QED BY <1>1, <1>2, <1>3, <1>4 DEF Next, Step, Scc

\* Only a start gives a client a command, and none becomes idle.
LEMMA CommandSteps ==
    ASSUME TInv, [Next]_vars
    PROVE  \/ UNCHANGED cmd /\ \A c \in Client : cpc'[c] = "idle" => cpc[c] = "idle"
           \/ \E c \in Client : Ask(c)
<1> USE DEF vars, state, blinking, sockets, life, daemon, clients, line, box
<1>1. Start \/ Term \/ Send \/ Selected \/ TimedOut \/ Read \/ ReadEnter \/ ReadListen
      \/ Idle \/ Accept \/ Recv \/ RecvNothing \/ Activity => UNCHANGED <<cmd, cpc>>
  BY DEF Start, Term, Send, Selected, TimedOut, Read, ReadEnter, ReadListen, Idle,
         Accept, Recv, RecvNothing, Activity
<1>2. Exit => UNCHANGED cmd /\ \A c \in Client : cpc'[c] = "idle" => cpc[c] = "idle"
  BY DEF Exit
<1>3. ASSUME NEW c \in Client, Scc(c)
      PROVE  UNCHANGED cmd /\ \A d \in Client : cpc'[d] = "idle" => cpc[d] = "idle"
  <2>1. cpc \in [Client -> Place]
    BY DEF TInv, TypeOK, ClientType, Place
  <2>2. UNCHANGED cmd /\ \E l \in Place \ {"idle"} : Goes(c, l)
    BY <1>3 DEF Scc, SendPacket, DirectSend, DirectSelected, DirectTimedOut, DirectRead,
         Place
  <2> QED BY <2>1, <2>2 DEF Goes
<1>4. Control \/ Press \/ PowerCut => UNCHANGED <<cmd, cpc>>
  BY DEF Control, Press, PowerCut
<1>5. UNCHANGED vars => UNCHANGED <<cmd, cpc>>
  OBVIOUS
<1> QED BY <1>1, <1>2, <1>3, <1>4, <1>5 DEF Next, Step

-----------------------------------------------------------------------------
(***************************************************************************)
(* The power.  A command to cut it that is in the daemon's words, on the   *)
(* line, or has reached the controller, is one that a client asked for, or *)
(* was in the first answer of the controller.                              *)
(***************************************************************************)
AsksHard(c) == "power" \in DOMAIN cmd[c] /\ cmd[c].power \in Hard
Commanded == (\E c \in Client : AsksHard(c)) \/ inherited

PInv ==
    /\ \A c \in Client : cpc[c] = "idle" => cmd[c] = <<>>
    /\ w.power \in Hard => Commanded
    /\ \A i \in 1 .. Len(toCtl) : toCtl[i].p.power \in Hard => Commanded
    /\ machine = "commanded" => Commanded

\* At first nothing is commanded.
LEMMA InitPInv == Init => PInv
BY DEF Init, PInv, Hard, Defaults, Run, Stop, Restart, Reset

\* A command once given stays, since each scc is given one only.
LEMMA CommandedStays ==
    ASSUME TInv, PInv, [Next]_vars
    PROVE  /\ \A c \in Client : cpc'[c] = "idle" => cmd'[c] = <<>>
           /\ Commanded => Commanded'
<1> DEFINE Asking == \E c \in Client : AsksHard(c)
<1>1. ASSUME UNCHANGED cmd, \A c \in Client : cpc'[c] = "idle" => cpc[c] = "idle"
      PROVE  /\ \A c \in Client : cpc'[c] = "idle" => cmd'[c] = <<>>
             /\ Asking => Asking'
  BY <1>1 DEF PInv, AsksHard
<1>2. ASSUME NEW d \in Client, Ask(d)
      PROVE  /\ \A c \in Client : cpc'[c] = "idle" => cmd'[c] = <<>>
             /\ Asking => Asking'
  <2>1. \A c \in Client : c # d => cmd'[c] = cmd[c] /\ cpc'[c] = cpc[c]
    BY <1>2 DEF Ask, Goes, TInv, TypeOK, ClientType
  <2>2. cpc'[d] # "idle"
    BY <1>2 DEF Ask, Goes, TInv, TypeOK, ClientType
  <2>3. ~ AsksHard(d)
    <3>1. cmd[d] = <<>>
      BY <1>2 DEF Ask, PInv
    <3>2. DOMAIN <<>> = {}
      OBVIOUS
    <3> QED BY <3>1, <3>2 DEF AsksHard
  <2> QED BY <2>1, <2>2, <2>3 DEF PInv, AsksHard
<1>3. inherited => inherited'
  BY WordSteps DEF state, ReadListen, ReadEnter, Recv, Activity
<1> QED BY <1>1, <1>2, <1>3, CommandSteps DEF Commanded

\* The power byte of what is asked, over any words.
LEMMA OverPower ==
    ASSUME NEW c \in Client, NEW p
    PROVE  Over(p, cmd[c]).power \in Hard => p.power \in Hard \/ AsksHard(c)
BY DEF Over, AsksHard, Field

\* The same of the merged words.
LEMMA MergedPower ==
    ASSUME NEW c \in Client
    PROVE  Merged(cmd[c]).power \in Hard => w.power \in Hard \/ AsksHard(c)
<1>1. Packet(cmd[c]).power # 0 => Packet(cmd[c]).power = cmd[c].power /\ "power" \in DOMAIN cmd[c]
  BY DEF Packet, Over, Field
<1> QED BY <1>1 DEF Merged, AsksHard, Field

\* Blinking changes no other field than the LED and its rate.
LEMMA BlinkPower ==
    ASSUME JunkRate, w \in Words, NEW active \in BOOLEAN, Blink(active)
    PROVE  \A f \in Field \ {"led", "rate"} : w'[f] = w[f]
<1> SUFFICES ASSUME NEW f \in Field \ {"led", "rate"} PROVE w'[f] = w[f]
  OBVIOUS
<1>1. [w EXCEPT !.led = Blue][f] = w[f]
  BY DEF Words
<1>2. \A x \in Junk : Over([w EXCEPT !.led = Blue], x)[f] = w[f]
  BY <1>1 DEF JunkRate, Over
<1>3. [w EXCEPT !.led = BlueFlash, !.rate = IoRate][f] = w[f]
  BY DEF Words
<1>4. [w EXCEPT !.led = Blue, !.rate = saverate][f] = w[f]
  BY DEF Words
<1> QED BY <1>1, <1>2, <1>3, <1>4 DEF Blink

\* The daemon gets such a power byte from a client only.
LEMMA WordPower ==
    ASSUME JunkRate, TInv, PInv, [Next]_vars
    PROVE  w'.power \in Hard => Commanded'
<1>1. CASE UNCHANGED state
  BY <1>1, CommandedStays DEF PInv, state
<1>2. CASE ReadListen
  <2>1. w'.power = Run
    BY <1>2 DEF ReadListen, Defaults
  <2> QED BY <2>1 DEF Hard, Run, Stop, Restart, Reset
<1>3. CASE Recv
  <2>1. PICK c \in conn : Received(c)
    BY <1>3, RecvWords
  <2>2. c \in Client
    BY DEF TInv, TypeOK, DaemonType
  <2>3. w'.power \in Hard => w.power \in Hard \/ AsksHard(c)
    BY <2>1, <2>2, MergedPower DEF Received
  <2> QED BY <2>2, <2>3, CommandedStays DEF PInv, Commanded
<1>4. CASE Activity
  <2>1. PICK active \in BOOLEAN : Blink(active)
    BY <1>4 DEF Activity, disk_activity
  <2>2. w'.power = w.power
    BY <2>1, BlinkPower DEF TInv, TypeOK, WordType, Words, Field
  <2> QED BY <2>2, CommandedStays DEF PInv
<1>5. CASE ReadEnter
  BY <1>5 DEF ReadEnter, Commanded
<1> QED BY <1>1, <1>2, <1>3, <1>4, <1>5, WordSteps

\* So does the line.
LEMMA LinePower ==
    ASSUME TInv, PInv, [Next]_vars
    PROVE  \A i \in 1 .. Len(toCtl') : toCtl'[i].p.power \in Hard => Commanded'
<1>1. toCtl \in Seq(Packets)
  BY DEF TInv, TypeOK, LineType, Packets, Words
<1>2. ASSUME NEW m \in Packets, toCtl' = Append(toCtl, m), m.p.power \in Hard => Commanded
      PROVE  \A i \in 1 .. Len(toCtl') : toCtl'[i].p.power \in Hard => Commanded'
  <2>1. Len(toCtl) \in Nat /\ Len(toCtl') = Len(toCtl) + 1
    BY <1>1, <1>2
  <2> SUFFICES ASSUME NEW i \in 1 .. Len(toCtl) + 1, toCtl'[i].p.power \in Hard
               PROVE  Commanded'
    BY <2>1
  <2>2. CASE i = Len(toCtl) + 1
    BY <1>1, <1>2, <2>1, <2>2, CommandedStays
  <2>3. CASE i \in 1 .. Len(toCtl)
    <3>1. toCtl'[i] = toCtl[i]
      BY <1>1, <1>2, <2>3
    <3> QED BY <2>3, <3>1, CommandedStays DEF PInv
  <2> QED BY <2>1, <2>2, <2>3
<1>3. ResetPacket.power \notin Hard /\ Defaults.power \notin Hard
  BY DEF ResetPacket, Defaults, Run, Hard, Stop, Restart, Reset
<1>4. CASE UNCHANGED toCtl
  BY <1>4, CommandedStays DEF PInv
<1>5. CASE Send
  <2>1. Signed(ResetPacket, 97) \in Packets
    BY Constants, SignedType
  <2>2. [p |-> w, id |-> id, sum |-> sum] \in Packets
    BY DEF Packets, Words, TInv, TypeOK, WordType
  <2>3. Signed(ResetPacket, 97).p.power \in Hard => Commanded
    BY <1>3 DEF Signed
  <2>4. w.power \in Hard => Commanded
    BY DEF PInv
  <2> QED BY <1>2, <1>5, <2>1, <2>2, <2>3, <2>4 DEF Send
<1>6. ASSUME NEW c \in Client, DirectSend(c)
      PROVE  \A i \in 1 .. Len(toCtl') : toCtl'[i].p.power \in Hard => Commanded'
  <2>1. Signed([ResetPacket EXCEPT !.rate = HOST], 97) \in Packets
    BY Constants, SetByte, SignedType DEF Field
  <2>2. Signed(Over(Defaults, cmd[c]), HOST) \in Packets
    BY Constants, OverType, SignedType DEF TInv, TypeOK, ClientType
  <2>3. Signed([ResetPacket EXCEPT !.rate = HOST], 97).p.power \notin Hard
    <3>1. [ResetPacket EXCEPT !.rate = HOST].power = ResetPacket.power
      BY DEF ResetPacket
    <3> QED BY <1>3, <3>1 DEF Signed
  <2>4. Signed(Over(Defaults, cmd[c]), HOST).p.power \in Hard => Commanded
    BY <1>3, OverPower DEF Signed, Commanded
  <2> QED BY <1>2, <1>6, <2>1, <2>2, <2>3, <2>4 DEF DirectSend
<1>7. CASE Control
  <2>1. toCtl # <<>> /\ toCtl' = Tail(toCtl)
    BY <1>7 DEF Control
  <2>2. \A i \in 1 .. Len(toCtl') : i + 1 \in 1 .. Len(toCtl) /\ toCtl'[i] = toCtl[i + 1]
    BY <1>1, <2>1
  <2> QED BY <2>2, CommandedStays DEF PInv
<1> QED BY <1>4, <1>5, <1>6, <1>7, LineSteps

\* And so does the controller.
LEMMA MachinePower ==
    ASSUME TInv, PInv, [Next]_vars
    PROVE  machine' = "commanded" => Commanded'
<1> USE DEF vars, state, blinking, sockets, life, daemon, clients, line, box
<1>1. CASE Control
  <2>1. toCtl \in Seq(Packets) /\ toCtl # <<>>
    BY <1>1 DEF Control, TInv, TypeOK, LineType, Packets, Words
  <2>2. 1 \in 1 .. Len(toCtl) /\ toCtl[1] = Head(toCtl)
    BY <2>1
  <2>3. Head(toCtl).p.power \in Hard => Commanded
    BY <2>2 DEF PInv
  <2>4. machine' # machine => Head(toCtl).p.power \in Hard
    BY <1>1 DEF Control, Hard
  <2> QED BY <2>3, <2>4, CommandedStays DEF PInv
<1>2. CASE PowerCut
  BY <1>2 DEF PowerCut
<1>3. CASE UNCHANGED machine
  BY <1>3, CommandedStays DEF PInv
<1>4. Control \/ PowerCut \/ UNCHANGED machine
  <2>1. Start \/ Term \/ Send \/ Selected \/ TimedOut \/ Read \/ ReadEnter \/ ReadListen
        \/ Exit \/ Idle \/ Accept \/ Recv \/ RecvNothing \/ Activity => UNCHANGED machine
    BY DEF Start, Term, Send, Selected, TimedOut, Read, ReadEnter, ReadListen, Exit,
           Idle, Accept, Recv, RecvNothing, Activity
  <2>2. (\E c \in Client : Ask(c) \/ Scc(c)) => UNCHANGED machine
    BY DEF Ask, Scc, SendPacket, DirectSend, DirectSelected, DirectTimedOut, DirectRead
  <2>3. Press \/ UNCHANGED vars => UNCHANGED machine
    BY DEF Press
  <2> QED BY <2>1, <2>2, <2>3 DEF Next, Step
<1> QED BY <1>1, <1>2, <1>3, <1>4

(***************************************************************************)
(* The power never goes by a command that nobody gave, unless the first    *)
(* answer of the controller already said so, if a rate that was never      *)
(* saved leaves the power byte alone.                                      *)
(***************************************************************************)
THEOREM PowerStays == ASSUME JunkRate PROVE Spec => []NoSuddenOff
<1>1. Init => TInv /\ PInv
  BY InitTInv, InitPInv
<1>2. TInv /\ PInv /\ [Next]_vars => (TInv /\ PInv)'
  <2> SUFFICES ASSUME TInv, PInv, [Next]_vars PROVE PInv'
    BY TInvStep
  <2> QED BY CommandedStays, WordPower, LinePower, MachinePower DEF PInv
<1>3. PInv => NoSuddenOff
  BY DEF PInv, NoSuddenOff, Commanded, AsksHard, AskedFor
<1> QED BY <1>1, <1>2, <1>3, PTL DEF Spec

-----------------------------------------------------------------------------
(***************************************************************************)
(* The settings.  The words and what was asked for are valid together, so  *)
(* that a packet is rejected for both or for neither.                      *)
(***************************************************************************)

\* They are alike at first.
LEMMA InitSettings == Init => SettingsKept
BY DEF Init, SettingsKept

\* What is merged, where no byte of the command is 0.
LEMMA MergedFields ==
    ASSUME NonZero, NEW x \in Command \cup {<<>>}, NEW f \in Field
    PROVE  Merged(x)[f] = IF f \in DOMAIN x THEN x[f] ELSE w[f]
<1>1. f \in DOMAIN x => x[f] # 0
  <2>1. DOMAIN <<>> = {}
    OBVIOUS
  <2> QED BY <2>1 DEF NonZero
<1> QED BY <1>1 DEF Merged, Packet, Over

\* Blinking or not, the LED is valid.
LEMMA BothBlue ==
    ASSUME NEW a, NEW b, a = b \/ {a, b} = {Blue, BlueFlash}
    PROVE  a \in 97 .. 103 <=> b \in 97 .. 103
<1>1. CASE {a, b} = {Blue, BlueFlash}
  <2>1. (a = Blue \/ a = BlueFlash) /\ (b = Blue \/ b = BlueFlash)
    BY <1>1
  <2> QED BY <2>1 DEF Blue, BlueFlash
<1> QED BY <1>1

\* The merged words are valid if and only if what is now asked for is.
LEMMA MergedValid ==
    ASSUME NonZero, SettingsKept, NEW x \in Command \cup {<<>>}
    PROVE  scc_validate(Merged(x)) <=> scc_validate(Over(asked, x))
<1>1. \A f \in Field : Merged(x)[f] = IF f \in DOMAIN x THEN x[f] ELSE w[f]
  BY MergedFields
<1>2. \A f \in Field : Over(asked, x)[f] = IF f \in DOMAIN x THEN x[f] ELSE asked[f]
  BY DEF Over
<1>3. /\ Merged(x).power = Over(asked, x).power /\ Merged(x).fan = Over(asked, x).fan
      /\ \/ Merged(x).led = Over(asked, x).led
         \/ {Merged(x).led, Over(asked, x).led} = {Blue, BlueFlash}
  BY <1>1, <1>2 DEF SettingsKept, Field
<1>4. Merged(x).led \in 97 .. 103 <=> Over(asked, x).led \in 97 .. 103
  BY <1>3, BothBlue
<1> QED BY <1>3, <1>4 DEF scc_validate

\* A packet changes the words as it changes what was asked, or neither.
LEMMA RecvKeeps ==
    ASSUME NonZero, SettingsKept, NEW x \in Command \cup {<<>>}, Asks(x),
           IF scc_validate(Merged(x)) THEN w' = Merged(x) ELSE w' = w
    PROVE  SettingsKept'
<1>1. CASE scc_validate(Merged(x))
  <2>1. w' = Merged(x) /\ asked' = Over(asked, x)
    BY <1>1, MergedValid DEF Asks
  <2>2. \A f \in Field : f \in DOMAIN x => w'[f] = x[f] /\ asked'[f] = x[f]
    BY <2>1, MergedFields DEF Over
  <2>3. \A f \in Field : f \notin DOMAIN x => w'[f] = w[f] /\ asked'[f] = asked[f]
    BY <2>1, MergedFields DEF Over
  <2> QED BY <2>2, <2>3 DEF SettingsKept, Field
<1>2. CASE ~scc_validate(Merged(x))
  <2>1. w' = w /\ asked' = asked
    BY <1>2, MergedValid DEF Asks
  <2> QED BY <2>1 DEF SettingsKept
<1> QED BY <1>1, <1>2

\* Blinking exchanges blue and flashing blue.
LEMMA BlinkLed ==
    ASSUME JunkRate, w \in Words, NEW active \in BOOLEAN, Blink(active)
    PROVE  w'.led = w.led \/ {w.led, w'.led} = {Blue, BlueFlash}
<1>1. \A b : [w EXCEPT !.led = b].led = b
  BY DEF Words, Field
<1>2. \A x \in Junk : Over([w EXCEPT !.led = Blue], x).led = Blue
  BY <1>1 DEF JunkRate, Over, Field
<1>3. \A b, r : [w EXCEPT !.led = b, !.rate = r].led = b
  BY DEF Words, Field
<1>4. w'.led = w.led \/ (w.led = Blue /\ w'.led = BlueFlash)
                     \/ (w.led = BlueFlash /\ w'.led = Blue)
  <2>1. w' = [w EXCEPT !.led = BlueFlash, !.rate = IoRate] => w'.led = BlueFlash
    BY <1>3
  <2>2. w' = [w EXCEPT !.led = Blue, !.rate = saverate] => w'.led = Blue
    BY <1>3
  <2>3. \A x \in Junk : w' = Over([w EXCEPT !.led = Blue], x) => w'.led = Blue
    BY <1>2
  <2> QED BY <2>1, <2>2, <2>3 DEF Blink
<1> QED BY <1>4

\* Every step keeps the settings.
LEMMA SettingsStep ==
    ASSUME JunkRate, NonZero, TInv, SettingsKept, [Next]_vars
    PROVE  SettingsKept'
<1>1. CASE UNCHANGED state
  BY <1>1 DEF SettingsKept, state
<1>2. CASE ReadListen \/ ReadEnter
  <2>1. asked' = w'
    BY <1>2 DEF ReadListen, ReadEnter
  <2> QED BY <2>1 DEF SettingsKept
<1>3. CASE Recv
  <2>1. PICK c \in conn : Received(c) /\ cmd[c] \in Command \cup {<<>>}
    BY <1>3, RecvWords
  <2> QED BY <2>1, RecvKeeps DEF Received
<1>4. CASE Activity
  <2>1. PICK active \in BOOLEAN : Blink(active)
    BY <1>4 DEF Activity, disk_activity
  <2>2. w \in Words
    BY DEF TInv, TypeOK, WordType, Words
  <2>3. \A f \in {"power", "fan", "hot", "cold"} : w'[f] = w[f]
    BY <2>1, <2>2, BlinkPower DEF Field
  <2>4. w'.led = w.led \/ {w.led, w'.led} = {Blue, BlueFlash}
    BY <2>1, <2>2, BlinkLed
  <2>5. asked' = asked
    BY <1>4 DEF Activity
  <2> QED BY <2>3, <2>4, <2>5 DEF SettingsKept
<1> QED BY <1>1, <1>2, <1>3, <1>4, WordSteps

(***************************************************************************)
(* Over the first answer of the controller an invalid packet corrupts      *)
(* nothing, and a valid one changes what it asks for and no more, if       *)
(* nobody asks for a 0.                                                    *)
(***************************************************************************)
THEOREM SettingsStay == ASSUME JunkRate, NonZero PROVE Spec => []SettingsKept
<1>1. Init => TInv /\ SettingsKept
  BY InitTInv, InitSettings
<1>2. TInv /\ SettingsKept /\ [Next]_vars => (TInv /\ SettingsKept)'
  BY TInvStep, SettingsStep
<1> QED BY <1>1, <1>2, PTL DEF Spec

-----------------------------------------------------------------------------
(***************************************************************************)
(* The shutdown.  While shutdown_called is not set, nothing was started.   *)
(***************************************************************************)
OInv == OneShutdown /\ (~called => execs = <<>>)

\* Only an answer starts a program, and only while none was started.
LEMMA OInvStep == OInv /\ [Next]_vars => OInv'
<1> SUFFICES ASSUME OInv, [Next]_vars PROVE OInv'
  OBVIOUS
<1> USE DEF vars, state, blinking, sockets, life, daemon, clients, line, box
<1>1. CASE Start
  BY <1>1 DEF Start, OInv, OneShutdown
<1>2. CASE Read
  <2>1. (called' = called /\ execs' = execs)
        \/ (~called /\ called' = TRUE /\ \E x : execs' = Append(execs, x))
    BY <1>2 DEF Read, Examine, Fault
  <2>2. \A x : Len(Append(<<>>, x)) = 1
    OBVIOUS
  <2> QED BY <2>1, <2>2 DEF OInv, OneShutdown
<1>3. CASE UNCHANGED <<called, execs>>
  BY <1>3 DEF OInv, OneShutdown
<1>4. Start \/ Read \/ UNCHANGED <<called, execs>>
  <2>1. Term \/ Send \/ Selected \/ TimedOut \/ ReadEnter \/ ReadListen \/ Exit \/ Idle
        \/ Accept \/ Recv \/ RecvNothing \/ Activity => UNCHANGED <<called, execs>>
    BY DEF Term, Send, Selected, TimedOut, ReadEnter, ReadListen, Exit, Idle, Accept,
           Recv, RecvNothing, Activity
  <2>2. (\E c \in Client : Ask(c) \/ Scc(c)) => UNCHANGED <<called, execs>>
    BY DEF Ask, Scc, SendPacket, DirectSend, DirectSelected, DirectTimedOut, DirectRead
  <2>3. Control \/ Press \/ PowerCut \/ UNCHANGED vars => UNCHANGED <<called, execs>>
    BY DEF Control, Press, PowerCut
  <2> QED BY <2>1, <2>2, <2>3 DEF Next, Step
<1> QED BY <1>1, <1>2, <1>3, <1>4

\* One run of the daemon starts halt or reboot once, however many answers ask.
THEOREM ShutdownOnce == Spec => []OneShutdown
<1>1. Init => OInv
  BY DEF Init, OInv, OneShutdown
<1>2. OInv => OneShutdown
  BY DEF OInv
<1> QED BY <1>1, <1>2, OInvStep, PTL DEF Spec

-----------------------------------------------------------------------------
(***************************************************************************)
(* The line.  What is said of every packet on it survives a step that puts *)
(* on it only packets of which it is true.                                 *)
(***************************************************************************)
Sent(m) == toCtl' = Append(toCtl, m)

LEMMA LineGrows ==
    ASSUME TInv, NEW m \in Packets, Sent(m)
    PROVE  \A i \in 1 .. Len(toCtl') :
               toCtl'[i] = m \/ \E j \in 1 .. Len(toCtl) : toCtl'[i] = toCtl[j]
<1>1. toCtl \in Seq(Packets)
  BY DEF TInv, TypeOK, LineType, Packets, Words
<1>2. Len(toCtl) \in Nat /\ Len(toCtl') = Len(toCtl) + 1
  BY <1>1 DEF Sent
<1> SUFFICES ASSUME NEW i \in 1 .. Len(toCtl) + 1
             PROVE  toCtl'[i] = m \/ \E j \in 1 .. Len(toCtl) : toCtl'[i] = toCtl[j]
  BY <1>2
<1>3. CASE i = Len(toCtl) + 1
  BY <1>1, <1>2, <1>3 DEF Sent
<1>4. CASE i \in 1 .. Len(toCtl)
  BY <1>1, <1>4 DEF Sent
<1> QED BY <1>2, <1>3, <1>4

LEMMA LineShrinks ==
    ASSUME TInv, Control
    PROVE  \A i \in 1 .. Len(toCtl') : \E j \in 1 .. Len(toCtl) : toCtl'[i] = toCtl[j]
<1>1. toCtl \in Seq(Packets) /\ toCtl # <<>> /\ toCtl' = Tail(toCtl)
  BY DEF Control, TInv, TypeOK, LineType, Packets, Words
<1>2. \A i \in 1 .. Len(toCtl') : i + 1 \in 1 .. Len(toCtl) /\ toCtl'[i] = toCtl[i + 1]
  BY <1>1
<1> QED BY <1>2

\* What the daemon sends is the reset, or its words with the checksum it keeps.
Outgoing == IF stage = "listen" THEN Signed(ResetPacket, 97)
            ELSE [p |-> w, id |-> id, sum |-> sum]

LEMMA SendSent ==
    ASSUME TInv, Send
    PROVE  Outgoing \in Packets /\ Sent(Outgoing)
<1>1. Signed(ResetPacket, 97) \in Packets
  BY Constants, SignedType
<1>2. [p |-> w, id |-> id, sum |-> sum] \in Packets
  BY DEF Packets, Words, TInv, TypeOK, WordType
<1> QED BY <1>1, <1>2 DEF Send, Sent, Outgoing

\* A client that talks to the controller sends two packets, both signed.
LEMMA DirectSent ==
    ASSUME TInv, NEW c \in Client, DirectSend(c)
    PROVE  \E p \in {[ResetPacket EXCEPT !.rate = HOST], Over(Defaults, cmd[c])},
              n \in {97, HOST} :
               Signed(p, n) \in Packets /\ Sent(Signed(p, n))
<1>1. [ResetPacket EXCEPT !.rate = HOST] \in Words
  BY Constants, SetByte DEF Field
<1>2. Over(Defaults, cmd[c]) \in Words
  BY Constants, OverType DEF TInv, TypeOK, ClientType
<1>3. \A p \in Words : Signed(p, 97) \in Packets /\ Signed(p, HOST) \in Packets
  BY Constants, SignedType
<1> QED BY <1>1, <1>2, <1>3 DEF DirectSend, Sent

\* Answers come from the controller, and only it and the switch change its state.
LEMMA AnswerSteps ==
    ASSUME [Next]_vars, ~Control
    PROVE  /\ fromCtl' \in {fromCtl, <<>>} \/ (fromCtl # <<>> /\ fromCtl' = Tail(fromCtl))
           /\ UNCHANGED ctl \/ Press
<1> USE DEF vars, state, blinking, sockets, life, daemon, clients, line, box
<1>1. CASE Start \/ Term \/ Send \/ Selected \/ TimedOut \/ Read \/ ReadEnter \/ ReadListen
           \/ Exit \/ Idle \/ Accept \/ Recv \/ RecvNothing \/ Activity
  BY <1>1 DEF Start, Term, Send, Selected, TimedOut, Read, ReadEnter, ReadListen, Exit,
              Idle, Accept, Recv, RecvNothing, Activity
<1>2. CASE \E c \in Client : Ask(c) \/ Scc(c)
  BY <1>2 DEF Ask, Scc, SendPacket, DirectSend, DirectSelected, DirectTimedOut, DirectRead
<1>3. CASE Press \/ PowerCut \/ UNCHANGED vars
  BY <1>3 DEF Press, PowerCut
<1> QED BY <1>1, <1>2, <1>3 DEF Next, Step

\* What an answer of the controller says.
Answered(m) ==
    /\ m.p.power = ctl'.power /\ m.p.led \in {0, ctl'.led}
    /\ m.id \in {0, Ctlr} /\ m.sum = scc_cksum(m.p, m.id)

\* Every answer was there before, or the controller gives it now.
LEMMA AnswersGrow ==
    ASSUME TInv, [Next]_vars
    PROVE  \A i \in 1 .. Len(fromCtl') :
               \/ \E j \in 1 .. Len(fromCtl) : fromCtl'[i] = fromCtl[j]
               \/ Control /\ Answered(fromCtl'[i])
<1> DEFINE Old(i) == \E j \in 1 .. Len(fromCtl) : fromCtl'[i] = fromCtl[j]
<1>1. fromCtl \in Seq(Packets)
  BY DEF TInv, TypeOK, LineType, Packets, Words
<1>2. CASE fromCtl' \in {fromCtl, <<>>}
  BY <1>2
<1>3. CASE fromCtl # <<>> /\ fromCtl' = Tail(fromCtl)
  <2>1. \A i \in 1 .. Len(fromCtl') : i + 1 \in 1 .. Len(fromCtl) /\ fromCtl'[i] = fromCtl[i + 1]
    BY <1>1, <1>3
  <2> QED BY <2>1
<1>4. ASSUME Control, NEW m \in Packets, fromCtl' = Append(fromCtl, m), Answered(m)
      PROVE  \A i \in 1 .. Len(fromCtl') : Old(i) \/ Answered(fromCtl'[i])
  <2>1. Len(fromCtl) \in Nat /\ Len(fromCtl') = Len(fromCtl) + 1
    BY <1>1, <1>4
  <2>2. fromCtl'[Len(fromCtl) + 1] = m
    BY <1>1, <1>4
  <2>3. \A i \in 1 .. Len(fromCtl) : fromCtl'[i] = fromCtl[i]
    BY <1>1, <1>4
  <2> SUFFICES ASSUME NEW i \in 1 .. Len(fromCtl) + 1
               PROVE  Old(i) \/ Answered(fromCtl'[i])
    BY <2>1
  <2>4. CASE i = Len(fromCtl) + 1
    BY <1>4, <2>2, <2>4
  <2>5. CASE i \in 1 .. Len(fromCtl)
    BY <2>3, <2>5
  <2> QED BY <2>1, <2>4, <2>5
<1>5. Control => UNCHANGED fromCtl \/ \E m \in Packets : fromCtl' = Append(fromCtl, m) /\ Answered(m)
  BY Controlled DEF Answered
<1> QED BY <1>2, <1>3, <1>4, <1>5, AnswerSteps

\* So what the daemon takes over from the first answer was said by the controller.
LEMMA EnterTakes ==
    ASSUME TInv, ReadEnter
    PROVE  \E j \in 1 .. Len(fromCtl) :
               w' = fromCtl[j].p /\ id' = fromCtl[j].id /\ sum' = fromCtl[j].sum
<1>1. fromCtl \in Seq(Packets) /\ fromCtl # <<>>
  BY DEF ReadEnter, TInv, TypeOK, LineType, Packets, Words
<1>2. 1 \in 1 .. Len(fromCtl) /\ Head(fromCtl) = fromCtl[1]
  BY <1>1
<1> QED BY <1>2 DEF ReadEnter

-----------------------------------------------------------------------------
(***************************************************************************)
(* The checksum.  It is that of the words while nothing changes the words  *)
(* behind it, and only the blinking does, which is of a blue LED.  While   *)
(* nobody asks for that there is none, nor does the controller report it.  *)
(***************************************************************************)
NoBlue == \A x \in Command : "led" \in DOMAIN x => x.led \notin {Blue, BlueFlash}

Plain(p) == p.led \notin {Blue, BlueFlash}

SumCurrent ==
    /\ Plain(w) /\ Plain(ctl)
    /\ \A i \in 1 .. Len(toCtl) : Plain(toCtl[i].p)
    /\ \A i \in 1 .. Len(fromCtl) :
          Plain(fromCtl[i].p) /\ fromCtl[i].sum = scc_cksum(fromCtl[i].p, fromCtl[i].id)
    /\ stage # "listen" => sum = scc_cksum(w, id)
    /\ pc \in {"loop", "recv", "blink"} => stage # "listen"

\* The defaults and the reset have no blue LED, and 0 is none either.
LEMMA PlainWords ==
    /\ Plain(Defaults) /\ Plain(ResetPacket) /\ Plain([ResetPacket EXCEPT !.rate = HOST])
    /\ RedFlash \notin {Blue, BlueFlash} /\ 0 \notin {Blue, BlueFlash}
BY DEF Plain, Defaults, ResetPacket, Blue, BlueFlash, RedFlash

\* No packet is merged before the first reset.
LEMMA InitSumCurrent == Init => SumCurrent /\ ChecksumRight
BY PlainWords DEF Init, SumCurrent, ChecksumRight

\* The daemon leaves the loop for a reset only, and comes back with new words.
LEMMA StageSteps ==
    ASSUME TInv, SumCurrent, [Next]_vars, ~ReadListen, ~ReadEnter, ~Activity, ~Recv
    PROVE  /\ stage' # "listen" => stage # "listen"
           /\ pc' \in {"loop", "recv", "blink"} => stage' # "listen"
           /\ UNCHANGED <<w, id, sum>>
<1> USE DEF SumCurrent, vars, state, blinking, sockets, life, daemon, clients, line, box
<1>1. CASE Term
  BY <1>1 DEF Term
<1>2. CASE Start \/ Send \/ Selected \/ TimedOut \/ Read \/ Exit \/ Idle \/ Accept
           \/ RecvNothing
  BY <1>2 DEF Start, Send, Selected, TimedOut, Read, Exit, Idle, Accept, RecvNothing
<1>3. CASE (\E c \in Client : Ask(c) \/ Scc(c)) \/ Control \/ Press \/ PowerCut
           \/ UNCHANGED vars
  BY <1>3 DEF Ask, Scc, SendPacket, DirectSend, DirectSelected, DirectTimedOut,
              DirectRead, Control, Press, PowerCut
<1> QED BY <1>1, <1>2, <1>3 DEF Next, Step

\* The daemon's words.
WordSum ==
    /\ Plain(w)
    /\ stage # "listen" => sum = scc_cksum(w, id)
    /\ pc \in {"loop", "recv", "blink"} => stage # "listen"

\* The checksum in the words is kept.
LEMMA SumStep ==
    ASSUME NoBlue, TInv, SumCurrent, [Next]_vars
    PROVE  WordSum'
<1>1. CASE ReadListen
  <2>1. w'.led = RedFlash /\ sum' = scc_cksum(w', id')
    BY <1>1 DEF ReadListen, Defaults
  <2> QED BY <1>1, <2>1, PlainWords DEF ReadListen, WordSum, Plain, scc_cksum
<1>2. CASE ReadEnter
  <2>1. PICK j \in 1 .. Len(fromCtl) :
            w' = fromCtl[j].p /\ id' = fromCtl[j].id /\ sum' = fromCtl[j].sum
    BY <1>2, EnterTakes
  <2>2. Plain(fromCtl[j].p) /\ fromCtl[j].sum = scc_cksum(fromCtl[j].p, fromCtl[j].id)
    BY DEF SumCurrent
  <2>3. Plain(w)' /\ sum' = scc_cksum(w, id)'
    BY <2>1, <2>2 DEF Plain, scc_cksum
  <2>4. pc' = "loop" /\ stage' = "enter"
    BY <1>2 DEF ReadEnter
  <2> QED BY <2>3, <2>4 DEF WordSum
<1>3. CASE Activity
  <2>1. w' = w /\ sum' = sum /\ id' = id
    BY <1>3 DEF Activity, disk_activity, Blink, SumCurrent, Plain
  <2>2. pc' = "send" /\ sum = scc_cksum(w, id)
    BY <1>3 DEF Activity, SumCurrent
  <2> QED BY <2>1, <2>2 DEF SumCurrent, WordSum, Plain, scc_cksum
<1>4. CASE Recv
  <2>1. PICK c \in conn : Received(c) /\ cmd[c] \in Command \cup {<<>>}
    BY <1>4, RecvWords
  <2>2. Plain(Merged(cmd[c]))
    <3>1. "led" \in DOMAIN cmd[c] => cmd[c].led \notin {Blue, BlueFlash}
      BY <2>1 DEF NoBlue
    <3>2. Merged(cmd[c]).led = w.led
          \/ ("led" \in DOMAIN cmd[c] /\ Merged(cmd[c]).led = cmd[c].led)
      BY DEF Merged, Packet, Over, Field
    <3> QED BY <3>1, <3>2 DEF SumCurrent, Plain
  <2>3. pc = "recv" /\ stage' = stage
    BY <1>4 DEF Recv
  <2>4. CASE w' = Merged(cmd[c]) /\ sum' = scc_cksum(w', HOST) /\ id' = HOST
    BY <2>2, <2>3, <2>4 DEF SumCurrent, WordSum, Plain, scc_cksum
  <2>5. CASE UNCHANGED <<w, id, sum>>
    BY <2>3, <2>5 DEF SumCurrent, WordSum, Plain, scc_cksum
  <2> QED BY <2>1, <2>4, <2>5 DEF Received
<1>5. CASE ~ReadListen /\ ~ReadEnter /\ ~Activity /\ ~Recv
  BY <1>5, StageSteps DEF SumCurrent, WordSum, Plain, scc_cksum
<1> QED BY <1>1, <1>2, <1>3, <1>4, <1>5

\* Nobody puts a blue LED on the line.
LEMMA LinePlain ==
    ASSUME NoBlue, TInv, SumCurrent, [Next]_vars
    PROVE  \A i \in 1 .. Len(toCtl') : Plain(toCtl'[i].p)
<1> DEFINE Calm(m) == Plain(m.p)
<1>1. \A j \in 1 .. Len(toCtl) : Calm(toCtl[j])
  BY DEF SumCurrent
<1>2. CASE UNCHANGED toCtl
  BY <1>1, <1>2
<1>3. CASE Send
  <2>1. Calm(Outgoing)
    BY PlainWords DEF Outgoing, Signed, SumCurrent
  <2> QED BY <1>1, <1>3, <2>1, SendSent, LineGrows
<1>4. ASSUME NEW c \in Client, DirectSend(c)
      PROVE  \A i \in 1 .. Len(toCtl') : Calm(toCtl'[i])
  <2>1. PICK p \in {[ResetPacket EXCEPT !.rate = HOST], Over(Defaults, cmd[c])},
             n \in {97, HOST} :
                 Signed(p, n) \in Packets /\ Sent(Signed(p, n))
    BY <1>4, DirectSent
  <2>2. Plain(Over(Defaults, cmd[c]))
    <3>1. cmd[c] \in Command \cup {<<>>} /\ DOMAIN <<>> = {}
      BY DEF TInv, TypeOK, ClientType
    <3>2. "led" \in DOMAIN cmd[c] => cmd[c].led \notin {Blue, BlueFlash}
      BY <3>1 DEF NoBlue
    <3>3. Over(Defaults, cmd[c]).led = Defaults.led
          \/ ("led" \in DOMAIN cmd[c] /\ Over(Defaults, cmd[c]).led = cmd[c].led)
      BY DEF Over, Field
    <3> QED BY <3>2, <3>3, PlainWords DEF Plain
  <2>3. Calm(Signed(p, n))
    BY <2>1, <2>2, PlainWords DEF Signed
  <2> QED BY <1>1, <2>1, <2>3, LineGrows
<1>5. CASE Control
  BY <1>1, <1>5, LineShrinks
<1> QED BY <1>2, <1>3, <1>4, <1>5, LineSteps

\* Nor does the controller light it of itself.
LEMMA ControlPlain ==
    ASSUME TInv, SumCurrent, [Next]_vars
    PROVE  Plain(ctl)'
<1>1. CASE Control
  <2>1. toCtl \in Seq(Packets) /\ toCtl # <<>> /\ Head(toCtl).p \in Words
    BY <1>1, Controlled
  <2>2. 1 \in 1 .. Len(toCtl) /\ toCtl[1] = Head(toCtl)
    BY <2>1
  <2>3. Plain(Head(toCtl).p) /\ Plain(ctl)
    BY <2>2 DEF SumCurrent
  <2>4. \A v : [Defaults EXCEPT !.power = v].led = Defaults.led
    BY DEF Defaults
  <2>5. \A u, v : [Head(toCtl).p EXCEPT !.power = u, !.led = v].led = v
    BY <2>1 DEF Words, Field
  <2>6. Plain(Obeyed(Head(toCtl).p))
    BY <2>3, <2>4, <2>5, PlainWords DEF Obeyed, Plain
  <2>7. ctl' = ctl \/ ctl' = Obeyed(Head(toCtl).p)
    BY <1>1, Controlled
  <2> QED BY <2>3, <2>6, <2>7 DEF Plain
<1>2. CASE Press
  <2>1. ctl'.led = RedFlash
    BY <1>2 DEF Press, TInv, TypeOK, BoxType, Field
  <2> QED BY <2>1, PlainWords DEF Plain
<1>3. CASE UNCHANGED ctl
  BY <1>3 DEF SumCurrent, Plain
<1> QED BY <1>1, <1>2, <1>3, AnswerSteps

LEMMA SumCurrentStep ==
    ASSUME NoBlue, TInv, SumCurrent, [Next]_vars
    PROVE  SumCurrent'
<1> DEFINE Good(m) == Plain(m.p) /\ m.sum = scc_cksum(m.p, m.id)
<1>1. \A j \in 1 .. Len(fromCtl) : Good(fromCtl[j])
  BY DEF SumCurrent
<1>2. \A m : Answered(m) => Good(m)
  BY ControlPlain, PlainWords DEF Answered, Plain
<1>3. \A i \in 1 .. Len(fromCtl') : Good(fromCtl'[i])
  BY <1>1, <1>2, AnswersGrow
<1>4. \A i \in 1 .. Len(toCtl') : Plain(toCtl'[i].p)
  BY LinePlain
<1>5. (\A i \in 1 .. Len(fromCtl) :
           Plain(fromCtl[i].p) /\ fromCtl[i].sum = scc_cksum(fromCtl[i].p, fromCtl[i].id))'
  BY <1>3 DEF Plain, scc_cksum
<1>6. (\A i \in 1 .. Len(toCtl) : Plain(toCtl[i].p))'
  BY <1>4 DEF Plain
<1>7. WordSum' /\ Plain(ctl)'
  BY SumStep, ControlPlain
<1> QED BY <1>5, <1>6, <1>7 DEF SumCurrent, WordSum

\* So every packet gets the right one.
LEMMA LineSum ==
    ASSUME TInv, SumCurrent, ChecksumRight, [Next]_vars
    PROVE  ChecksumRight'
<1> DEFINE Right(m) == m.sum = scc_cksum(m.p, m.id)
<1>1. \A j \in 1 .. Len(toCtl) : Right(toCtl[j])
  BY DEF ChecksumRight
<1>2. \A p, n : Right(Signed(p, n))
  BY DEF Signed
<1>3. CASE UNCHANGED toCtl
  BY <1>1, <1>3 DEF ChecksumRight, scc_cksum
<1>4. ASSUME NEW m \in Packets, Sent(m), Right(m)
      PROVE  \A i \in 1 .. Len(toCtl') : Right(toCtl'[i])
  BY <1>1, <1>4, LineGrows
<1>5. CASE Send
  <2>1. Right(Outgoing)
    BY <1>2 DEF Outgoing, SumCurrent
  <2> QED BY <1>4, <1>5, <2>1, SendSent DEF ChecksumRight, scc_cksum
<1>6. CASE \E c \in Client : DirectSend(c)
  <2>1. PICK p, n : Signed(p, n) \in Packets /\ Sent(Signed(p, n))
    BY <1>6, DirectSent
  <2> QED BY <1>2, <1>4, <2>1 DEF ChecksumRight, scc_cksum
<1>7. CASE Control
  BY <1>1, <1>7, LineShrinks DEF ChecksumRight, scc_cksum
<1> QED BY <1>3, <1>5, <1>6, <1>7, LineSteps

(***************************************************************************)
(* While no client asks for a blue LED every packet on the line, whoever   *)
(* sent it, has the checksum of its bytes: the blinking is the only cause  *)
(* of a wrong one.                                                         *)
(***************************************************************************)
THEOREM SumsRight == ASSUME NoBlue PROVE Spec => []ChecksumRight
<1>1. Init => TInv /\ SumCurrent /\ ChecksumRight
  BY InitTInv, InitSumCurrent
<1>2. TInv /\ SumCurrent /\ ChecksumRight /\ [Next]_vars
      => (TInv /\ SumCurrent /\ ChecksumRight)'
  BY TInvStep, SumCurrentStep, LineSum
<1> QED BY <1>1, <1>2, PTL DEF Spec

-----------------------------------------------------------------------------
(***************************************************************************)
(* The reset.  Only a client that talks to the controller itself sends     *)
(* something else with the ID of the reset: the daemon's words have the ID *)
(* of the host, or the one of the controller's first answer.               *)
(***************************************************************************)
ThroughDaemon == Direct = {} /\ "early" \notin Faults

NobodyDirect ==
    \A c \in Client : cpc[c] \in {"idle", "conn", "sent", "killed", "done"}

\* The daemon moves no client to the line, and a client goes where Ask sends it.
LEMMA NobodyDirectStep ==
    ASSUME ThroughDaemon, TInv, NobodyDirect, [Next]_vars
    PROVE  NobodyDirect'
<1> USE DEF NobodyDirect, vars, state, blinking, sockets, life, daemon, clients, line, box
<1>1. Start \/ Term \/ Send \/ Selected \/ TimedOut \/ Read \/ ReadEnter \/ ReadListen
      \/ Idle \/ Accept \/ Recv \/ RecvNothing \/ Activity => UNCHANGED cpc
  BY DEF Start, Term, Send, Selected, TimedOut, Read, ReadEnter, ReadListen, Idle,
         Accept, Recv, RecvNothing, Activity
<1>2. CASE Exit
  BY <1>2 DEF Exit
<1>3. ASSUME NEW c \in Client, Ask(c) \/ Scc(c)
      PROVE  NobodyDirect'
  <2>1. cpc \in [Client -> Place]
    BY DEF TInv, TypeOK, ClientType, Place
  <2>2. Goes(c, "conn") \/ Goes(c, "sent") \/ Goes(c, "killed") \/ Goes(c, "done")
    BY <1>3 DEF ThroughDaemon, Ask, Scc, SendPacket, DirectSend, DirectSelected,
                DirectTimedOut, DirectRead
  <2> QED BY <2>1, <2>2 DEF Goes
<1>4. Control \/ Press \/ PowerCut \/ UNCHANGED vars => UNCHANGED cpc
  BY DEF Control, Press, PowerCut
<1> QED BY <1>1, <1>2, <1>3, <1>4 DEF Next, Step

KnownId ==
    /\ id \in {HOST, 0, Ctlr}
    /\ \A i \in 1 .. Len(fromCtl) : fromCtl[i].id \in {0, Ctlr}

\* The ID comes from the daemon or from an answer.
LEMMA KnownIdStep ==
    ASSUME TInv, KnownId, [Next]_vars
    PROVE  KnownId'
<1> DEFINE Known(m) == m.id \in {0, Ctlr}
<1>1. \A i \in 1 .. Len(fromCtl') : Known(fromCtl'[i])
  BY AnswersGrow DEF KnownId, Answered
<1>2. ReadEnter => id' \in {HOST, 0, Ctlr}
  BY EnterTakes DEF KnownId
<1>3. Recv => id' = HOST \/ id' = id
  BY RecvWords DEF Received
<1>4. UNCHANGED state \/ ReadListen \/ Activity => id' = HOST \/ id' = id
  BY DEF state, ReadListen, Activity
<1>5. id' \in {HOST, 0, Ctlr}
  BY <1>2, <1>3, <1>4, WordSteps DEF KnownId
<1> QED BY <1>1, <1>5 DEF KnownId

LEMMA LineReset ==
    ASSUME TInv, KnownId, NobodyDirect, ResetIsReset, [Next]_vars
    PROVE  ResetIsReset'
<1> DEFINE Right(m) == m.id = 97 => m.p = ResetPacket
<1>1. \A j \in 1 .. Len(toCtl) : Right(toCtl[j])
  BY DEF ResetIsReset
<1>2. CASE UNCHANGED toCtl
  BY <1>2 DEF ResetIsReset
<1>3. CASE Send
  <2>1. id # 97
    BY SccdAssumption DEF KnownId, HOST
  <2>2. Right(Outgoing)
    BY <2>1 DEF Outgoing, Signed
  <2> QED BY <1>1, <1>3, <2>2, SendSent, LineGrows DEF ResetIsReset
<1>4. CASE \E c \in Client : DirectSend(c)
  BY <1>4 DEF NobodyDirect, DirectSend
<1>5. CASE Control
  BY <1>1, <1>5, LineShrinks DEF ResetIsReset
<1> QED BY <1>2, <1>3, <1>4, <1>5, LineSteps

(***************************************************************************)
(* While all clients talk to the daemon, what is sent as a reset is one.   *)
(***************************************************************************)
THEOREM ResetsRight == ASSUME ThroughDaemon PROVE Spec => []ResetIsReset
<1>1. Init => TInv /\ KnownId /\ NobodyDirect /\ ResetIsReset
  BY InitTInv DEF Init, KnownId, NobodyDirect, ResetIsReset
<1>2. TInv /\ KnownId /\ NobodyDirect /\ ResetIsReset /\ [Next]_vars
      => (TInv /\ KnownId /\ NobodyDirect /\ ResetIsReset)'
  BY TInvStep, KnownIdStep, NobodyDirectStep, LineReset
<1> QED BY <1>1, <1>2, PTL DEF Spec

-----------------------------------------------------------------------------
(***************************************************************************)
(* Why the machine goes down.  S is the bytes that end in a halt, or those *)
(* that end in a reboot.  Unless there is a cause for one of them, none is *)
(* in the daemon's words, on the line or in the controller, and none was   *)
(* acted upon.                                                             *)
(***************************************************************************)
Ways == {Halts, Reboots}
Caused(S) == AskedFor(S) \/ (pressed /\ Stop \in S)
Way(S) == IF Stop \in S THEN "halt" ELSE "reboot"

Quiet(S) ==
    /\ w.power \notin S /\ ctl.power \notin S
    /\ \A i \in 1 .. Len(toCtl) : toCtl[i].p.power \notin S
    /\ \A i \in 1 .. Len(fromCtl) : fromCtl[i].p.power \notin S
    /\ \A i \in 1 .. Len(execs) : execs[i] # Way(S)

Programs == \A i \in 1 .. Len(execs) : execs[i] \in {"halt", "reboot"}

CInv == Programs /\ \A S \in Ways : Caused(S) \/ Quiet(S)

\* The two ways keep apart, and what the controller makes of an Advise is of its way.
LEMMA WaysApart ==
    ASSUME NEW S \in Ways
    PROVE  /\ Defaults.power \notin S /\ ResetPacket.power \notin S
           /\ \A p \in {AdvStop, AdvRestart, AdvReset} : p - 1 \in S => p \in S
           /\ \A a : Way(S) \in Program(a) => a \in S
           /\ \A a : Program(a) \subseteq {"halt", "reboot"}
BY DEF Ways, Halts, Reboots, Way, Program, Defaults, ResetPacket, Run, Stop,
       AdvStop, Restart, AdvRestart, Reset, AdvReset

LEMMA InitCInv == Init => CInv
<1> SUFFICES ASSUME Init PROVE CInv
  OBVIOUS
<1>1. Programs
  BY DEF Init, Programs
<1>2. \A S \in Ways : Quiet(S)
  BY WaysApart DEF Init, Quiet
<1> QED BY <1>1, <1>2 DEF CInv

\* A cause stays: the switch is not released, and a command is for good.
LEMMA CauseStays ==
    ASSUME TInv, PInv, [Next]_vars, NEW S, Caused(S)
    PROVE  Caused(S)'
<1>1. pressed => pressed'
  BY DEF Next, Start, Term, Step, Send, Selected, TimedOut, Read, ReadEnter,
         ReadListen, Exit, Idle, Accept, Recv, RecvNothing, Activity, Ask, Scc,
         SendPacket, DirectSend, DirectSelected, DirectTimedOut, DirectRead, Control,
         Press, PowerCut, vars, box
<1>2. AskedFor(S) => AskedFor(S)'
  <2>1. CASE UNCHANGED cmd
    BY <2>1 DEF AskedFor
  <2>2. ASSUME NEW d \in Client, Ask(d)
        PROVE  AskedFor(S) => AskedFor(S)'
    <3>1. \A c \in Client : c # d => cmd'[c] = cmd[c]
      BY <2>2 DEF Ask, TInv, TypeOK, ClientType
    <3>2. cmd[d] = <<>> /\ DOMAIN <<>> = {}
      BY <2>2 DEF Ask, PInv
    <3>3. "power" \notin DOMAIN cmd[d]
      BY <3>2
    <3> QED BY <3>1, <3>3 DEF AskedFor
  <2> QED BY <2>1, <2>2, CommandSteps
<1> QED BY <1>1, <1>2 DEF Caused

\* The daemon's words get such a byte from a client or from an answer.
LEMMA QuietWords ==
    ASSUME JunkRate, TInv, [Next]_vars, NEW S \in Ways, ~AskedFor(S), Quiet(S)
    PROVE  w'.power \notin S
<1>1. CASE UNCHANGED state
  BY <1>1 DEF Quiet, state
<1>2. CASE ReadListen
  <2>1. w'.power = Defaults.power
    BY <1>2 DEF ReadListen, Defaults
  <2> QED BY <2>1, WaysApart
<1>3. CASE Recv
  <2>1. PICK c \in conn : Received(c)
    BY <1>3, RecvWords
  <2>2. c \in Client
    BY DEF TInv, TypeOK, DaemonType
  <2>3. "power" \in DOMAIN cmd[c] => cmd[c].power \notin S
    BY <2>2 DEF AskedFor
  <2>4. Merged(cmd[c]).power = w.power
        \/ ("power" \in DOMAIN cmd[c] /\ Merged(cmd[c]).power = cmd[c].power)
    BY DEF Merged, Packet, Over, Field
  <2> QED BY <2>1, <2>3, <2>4 DEF Received, Quiet
<1>4. CASE Activity
  <2>1. PICK active \in BOOLEAN : Blink(active)
    BY <1>4 DEF Activity, disk_activity
  <2>2. w'.power = w.power
    BY <2>1, BlinkPower DEF TInv, TypeOK, WordType, Words, Field
  <2> QED BY <2>2 DEF Quiet
<1>5. CASE ReadEnter
  BY <1>5, EnterTakes DEF Quiet
<1> QED BY <1>1, <1>2, <1>3, <1>4, <1>5, WordSteps

\* So does the line.
LEMMA QuietLine ==
    ASSUME TInv, [Next]_vars, NEW S \in Ways, ~AskedFor(S), Quiet(S)
    PROVE  \A i \in 1 .. Len(toCtl') : toCtl'[i].p.power \notin S
<1> DEFINE Calm(m) == m.p.power \notin S
<1>1. \A j \in 1 .. Len(toCtl) : Calm(toCtl[j])
  BY DEF Quiet
<1>2. CASE UNCHANGED toCtl
  BY <1>1, <1>2
<1>3. CASE Send
  <2>1. Calm(Outgoing)
    BY WaysApart DEF Outgoing, Signed, Quiet
  <2> QED BY <1>1, <1>3, <2>1, SendSent, LineGrows
<1>4. ASSUME NEW c \in Client, DirectSend(c)
      PROVE  \A i \in 1 .. Len(toCtl') : Calm(toCtl'[i])
  <2>1. PICK p \in {[ResetPacket EXCEPT !.rate = HOST], Over(Defaults, cmd[c])},
             n \in {97, HOST} :
                 Signed(p, n) \in Packets /\ Sent(Signed(p, n))
    BY <1>4, DirectSent
  <2>2. [ResetPacket EXCEPT !.rate = HOST].power = ResetPacket.power
    BY DEF ResetPacket
  <2>3. Over(Defaults, cmd[c]).power \notin S
    BY WaysApart DEF Over, AskedFor, Field
  <2>4. Calm(Signed(p, n))
    BY <2>1, <2>2, <2>3, WaysApart DEF Signed
  <2> QED BY <1>1, <2>1, <2>4, LineGrows
<1>5. CASE Control
  BY <1>1, <1>5, LineShrinks
<1> QED BY <1>2, <1>3, <1>4, <1>5, LineSteps

\* The controller reports what it was sent, or the switch.
LEMMA QuietControl ==
    ASSUME TInv, Control, NEW S \in Ways, Quiet(S), ~Caused(S)
    PROVE  ctl'.power \notin S
<1>1. toCtl \in Seq(Packets) /\ toCtl # <<>> /\ Head(toCtl).p \in Words
  BY Controlled
<1>2. 1 \in 1 .. Len(toCtl) /\ toCtl[1] = Head(toCtl)
  BY <1>1
<1> DEFINE p == Head(toCtl).p
<1>3. p.power \notin S /\ ctl.power \notin S
  BY <1>2 DEF Quiet
<1>4. Obeyed(p).power \notin S
  <2>1. pressed => Stop \notin S
    BY DEF Caused
  <2>2. p.power \in {AdvStop, AdvRestart, AdvReset} => p.power - 1 \notin S
    BY <1>3, WaysApart
  <2>3. [Defaults EXCEPT !.power = IF pressed THEN Stop ELSE Run].power \notin S
    BY <2>1, WaysApart DEF Defaults
  <2> QED
    BY <1>1, <1>3, <2>1, <2>2, <2>3 DEF Obeyed, Words, Field
<1> QED BY <1>3, <1>4, Controlled

LEMMA QuietAnswers ==
    ASSUME TInv, [Next]_vars, NEW S \in Ways, Quiet(S), ~Caused(S), ~Caused(S)'
    PROVE  ctl'.power \notin S /\ \A i \in 1 .. Len(fromCtl') : fromCtl'[i].p.power \notin S
<1>1. ctl'.power \notin S
  <2>1. UNCHANGED ctl => ctl'.power \notin S
    BY DEF Quiet
  <2>2. Press => pressed' /\ ctl'.power = Stop
    BY DEF Press, TInv, TypeOK, BoxType, Field
  <2>3. Press => ctl'.power \notin S
    BY <2>2 DEF Caused
  <2> QED BY <2>1, <2>3, QuietControl, AnswerSteps
<1>2. \A m : Answered(m) => m.p.power \notin S
  BY <1>1 DEF Answered
<1>3. \A j \in 1 .. Len(fromCtl) : fromCtl[j].p.power \notin S
  BY DEF Quiet
<1> QED BY <1>1, <1>2, <1>3, AnswersGrow

\* Programs are started on an answer.
LEMMA ExecSteps ==
    ASSUME TInv, [Next]_vars
    PROVE  \/ execs' \in {execs, <<>>}
           \/ /\ fromCtl # <<>>
              /\ \E x \in Program(Head(fromCtl).p.power) : execs' = Append(execs, x)
<1> USE DEF vars, state, blinking, sockets, life, daemon, clients, line, box
<1>1. CASE Read
  BY <1>1 DEF Read, Examine
<1>2. CASE Start
  BY <1>2 DEF Start
<1>3. Term \/ Send \/ Selected \/ TimedOut \/ ReadEnter \/ ReadListen \/ Exit \/ Idle
      \/ Accept \/ Recv \/ RecvNothing \/ Activity => UNCHANGED execs
  BY DEF Term, Send, Selected, TimedOut, ReadEnter, ReadListen, Exit, Idle, Accept,
         Recv, RecvNothing, Activity
<1>4. (\E c \in Client : Ask(c) \/ Scc(c)) => UNCHANGED execs
  BY DEF Ask, Scc, SendPacket, DirectSend, DirectSelected, DirectTimedOut, DirectRead
<1>5. Control \/ Press \/ PowerCut \/ UNCHANGED vars => UNCHANGED execs
  BY DEF Control, Press, PowerCut
<1> QED BY <1>1, <1>2, <1>3, <1>4, <1>5 DEF Next, Step

\* What holds of every program so far holds of one more.
LEMMA OneMore ==
    ASSUME TInv, NEW x, execs' = Append(execs, x)
    PROVE  \A i \in 1 .. Len(execs') :
               execs'[i] = x \/ \E j \in 1 .. Len(execs) : execs'[i] = execs[j]
<1>1. execs \in Seq({"halt", "reboot"})
  BY DEF TInv, TypeOK, DaemonType
<1>2. Len(execs) \in Nat /\ Len(execs') = Len(execs) + 1
  BY <1>1
<1>3. execs'[Len(execs) + 1] = x /\ \A i \in 1 .. Len(execs) : execs'[i] = execs[i]
  BY <1>1
<1> QED BY <1>2, <1>3

LEMMA QuietExecs ==
    ASSUME TInv, CInv, [Next]_vars
    PROVE  /\ Programs'
           /\ \A S \in Ways : Quiet(S) => \A i \in 1 .. Len(execs') : execs'[i] # Way(S)
<1>1. CASE execs' \in {execs, <<>>}
  BY <1>1 DEF CInv, Programs, Quiet
<1>2. ASSUME NEW x \in Program(Head(fromCtl).p.power), fromCtl # <<>>, execs' = Append(execs, x)
      PROVE  /\ Programs'
             /\ \A S \in Ways : Quiet(S) => \A i \in 1 .. Len(execs') : execs'[i] # Way(S)
  <2>1. 1 \in 1 .. Len(fromCtl) /\ Head(fromCtl) = fromCtl[1]
    BY <1>2 DEF TInv, TypeOK, LineType
  <2>2. \A S \in Ways : Quiet(S) => x # Way(S)
    BY <2>1, WaysApart DEF Quiet
  <2>3. x \in {"halt", "reboot"}
    BY WaysApart DEF Ways
  <2> QED BY <1>2, <2>2, <2>3, OneMore DEF CInv, Programs, Quiet
<1> QED BY <1>1, <1>2, ExecSteps

LEMMA CInvStep ==
    ASSUME JunkRate, TInv, PInv, CInv, [Next]_vars
    PROVE  CInv'
<1>1. ASSUME NEW S \in Ways, ~Caused(S)'
      PROVE  Quiet(S)'
  <2>1. ~Caused(S) /\ Quiet(S)
    BY <1>1, CauseStays DEF CInv
  <2>2. ~AskedFor(S)
    BY <2>1 DEF Caused
  <2> QED
    BY <1>1, <2>1, <2>2, QuietWords, QuietLine, QuietAnswers, QuietExecs
       DEF Quiet, Way
<1> QED BY <1>1, QuietExecs DEF CInv

(***************************************************************************)
(* The daemon halts the machine only for the switch or a user's stop, and  *)
(* reboots it only for a user's restart, through late, lost and foreign    *)
(* answers, if a rate that was never saved leaves the power byte alone.    *)
(***************************************************************************)
THEOREM ShutdownForCause == ASSUME JunkRate PROVE Spec => []ShutdownCaused
<1>1. Init => TInv /\ PInv /\ CInv
  BY InitTInv, InitPInv, InitCInv
<1>2. TInv /\ PInv /\ CInv /\ [Next]_vars => (TInv /\ PInv /\ CInv)'
  <2> SUFFICES ASSUME TInv, PInv, CInv, [Next]_vars PROVE PInv' /\ CInv'
    BY TInvStep
  <2> QED BY CommandedStays, WordPower, LinePower, MachinePower, CInvStep DEF PInv
<1>3. CInv => ShutdownCaused
  <2> SUFFICES ASSUME CInv, NEW i \in 1 .. Len(execs)
               PROVE  \/ execs[i] = "halt" /\ (pressed \/ AskedFor(Halts))
                      \/ execs[i] = "reboot" /\ AskedFor(Reboots)
    BY DEF ShutdownCaused
  <2>1. Way(Halts) = "halt" /\ Way(Reboots) = "reboot" /\ Stop \notin Reboots
    BY DEF Way, Halts, Reboots, Stop, AdvStop, Restart, AdvRestart, Reset, AdvReset
  <2>2. \A S \in Ways : execs[i] = Way(S) => Caused(S)
    BY DEF CInv, Quiet
  <2>3. CASE execs[i] = "halt"
    BY <2>1, <2>2, <2>3 DEF Caused, Ways
  <2>4. CASE execs[i] = "reboot"
    BY <2>1, <2>2, <2>4 DEF Caused, Ways
  <2> QED BY <2>3, <2>4 DEF CInv, Programs
<1> QED BY <1>1, <1>2, <1>3, PTL DEF Spec

-----------------------------------------------------------------------------
(***************************************************************************)
(* Nothing holds the daemon up.  It waits in three places: for an answer   *)
(* that select has seen, for the packet of a client that connected, and    *)
(* for a descriptor.  Of those who are expected nobody goes away.          *)
(***************************************************************************)
NobodyKilled == ThroughDaemon /\ "kill" \notin Faults
Expected == {"conn", "sent"}

NeverStuck ==
    /\ pc = "read" => fromCtl # <<>>
    /\ \A c \in conn : cpc[c] \in Expected
    /\ leaked = 0

WInv == NeverStuck /\ \A i \in 1 .. Len(backlog) : cpc[backlog[i]] \in Expected

LEMMA InitWInv == Init => WInv
BY DEF Init, WInv, NeverStuck

\* Who connected stays to send his packet, until the daemon ends.
LEMMA ClientsStay ==
    ASSUME NobodyKilled, TInv, NobodyDirect, [Next]_vars, ~Exit,
           NEW c \in Client, cpc[c] \in Expected
    PROVE  cpc'[c] \in Expected
<1> USE DEF Expected, vars, state, blinking, sockets, life, daemon, clients, line, box
<1>1. Start \/ Term \/ Send \/ Selected \/ TimedOut \/ Read \/ ReadEnter \/ ReadListen
      \/ Idle \/ Accept \/ Recv \/ RecvNothing \/ Activity => UNCHANGED cpc
  BY DEF Start, Term, Send, Selected, TimedOut, Read, ReadEnter, ReadListen, Idle,
         Accept, Recv, RecvNothing, Activity
<1>2. ASSUME NEW d \in Client, Ask(d) \/ Scc(d)
      PROVE  cpc'[c] \in Expected
  <2>1. cpc \in [Client -> Place]
    BY DEF TInv, TypeOK, ClientType, Place
  <2>2. (cpc[d] = "idle" /\ \E l \in Place : Goes(d, l)) \/ Goes(d, "sent")
    BY <1>2 DEF NobodyKilled, ThroughDaemon, NobodyDirect, Ask, Scc, SendPacket, Fault,
                DirectSend, DirectSelected, DirectTimedOut, DirectRead, Place
  <2> QED BY <2>1, <2>2 DEF Goes
<1>3. Control \/ Press \/ PowerCut \/ UNCHANGED vars => UNCHANGED cpc
  BY DEF Control, Press, PowerCut
<1> QED BY <1>1, <1>2, <1>3 DEF Next, Step

\* What select has seen nobody else takes.
LEMMA AnswerStays ==
    ASSUME ThroughDaemon, TInv, NobodyDirect, WInv, [Next]_vars
    PROVE  pc' = "read" => fromCtl' # <<>>
<1> USE DEF WInv, NeverStuck, vars, state, blinking, sockets, life, daemon, clients, line,
            box
<1>1. Start \/ Send \/ TimedOut \/ Read \/ ReadEnter \/ ReadListen \/ Exit \/ Idle
      \/ Accept \/ Recv \/ RecvNothing \/ Activity => pc' # "read"
  BY DEF Start, Send, TimedOut, Read, ReadEnter, ReadListen, Exit, Idle, Accept, Recv,
         RecvNothing, Activity
<1>2. Selected \/ Term => (pc' = "read" => fromCtl' # <<>>)
  BY DEF Selected, Term
<1>3. (\E c \in Client : Ask(c) \/ Scc(c)) => UNCHANGED <<pc, fromCtl>>
  BY DEF ThroughDaemon, NobodyDirect, Ask, Scc, SendPacket, DirectSend, DirectSelected,
         DirectTimedOut, DirectRead
<1>4. CASE Control
  <2>1. UNCHANGED pc
    BY <1>4 DEF Control
  <2>2. \A x : Append(fromCtl, x) # <<>>
    BY DEF TInv, TypeOK, LineType
  <2> QED BY <1>4, <2>1, <2>2 DEF Control
<1>5. Press \/ PowerCut \/ UNCHANGED vars => UNCHANGED <<pc, fromCtl>>
  BY DEF Press, PowerCut
<1> QED BY <1>1, <1>2, <1>3, <1>4, <1>5 DEF Next, Step

\* The daemon takes clients off the line of those who wait, one by one.
LEMMA WaitersStay ==
    ASSUME NobodyKilled, TInv, NobodyDirect, WInv, [Next]_vars, ~Exit
    PROVE  /\ \A i \in 1 .. Len(backlog') : cpc'[backlog'[i]] \in Expected
           /\ \A c \in conn' : cpc'[c] \in Expected
<1> USE DEF vars, state, blinking, sockets, life, daemon, clients, line, box
<1>1. backlog \in Seq(Client) /\ conn \subseteq Client
  BY DEF TInv, TypeOK, ClientType, DaemonType
<1>2. /\ \A i \in 1 .. Len(backlog) : backlog[i] \in Client /\ cpc'[backlog[i]] \in Expected
      /\ \A c \in conn : cpc'[c] \in Expected
  BY <1>1, ClientsStay DEF WInv, NeverStuck
<1>3. CASE UNCHANGED backlog /\ conn' \in {conn, {}}
  BY <1>2, <1>3
<1>4. CASE Accept
  <2>1. backlog # <<>> /\ conn' = {Head(backlog)} /\ backlog' = Tail(backlog)
    BY <1>4 DEF Accept
  <2>2. 1 \in 1 .. Len(backlog) /\ Head(backlog) = backlog[1]
    BY <1>1, <2>1
  <2>3. \A i \in 1 .. Len(backlog') :
            i + 1 \in 1 .. Len(backlog) /\ backlog'[i] = backlog[i + 1]
    BY <1>1, <2>1
  <2> QED BY <1>2, <2>1, <2>2, <2>3
<1>5. ASSUME NEW c \in Client, Ask(c), backlog' = Append(backlog, c)
      PROVE  /\ \A i \in 1 .. Len(backlog') : cpc'[backlog'[i]] \in Expected
             /\ \A d \in conn' : cpc'[d] \in Expected
  <2>1. cpc'[c] = "conn" /\ conn' = conn
    <3>1. backlog' # backlog
      BY <1>1, <1>5
    <3> QED BY <1>5, <3>1 DEF Ask, Goes, TInv, TypeOK, ClientType
  <2>2. Len(backlog) \in Nat /\ Len(backlog') = Len(backlog) + 1
    BY <1>1, <1>5
  <2>3. backlog'[Len(backlog) + 1] = c /\ \A i \in 1 .. Len(backlog) : backlog'[i] = backlog[i]
    BY <1>1, <1>5
  <2> QED BY <1>2, <2>1, <2>2, <2>3 DEF Expected
<1>6. \/ UNCHANGED backlog /\ conn' \in {conn, {}}
      \/ Accept \/ \E c \in Client : Ask(c) /\ backlog' = Append(backlog, c)
  <2>1. Start \/ Term \/ Send \/ Selected \/ TimedOut \/ Read \/ ReadEnter \/ ReadListen
        \/ Idle \/ Recv \/ RecvNothing \/ Activity
        => UNCHANGED backlog /\ conn' \in {conn, {}}
    BY DEF Start, Term, Send, Selected, TimedOut, Read, ReadEnter, ReadListen, Idle,
           Recv, RecvNothing, Activity
  <2>2. \A c \in Client : Ask(c) => UNCHANGED conn
                                    /\ backlog' \in {backlog, Append(backlog, c)}
    BY DEF Ask
  <2>3. (\E c \in Client : Scc(c)) \/ Control \/ Press \/ PowerCut \/ UNCHANGED vars
        => UNCHANGED <<backlog, conn>>
    BY DEF Scc, SendPacket, DirectSend, DirectSelected, DirectTimedOut, DirectRead,
           Control, Press, PowerCut
  <2> QED BY <2>1, <2>2, <2>3 DEF Next, Step
<1> QED BY <1>3, <1>4, <1>5, <1>6

LEMMA WInvStep ==
    ASSUME NobodyKilled, TInv, NobodyDirect, WInv, [Next]_vars
    PROVE  WInv'
<1> USE DEF vars, state, blinking, sockets, life, daemon, clients, line, box
<1>1. leaked' = 0
  <2>1. ~RecvNothing
    BY DEF RecvNothing, WInv, NeverStuck, Expected
  <2>2. Start \/ Term \/ Send \/ Selected \/ TimedOut \/ Read \/ ReadEnter \/ ReadListen
        \/ Exit \/ Idle \/ Accept \/ Recv \/ Activity => leaked' \in {leaked, 0}
    BY DEF Start, Term, Send, Selected, TimedOut, Read, ReadEnter, ReadListen, Exit,
           Idle, Accept, Recv, Activity
  <2>3. (\E c \in Client : Ask(c) \/ Scc(c)) \/ Control \/ Press \/ PowerCut
        \/ UNCHANGED vars => UNCHANGED leaked
    BY DEF Ask, Scc, SendPacket, DirectSend, DirectSelected, DirectTimedOut, DirectRead,
           Control, Press, PowerCut
  <2> QED BY <2>1, <2>2, <2>3 DEF Next, Step, WInv, NeverStuck
<1>2. pc' = "read" => fromCtl' # <<>>
  BY AnswerStays DEF NobodyKilled
<1>3. CASE Exit
  <2>1. conn = {} /\ conn' = conn /\ backlog' = <<>>
    BY <1>3 DEF Exit, TInv, TypeOK, DaemonType
  <2> QED BY <1>1, <1>2, <2>1 DEF WInv, NeverStuck
<1>4. CASE ~Exit
  BY <1>1, <1>2, <1>4, WaitersStay DEF WInv, NeverStuck, Expected
<1> QED BY <1>3, <1>4

(***************************************************************************)
(* A daemon whom all clients ask, and none dies on, is never kept waiting: *)
(* its reads find an answer, its client will send, no descriptor is lost.  *)
(* It is the part of SoftPowerSeen and of Enacted that needs no fairness:  *)
(* a client on the serial line, or one that is killed, is what it takes to *)
(* hold the daemon up.                                                     *)
(***************************************************************************)
THEOREM NothingHoldsIt == ASSUME NobodyKilled PROVE Spec => []NeverStuck
<1>1. Init => TInv /\ NobodyDirect /\ WInv
  BY InitTInv, InitWInv DEF Init, NobodyDirect
<1>2. TInv /\ NobodyDirect /\ WInv /\ [Next]_vars => (TInv /\ NobodyDirect /\ WInv)'
  BY TInvStep, NobodyDirectStep, WInvStep DEF NobodyKilled
<1>3. WInv => NeverStuck
  BY DEF WInv
<1> QED BY <1>1, <1>2, <1>3, PTL DEF Spec
=============================================================================
