------------------------ MODULE SerialDevicesProofs ------------------------
(***************************************************************************)
(* The serial drivers with any settings, any number of packets and any     *)
(* number of faults: no packet goes on air while the radio lacks one of    *)
(* the parameters that are read back, and with flow control an RNode is    *)
(* handed one packet at a time.                                            *)
(***************************************************************************)
EXTENDS SerialDevices, FiniteSetTheorems, SequenceTheorems, TLAPS

Commands == {"params", "detect", "off", "on", "data", "leave"} \cup Settings \cup Limits

Reports ==
  {"detected", "firmware", "platform", "ready", "reset", "error", "params", "detect", "off",
   "on", "leave"} \cup Settings \cup Limits

-----------------------------------------------------------------------------
(* Lines are sequences: what is on them, and what is on them once.         *)

\* At most one element of s is in C.
Once(C, s) == \A i, j \in 1..Len(s) : s[i] \in C /\ s[j] \in C => i = j

\* What a command adds to the line.
LEMMA ConcatLine ==
  ASSUME NEW T, NEW s \in Seq(T), NEW t \in Seq(T)
  PROVE  s \o t \in Seq(T) /\ Range(s \o t) = Range(s) \cup Range(t)
BY ConcatProperties, RangeConcatenation

\* The same of the two lines there are.
LEMMA ConcatCommands ==
  ASSUME NEW s \in Seq(Commands), NEW t \in Seq(Commands)
  PROVE  s \o t \in Seq(Commands) /\ Range(s \o t) = Range(s) \cup Range(t)
BY ConcatLine

\* Likewise.
LEMMA ConcatReports ==
  ASSUME NEW s \in Seq(Reports), NEW t \in Seq(Reports)
  PROVE  s \o t \in Seq(Reports) /\ Range(s \o t) = Range(s) \cup Range(t)
BY ConcatLine

\* An element that is on one of two lines once is on both once.
LEMMA OnceConcat ==
  ASSUME NEW T, NEW s \in Seq(T), NEW t \in Seq(T), NEW C,
         \/ Once(C, s) /\ Range(t) \cap C = {}
         \/ Range(s) \cap C = {} /\ Once(C, t)
  PROVE  Once(C, s \o t)
<1>2. /\ \A i \in 1..Len(s) : s[i] \in Range(s)
      /\ \A i \in 1..Len(t) : t[i] \in Range(t)
  BY RangeOfSeq DEF Range
<1>3. /\ Len(s \o t) = Len(s) + Len(t) /\ Len(s) \in Nat /\ Len(t) \in Nat
      /\ \A i \in 1..Len(s \o t) : \/ i \in 1..Len(s) /\ (s \o t)[i] = s[i]
                                   \/ i - Len(s) \in 1..Len(t) /\ (s \o t)[i] = t[i - Len(s)]
  BY ConcatProperties, LenProperties
<1>4. CASE Once(C, s) /\ Range(t) \cap C = {}
  BY <1>2, <1>3, <1>4 DEF Once
<1>5. CASE Range(s) \cap C = {} /\ Once(C, t)
  BY <1>2, <1>3, <1>5 DEF Once
<1> QED
  BY <1>4, <1>5

\* What is taken from the line.
LEMMA TakeLine ==
  ASSUME NEW T, NEW s \in Seq(T), s # <<>>
  PROVE  /\ Tail(s) \in Seq(T) /\ Head(s) \in T
         /\ Range(s) = Range(Tail(s)) \cup {Head(s)}
<1>1. /\ Head(s) \in T /\ Tail(s) \in Seq(T) /\ Len(Tail(s)) = Len(s) - 1
      /\ \A i \in 1..Len(Tail(s)) : Tail(s)[i] = s[i + 1]
      /\ Len(s) \in Nat /\ Len(s) > 0 /\ Head(s) = s[1]
  BY HeadTailProperties, LenProperties, EmptySeq
<1>2. /\ Range(s) = {s[i] : i \in 1..Len(s)}
      /\ Range(Tail(s)) = {Tail(s)[i] : i \in 1..Len(Tail(s))}
  BY <1>1, RangeOfSeq, LenProperties DEF Range
<1>3. Range(s) = Range(Tail(s)) \cup {Head(s)}
  <2>1. ASSUME NEW x \in Range(s) PROVE x \in Range(Tail(s)) \cup {Head(s)}
    <3>1. PICK i \in 1..Len(s) : x = s[i]
      BY <1>2, <2>1
    <3>2. CASE i = 1
      BY <1>1, <3>1, <3>2
    <3>3. CASE i # 1
      <4>1. i - 1 \in 1..Len(Tail(s)) /\ Tail(s)[i - 1] = x
        BY <1>1, <3>1, <3>3
      <4> QED
        BY <1>2, <4>1
    <3> QED
      BY <3>2, <3>3
  <2>2. ASSUME NEW x \in Range(Tail(s)) PROVE x \in Range(s)
    <3>1. PICK i \in 1..Len(Tail(s)) : x = Tail(s)[i]
      BY <1>2, <2>2
    <3>2. i + 1 \in 1..Len(s) /\ x = s[i + 1]
      BY <1>1, <3>1
    <3> QED
      BY <1>2, <3>2
  <2>3. Head(s) \in Range(s)
    BY <1>1, <1>2
  <2> QED
    BY <2>1, <2>2, <2>3
<1> QED
  BY <1>1, <1>3

\* What is on a line once is not there after it was taken.
LEMMA OnceTail ==
  ASSUME NEW T, NEW s \in Seq(T), s # <<>>, NEW C, Once(C, s)
  PROVE  /\ Once(C, Tail(s))
         /\ Head(s) \in C => Range(Tail(s)) \cap C = {}
<1>1. /\ Head(s) \in T /\ Tail(s) \in Seq(T) /\ Len(Tail(s)) = Len(s) - 1
      /\ \A i \in 1..Len(Tail(s)) : Tail(s)[i] = s[i + 1]
      /\ Len(s) \in Nat /\ Len(s) > 0 /\ Head(s) = s[1]
  BY HeadTailProperties, LenProperties, EmptySeq
<1>2. Range(Tail(s)) = {Tail(s)[i] : i \in 1..Len(Tail(s))}
  BY <1>1, RangeOfSeq, LenProperties DEF Range
<1>4. Once(C, Tail(s))
  BY <1>1 DEF Once
<1>5. ASSUME Head(s) \in C PROVE Range(Tail(s)) \cap C = {}
  <2> SUFFICES ASSUME NEW i \in 1..Len(Tail(s)), Tail(s)[i] \in C PROVE FALSE
    BY <1>2
  <2>1. i + 1 \in 1..Len(s) /\ s[i + 1] \in C /\ 1 \in 1..Len(s) /\ s[1] \in C
    BY <1>1, <1>5
  <2> QED
    BY <1>1, <2>1 DEF Once
<1> QED
  BY <1>4, <1>5

\* Short lines.
LEMMA ShortLine ==
  ASSUME NEW T
  PROVE  /\ <<>> \in Seq(T) /\ Range(<<>>) = {}
         /\ \A a \in T : <<a>> \in Seq(T) /\ Range(<<a>>) = {a}
<1>1. <<>> \in Seq(T) /\ Range(<<>>) = {}
  BY DEF Range
<1>2. ASSUME NEW a \in T PROVE <<a>> \in Seq(T) /\ Range(<<a>>) = {a}
  BY DEF Range
<1> QED
  BY <1>1, <1>2

\* A line without an element of C has at most one.
LEMMA OnceNone ==
  ASSUME NEW T, NEW s \in Seq(T), NEW C, Range(s) \cap C = {}
  PROVE  Once(C, s)
<1>1. \A i \in 1..Len(s) : s[i] \in Range(s)
  BY LenProperties DEF Range
<1> QED
  BY <1>1 DEF Once

\* A finite set, as the settings, in some order.
LEMMA SettingsInOrder ==
  ASSUME NEW S, IsFiniteSet(S)
  PROVE  SetToSeq(S) \in Seq(S)
<1> DEFINE n == Cardinality(S)
<1>1. n \in Nat /\ ExistsBijection(1..n, S)
  BY FS_CardinalityType
<1>2. \E f \in [1..n -> S] : IsInjective(f)
  BY <1>1 DEF ExistsBijection, Bijection, Injection
<1>3. SetToSeq(S) \in [1..n -> S]
  BY <1>2 DEF SetToSeq
<1> QED
  BY <1>1, <1>3, IsASeq

-----------------------------------------------------------------------------
(* No packet on a radio that is not set up.                                *)
(*                                                                         *)
(* The device keeps its settings from one session to the next and loses    *)
(* them, with its carrier, when it resets.  RadioInv says that whatever    *)
(* the driver has seen reported, or is about to, is set on a radio that is *)
(* on or is about to be switched on; a session begins with nothing         *)
(* reported and nothing on the line, and the transmit task starts when all *)
(* settings are reported.  The airtime limits are on the line between the  *)
(* settings and "on" and have no part in it.                               *)

States ==
  [detected : BOOLEAN, firmware : BOOLEAN, esp32 : BOOLEAN,
   reported : SUBSET (Settings \cup Limits \cup {"on"}), ready : BOOLEAN]

\* The session before init_radio, and the transmit task of an RNode at work.
Early == at \in {"startup", "detect", "init"}
Sending == tx \in {"check", "tested", "wait", "sending"}

\* The radio is on, or is about to be.
Lit == dev.on \/ "on" \in Range(out)

SerialType ==
  /\ setup \in [kind : {"serial", "kiss", "rnode"}, flow : BOOLEAN, esp32 : BOOLEAN,
                valid : BOOLEAN]
  /\ out \in Seq(Commands) /\ in \in Seq(Reports)
  /\ st \in States
  /\ dev \in [on : BOOLEAN, cfg : SUBSET (Settings \cup Limits), strayed : BOOLEAN]

RadioInv ==
  /\ SerialType
  /\ ~RNode => at \notin {"detect", "init", "validate"} /\ ~Lit
  /\ Early => /\ tx = "off" /\ st.reported = {}
              /\ Range(out) \subseteq {"detect"}
              /\ Range(in) \cap (Settings \cup Limits \cup {"on"}) = {}
  /\ Lit => (st.reported \cup Range(in)) \cap Settings \subseteq dev.cfg
  /\ Lit /\ "data" \in Range(out) => Settings \subseteq dev.cfg
  /\ RNode /\ Sending => Settings \subseteq st.reported
  /\ ~dev.strayed

\* The drivers begin with nothing on the line.
LEMMA InitRadio == Init => RadioInv
<1> SUFFICES ASSUME Init PROVE RadioInv
  OBVIOUS
<1>1. setup \in Setups /\ setup \in [kind : {"serial", "kiss", "rnode"}, flow : BOOLEAN,
                                     esp32 : BOOLEAN, valid : BOOLEAN]
  BY SerialAssumption DEF Init
<1>2. /\ out = <<>> /\ in = <<>> /\ out \in Seq(Commands) /\ in \in Seq(Reports)
      /\ Range(out) = {} /\ Range(in) = {}
  BY ShortLine DEF Init
<1>3. st \in States
  BY <1>1 DEF Init, NewState, States, RNode
<1>4. /\ dev \in [on : BOOLEAN, cfg : SUBSET (Settings \cup Limits), strayed : BOOLEAN]
      /\ ~dev.on /\ ~dev.strayed
  BY DEF Init
<1>5. at = "open" /\ tx = "off"
  BY DEF Init
<1> QED
  BY <1>1, <1>2, <1>3, <1>4, <1>5 DEF RadioInv, SerialType, Early, Sending, Lit

\* A step that leaves the device alone, puts no "on" and no untimely packet on
\* the line, and whose reports were there before or are about no setting.
KeepsRadio ==
  /\ UNCHANGED <<setup, dev>>
  /\ out' \in Seq(Commands) /\ in' \in Seq(Reports) /\ st' \in States
  /\ \A c \in Range(out') \ Range(out) :
       c # "on" /\ (c = "data" /\ RNode => Settings \subseteq st.reported)
  /\ Range(in') \cap Settings \subseteq Range(in)
  /\ st'.reported \cap Settings \subseteq st.reported \cup Range(in)
  /\ Early' => /\ Early /\ tx' = "off" /\ st'.reported = {}
               /\ Range(out') \subseteq {"detect"}
               /\ Range(in') \cap (Settings \cup Limits \cup {"on"}) = {}
  /\ at' \in {"detect", "init", "validate"} => RNode
  /\ RNode /\ Sending' => Settings \subseteq st'.reported

\* Such a step keeps the invariant.
LEMMA RadioStep ==
  ASSUME RadioInv, KeepsRadio
  PROVE  RadioInv'
<1>1. SerialType'
  BY DEF KeepsRadio, RadioInv, SerialType
<1>2. (RNode' <=> RNode) /\ (Lit' => Lit) /\ dev' = dev
  BY DEF KeepsRadio, RNode, Lit
<1>3. Lit' => (st'.reported \cup Range(in')) \cap Settings \subseteq dev'.cfg
  BY <1>2 DEF KeepsRadio, RadioInv
<1>4. Lit' /\ "data" \in Range(out') => Settings \subseteq dev'.cfg
  <2> SUFFICES ASSUME Lit', "data" \in Range(out') PROVE Settings \subseteq dev.cfg
    BY <1>2
  <2>1. RNode /\ Lit
    BY <1>2 DEF RadioInv
  <2>2. CASE "data" \in Range(out)
    BY <2>1, <2>2 DEF RadioInv
  <2>3. CASE "data" \notin Range(out)
    <3>1. Settings \subseteq st.reported
      BY <2>1, <2>3 DEF KeepsRadio
    <3> QED
      BY <2>1, <3>1 DEF RadioInv
  <2> QED
    BY <2>2, <2>3
<1>5. ~RNode' => at' \notin {"detect", "init", "validate"} /\ ~Lit'
  BY <1>2 DEF KeepsRadio, RadioInv
<1>6. Early' => /\ tx' = "off" /\ st'.reported = {}
                /\ Range(out') \subseteq {"detect"}
                /\ Range(in') \cap (Settings \cup Limits \cup {"on"}) = {}
  BY DEF KeepsRadio
<1>7. RNode' /\ Sending' => Settings \subseteq st'.reported
  BY <1>2 DEF KeepsRadio
<1>8. ~dev'.strayed
  BY <1>2 DEF RadioInv
<1> QED
  BY <1>1, <1>3, <1>4, <1>5, <1>6, <1>7, <1>8 DEF RadioInv

\* A step that leaves the line alone and starts neither a session nor, without
\* the settings reported, the transmit task.
LineKept ==
  /\ UNCHANGED <<setup, dev, out, in>>
  /\ st' \in States /\ st'.reported = st.reported
  /\ Early' => Early /\ tx' = tx
  /\ at' \in {"detect", "init", "validate"} => at' = at \/ RNode
  /\ RNode /\ Sending' => Sending \/ Settings \subseteq st.reported

\* Such a step keeps the invariant.
LEMMA LineKeptRadio ==
  ASSUME RadioInv, LineKept
  PROVE  RadioInv'
<1>1. KeepsRadio
  BY DEF LineKept, KeepsRadio, RadioInv, SerialType
<1> QED
  BY <1>1, RadioStep

\* spawn, where it does not write.
LEMMA SpawnRadio ==
  ASSUME RadioInv,
         \/ Refuse \/ OpenFails \/ WaitOver \/ EndCancelled \/ ConfigureFails
         \/ FirmwareLate \/ Detected \/ Validated
  PROVE  RadioInv'
<1>s. st \in States
  BY DEF RadioInv, SerialType
<1>1. LineKept
  <2>1. CASE Refuse \/ OpenFails \/ WaitOver \/ EndCancelled
    BY <1>s, <2>1 DEF LineKept, Refuse, OpenFails, WaitOver, EndCancelled, line, flow,
       Early, Sending
  <2>2. CASE ConfigureFails \/ FirmwareLate
    BY <1>s, <2>2 DEF LineKept, ConfigureFails, FirmwareLate, GiveUp, line, flow, Early,
       Sending
  <2>3. CASE Detected
    BY <1>s, <2>3 DEF LineKept, Detected, line, flow, Early, Sending, RadioInv
  <2>4. CASE Validated
    <3>1. Settings \subseteq st.reported
      BY <2>4 DEF Validated, radio_matches
    <3>2. st' \in States /\ st'.reported = st.reported
      BY <1>s, <2>4 DEF Validated, States
    <3> QED
      BY <2>4, <3>1, <3>2 DEF LineKept, Validated, line, flow, Early, Sending
  <2> QED
    BY <2>1, <2>2, <2>3, <2>4
<1> QED
  BY <1>1, LineKeptRadio

\* The tasks, where they do not write to the line or read from it.
LEMMA TaskRadio ==
  ASSUME RadioInv,
         \/ RxFails \/ RxStops \/ WriteFails \/ TxStops \/ KissTakes \/ KissReady
         \/ KissTimeout \/ RNodeChecks \/ RNodeSelects \/ RNodeWakes \/ RNodeTakes
         \/ RNodeTimer
         \/ Unencodable \/ TransportSends \/ Shutdown \/ UNCHANGED vars
  PROVE  RadioInv'
<1>s. st \in States /\ setup.flow \in BOOLEAN
  BY DEF RadioInv, SerialType
<1>c. /\ [st EXCEPT !.ready = TRUE] \in States /\ [st EXCEPT !.ready = TRUE].reported = st.reported
      /\ Claim \in States /\ Claim.reported = st.reported
  BY <1>s DEF States, Claim
<1>1. LineKept
  <2>1. CASE RxFails \/ RxStops \/ TransportSends \/ Shutdown \/ UNCHANGED vars
    BY <1>s, <2>1 DEF LineKept, RxFails, RxStops, TransportSends, Shutdown, vars, session,
       line, flow, Early, Sending
  <2>2. CASE WriteFails \/ TxStops
    BY <1>s, <2>2 DEF LineKept, WriteFails, TxStops, TxDone, line, flow, Early, Sending,
       RadioInv
  <2>3. CASE KissTakes \/ KissReady \/ KissTimeout
    BY <1>s, <1>c, <2>3 DEF LineKept, KissTakes, KissReady, KissTimeout, session, line, flow,
       Early, Sending
  <2>4. CASE RNodeChecks
    BY <1>s, <1>c, <2>4 DEF LineKept, RNodeChecks, line, Early, Sending, RadioInv
  <2>5. CASE RNodeTakes
    BY <1>s, <1>c, <2>5 DEF LineKept, RNodeTakes, line, Early, Sending, RadioInv
  <2>6. CASE RNodeSelects \/ RNodeWakes \/ RNodeTimer
    BY <1>s, <2>6 DEF LineKept, RNodeSelects, RNodeWakes, RNodeTimer, line, flow, Early,
       Sending, RadioInv
  <2>7. CASE Unencodable
    BY <1>s, <2>7 DEF LineKept, Unencodable, line, Early, Sending, RadioInv
  <2> QED
    BY <2>1, <2>2, <2>3, <2>4, <2>5, <2>6, <2>7
<1> QED
  BY <1>1, LineKeptRadio

\* A write adds nothing but what it says to the line.
LEMMA Written ==
  ASSUME RadioInv, NEW commands \in Seq(Commands), out' = out \o commands
  PROVE  out' \in Seq(Commands) /\ Range(out') = Range(out) \cup Range(commands)
BY ConcatLine DEF RadioInv, SerialType

\* The lines the drivers write.
LEMMA WrittenLines ==
  /\ \A c \in Commands : <<c>> \in Seq(Commands) /\ Range(<<c>>) = {c}
  /\ <<"off", "leave">> \in Seq(Commands) /\ Range(<<"off", "leave">>) = {"off", "leave"}
  /\ {"params", "detect", "data", "off", "leave"} \subseteq Commands
<1>1. \A c \in Commands : <<c>> \in Seq(Commands) /\ Range(<<c>>) = {c}
  BY ShortLine
<1>2. {"params", "detect", "data", "off", "leave"} \subseteq Commands
  BY DEF Commands
<1>3. <<"off", "leave">> \in Seq(Commands) /\ Range(<<"off", "leave">>) = {"off", "leave"}
  BY <1>2 DEF Range
<1> QED
  BY <1>1, <1>2, <1>3

\* What is written besides the settings.
LEMMA WriteRadio ==
  ASSUME RadioInv,
         \/ Startup \/ SessionEnds \/ SerialSends \/ KissSends \/ RNodeWrites
  PROVE  RadioInv'
<1>s. /\ st \in States /\ setup.kind \in {"serial", "kiss", "rnode"} /\ setup.flow \in BOOLEAN
      /\ out \in Seq(Commands) /\ in \in Seq(Reports)
  BY DEF RadioInv, SerialType
<1>1. KeepsRadio
  <2>1. CASE Startup /\ setup.kind = "serial"
    BY <1>s, <2>1 DEF KeepsRadio, Startup, TasksRun, flow, Early, Sending, RNode
  <2>2. CASE Startup /\ setup.kind = "kiss"
    <3>1. out' \in Seq(Commands) /\ Range(out') = Range(out) \cup {"params"}
      BY <2>2, Written, WrittenLines DEF Startup, Write
    <3> QED
      BY <1>s, <2>2, <3>1 DEF KeepsRadio, Startup, TasksRun, flow, Early, Sending, RNode
  <2>3. CASE Startup /\ setup.kind = "rnode"
    <3>1. out' \in Seq(Commands) /\ Range(out') = Range(out) \cup {"detect"}
      BY <2>3, Written, WrittenLines DEF Startup, Write
    <3>2. Early /\ at' = "detect" /\ UNCHANGED <<setup, dev, in, st, tx>>
      BY <2>3 DEF Startup, flow, Early
    <3> QED
      BY <1>s, <2>3, <3>1, <3>2 DEF KeepsRadio, Sending, RNode, RadioInv
  <2>4. CASE SessionEnds
    <3>1. /\ out' \in Seq(Commands)
          /\ Range(out') \subseteq Range(out) \cup {"off", "leave"}
      BY <1>s, <2>4, Written, WrittenLines DEF SessionEnds
    <3>2. at' \in {"wait", "open"} /\ UNCHANGED <<setup, dev, in, st, tx>>
      BY <2>4 DEF SessionEnds, flow
    <3> QED
      BY <1>s, <3>1, <3>2 DEF KeepsRadio, Early, Sending, RNode, RadioInv
  <2>5. CASE SerialSends \/ KissSends
    <3>1. out' \in Seq(Commands) /\ Range(out') = Range(out) \cup {"data"} /\ ~RNode
      BY <2>5, Written, WrittenLines DEF SerialSends, KissSends, Kiss, RNode, Write
    <3>2. st' \in States /\ st'.reported = st.reported
      BY <1>s, <2>5 DEF SerialSends, KissSends, States
    <3>3. UNCHANGED <<setup, dev, in, at, tx>> /\ ~Early
      BY <2>5 DEF SerialSends, KissSends, session, RadioInv
    <3> QED
      BY <1>s, <3>1, <3>2, <3>3 DEF KeepsRadio, Early, Sending, RNode, RadioInv
  <2>6. CASE RNodeWrites
    <3>1. out' \in Seq(Commands) /\ Range(out') = Range(out) \cup {"data"}
      BY <2>6, Written, WrittenLines DEF RNodeWrites, Write
    <3>2. UNCHANGED <<setup, dev, in, at, st>> /\ ~Early /\ Sending
      BY <2>6 DEF RNodeWrites, flow, RadioInv, Sending
    <3> QED
      BY <1>s, <3>1, <3>2 DEF KeepsRadio, Early, RadioInv
  <2> QED
    BY <1>s, <2>1, <2>2, <2>3, <2>4, <2>5, <2>6
<1> QED
  BY <1>1, RadioStep

\* What reading a report does to the driver's state.
LEMMA AppliedReport ==
  ASSUME RadioInv, NEW r \in Reports
  PROVE  /\ Applied(r) \in States
         /\ Applied(r).reported \subseteq st.reported \cup ({r} \cap (Settings \cup Limits \cup {"on"}))
         /\ Settings \cap st.reported \subseteq Applied(r).reported
         /\ "on" \in Applied(r).reported => "on" \in st.reported \/ r = "on"
<1>s. st \in States /\ setup.esp32 \in BOOLEAN
  BY DEF RadioInv, SerialType
<1>a. "on" \notin Settings \cup Limits
  BY SerialAssumption
<1>1. CASE r \in {"detected", "firmware", "platform", "ready"}
  BY <1>s, <1>1 DEF Applied, States
<1>2. CASE r = "off"
  BY <1>s, <1>a, <1>2 DEF Applied, States
<1>3. CASE r = "on"
  BY <1>s, <1>a, <1>3 DEF Applied, States
<1>4. CASE r \in Settings \cup Limits
  BY <1>s, <1>a, <1>4, SerialAssumption DEF Applied, States
<1>5. CASE r \in {"reset", "error", "params", "detect", "leave"}
  BY <1>s, <1>5, SerialAssumption DEF Applied
<1> QED
  BY <1>1, <1>2, <1>3, <1>4, <1>5 DEF Reports

\* Reports are read or lost, commands are lost, an error is reported, and a port
\* that fails loses what is on the line.
LEMMA ReadRadio ==
  ASSUME RadioInv,
         \/ RNodeReport \/ KissReport \/ ReportLost \/ CommandLost \/ DeviceErrs \/ PortFails
  PROVE  RadioInv'
<1>s. st \in States /\ out \in Seq(Commands) /\ in \in Seq(Reports)
  BY DEF RadioInv, SerialType
<1>1. KeepsRadio
  <2>1. CASE RNodeReport
    <3>1. /\ in' \in Seq(Reports) /\ Head(in) \in Reports
          /\ Range(in) = Range(in') \cup {Head(in)}
      BY <1>s, <2>1, TakeLine DEF RNodeReport
    <3>2. st' = Applied(Head(in)) /\ UNCHANGED <<setup, dev, out, at, tx>>
      BY <2>1 DEF RNodeReport
    <3>3. /\ st' \in States
          /\ st'.reported \subseteq st.reported \cup ({Head(in)} \cap (Settings \cup Limits \cup {"on"}))
          /\ Settings \cap st.reported \subseteq st'.reported
      BY <3>1, <3>2, AppliedReport
    <3> HIDE DEF Applied
    <3> QED
      BY <1>s, <3>1, <3>2, <3>3 DEF KeepsRadio, Early, Sending, RadioInv
  <2>2. CASE KissReport \/ ReportLost
    <3>1. in' \in Seq(Reports) /\ Range(in') \subseteq Range(in)
      BY <1>s, <2>2, TakeLine DEF KissReport, ReportLost
    <3>2. UNCHANGED <<setup, dev, out, at, tx, st>>
      BY <2>2 DEF KissReport, ReportLost, session
    <3> QED
      BY <1>s, <3>1, <3>2 DEF KeepsRadio, Early, Sending, RadioInv
  <2>3. CASE CommandLost
    <3>1. out' \in Seq(Commands) /\ Range(out') \subseteq Range(out)
      BY <1>s, <2>3, TakeLine DEF CommandLost
    <3>2. UNCHANGED <<setup, dev, in, at, tx, st>>
      BY <2>3 DEF CommandLost, session
    <3> QED
      BY <1>s, <3>1, <3>2 DEF KeepsRadio, Early, Sending, RadioInv
  <2>4. CASE DeviceErrs
    <3>1. in' = in \o <<"error">> /\ "error" \in Reports
      BY <1>s, <2>4, AppendIsConcat DEF DeviceErrs, Reports
    <3>e. <<"error">> \in Seq(Reports) /\ Range(<<"error">>) = {"error"}
      BY <3>1, ShortLine
    <3>2. in' \in Seq(Reports) /\ Range(in') = Range(in) \cup {"error"}
      BY <1>s, <3>1, <3>e, ConcatReports
    <3>3. UNCHANGED <<setup, dev, out, at, tx, st>>
      BY <2>4 DEF DeviceErrs, session
    <3> QED
      BY <1>s, <3>2, <3>3, SerialAssumption DEF KeepsRadio, Early, Sending, RadioInv
  <2>5. CASE PortFails
    <3>1. /\ out' \in Seq(Commands) /\ in' \in Seq(Reports)
          /\ Range(out') = {} /\ Range(in') = {}
      BY <2>5, ShortLine DEF PortFails
    <3>2. UNCHANGED <<setup, dev, at, tx, st>>
      BY <2>5 DEF PortFails
    <3> QED
      BY <1>s, <3>1, <3>2 DEF KeepsRadio, Early, Sending, RadioInv
  <2> QED
    BY <2>1, <2>2, <2>3, <2>4, <2>5
<1> QED
  BY <1>1, RadioStep

\* A session begins with nothing on the line and nothing reported.
LEMMA OpenRadio ==
  ASSUME RadioInv, Open
  PROVE  RadioInv'
<1>1. /\ at' = "startup" /\ tx' = "off" /\ st' = NewState
      /\ UNCHANGED <<setup, out, dev>> /\ out = <<>> /\ in' = <<>>
  BY DEF Open
<1>2. Range(out') = {} /\ Range(in') = {} /\ in' \in Seq(Reports)
  BY <1>1, ShortLine
<1>3. st' \in States /\ st'.reported = {}
  BY <1>1 DEF NewState, States, RNode, RadioInv, SerialType
<1>4. SerialType'
  BY <1>1, <1>2, <1>3 DEF RadioInv, SerialType
<1> QED
  BY <1>1, <1>2, <1>3, <1>4 DEF RadioInv, Early, Sending, Lit, RNode

\* What init_radio writes: the radio is switched on once, at the end.
LEMMA InitLine ==
  /\ InitCommands \in Seq(Commands)
  /\ Range(InitCommands) \subseteq Settings \cup Limits \cup {"on", "off"}
  /\ Once({"on"}, InitCommands)
<1> DEFINE settings == SetToSeq(Settings)
           limits == SetToSeq(Limits)
           off == <<"off">>
           on == <<"on">>
           begin == off \o settings
           head == begin \o limits
<1>1. /\ settings \in Seq(Commands) /\ Range(settings) \subseteq Settings
      /\ limits \in Seq(Commands) /\ Range(limits) \subseteq Limits
  <2>1. settings \in Seq(Settings) /\ limits \in Seq(Limits)
    BY SettingsInOrder, SerialAssumption
  <2> HIDE DEF settings, limits
  <2> QED
    BY <2>1, SeqMonotonic, RangeOfSeq DEF Commands
<1>2. /\ off \in Seq(Commands) /\ Range(off) = {"off"}
      /\ on \in Seq(Commands) /\ Range(on) = {"on"} /\ Once({"on"}, on)
  <2>1. Once({"on"}, on)
    BY DEF Once
  <2> QED
    BY <2>1, ShortLine DEF Commands
<1>3. InitCommands = head \o on
  BY DEF InitCommands
<1> HIDE DEF settings, limits, off, on
<1>b. begin \in Seq(Commands) /\ Range(begin) \subseteq Settings \cup {"off"}
  BY <1>1, <1>2, ConcatCommands
<1> HIDE DEF begin
<1>4. head \in Seq(Commands) /\ Range(head) \subseteq Settings \cup Limits \cup {"off"}
  BY <1>b, <1>1, ConcatCommands
<1> HIDE DEF head
<1>5. /\ head \o on \in Seq(Commands)
      /\ Range(head \o on) \subseteq Settings \cup Limits \cup {"on", "off"}
  BY <1>2, <1>4, ConcatCommands
<1>6. Range(head) \cap {"on"} = {}
  BY <1>4, SerialAssumption
<1>7. Once({"on"}, head \o on)
  BY <1>2, <1>4, <1>6, OnceConcat
<1> QED
  BY <1>3, <1>5, <1>7

\* init_radio switches the radio on when nothing is reported yet.
LEMMA InitRadioStep ==
  ASSUME RadioInv, init_radio
  PROVE  RadioInv'
<1>1. /\ InitCommands \in Seq(Commands)
      /\ Range(InitCommands) \subseteq Settings \cup Limits \cup {"on", "off"}
  BY InitLine
<1>2. /\ at' = "validate" /\ UNCHANGED <<setup, st, in, dev, tx>>
      /\ out' = out \o InitCommands /\ Early /\ RNode
  BY DEF init_radio, Write, Early, RadioInv
<1>3. /\ out' \in Seq(Commands)
      /\ Range(out') \subseteq {"detect", "on", "off"} \cup Settings \cup Limits
  BY <1>1, <1>2, Written DEF RadioInv
<1>4. SerialType'
  BY <1>2, <1>3 DEF RadioInv, SerialType
<1>5. tx' = "off" /\ st'.reported = {} /\ Range(in') \cap (Settings \cup Limits) = {} /\ ~dev'.strayed
  BY <1>2 DEF RadioInv
<1>6. "data" \notin Range(out') /\ RNode' /\ ~Early' /\ ~Sending'
  BY <1>2, <1>3, <1>5, SerialAssumption DEF RNode, Early, Sending
<1> QED
  BY <1>4, <1>5, <1>6 DEF RadioInv

\* The device restarts: its radio is off, and nothing on the line turns it on.
LEMMA ResetRadio ==
  ASSUME RadioInv, DeviceResets
  PROVE  RadioInv'
<1>1. /\ UNCHANGED <<setup, at, tx, st>> /\ out' = <<>> /\ in' = <<"reset">>
      /\ dev' = [dev EXCEPT !.on = FALSE, !.cfg = {}]
  BY DEF DeviceResets, session
<1>2. /\ Range(out') = {} /\ out' \in Seq(Commands) /\ "reset" \in Reports
      /\ Range(in') = {"reset"} /\ in' \in Seq(Reports)
  BY <1>1, ShortLine DEF Reports
<1>3. /\ dev' \in [on : BOOLEAN, cfg : SUBSET (Settings \cup Limits), strayed : BOOLEAN]
      /\ ~dev'.on /\ ~dev'.strayed
  BY <1>1 DEF RadioInv, SerialType
<1>4. SerialType'
  BY <1>1, <1>2, <1>3 DEF RadioInv, SerialType
<1>5. ~Lit'
  BY <1>2, <1>3 DEF Lit
<1> QED
  BY <1>1, <1>2, <1>3, <1>4, <1>5, SerialAssumption DEF RadioInv, Early, Sending, RNode

\* What the device answers.
LEMMA AnswerLine ==
  ASSUME RadioInv, NEW c \in Commands
  PROVE  /\ Answer(c) \in Seq(Reports)
         /\ c = "detect" => Range(Answer(c)) = {"detected", "firmware", "platform"}
         /\ c = "data" => Range(Answer(c)) \subseteq {"ready"}
         /\ c \notin {"detect", "data"} => Range(Answer(c)) \subseteq {c}
<1>1. CASE c = "detect"
  <2>1. Answer(c) = <<"detected", "firmware", "platform">>
    BY <1>1 DEF Answer
  <2>2. Range(<<"detected", "firmware", "platform">>) = {"detected", "firmware", "platform"}
    BY DEF Range
  <2>3. <<"detected", "firmware", "platform">> \in Seq(Reports)
    BY DEF Reports
  <2> QED
    BY <1>1, <2>1, <2>2, <2>3
<1>2. CASE c = "data"
  <2>1. Answer(c) = <<"ready">> \/ Answer(c) = <<>>
    BY <1>2 DEF Answer
  <2> QED
    BY <1>2, <2>1, ShortLine DEF Reports
<1>3. CASE c \in {"leave", "params"}
  <2>1. Answer(c) = <<>>
    BY <1>3 DEF Answer
  <2> QED
    BY <1>3, <2>1, ShortLine
<1>4. CASE c \in {"on", "off"} \cup Settings \cup Limits
  <2>1. Answer(c) = <<c>> /\ c \in Reports /\ c \notin {"detect", "data"}
    BY <1>4, SerialAssumption DEF Answer, Reports
  <2> QED
    BY <2>1, ShortLine
<1> QED
  BY <1>1, <1>2, <1>3, <1>4 DEF Commands

\* The device takes a command: what it reports of a setting is set.
LEMMA DeviceRadio ==
  ASSUME RadioInv, DeviceTakes
  PROVE  RadioInv'
<1> DEFINE c == Head(out)
<1>s. /\ out \in Seq(Commands) /\ in \in Seq(Reports) /\ out # <<>> /\ out' = Tail(out)
      /\ dev \in [on : BOOLEAN, cfg : SUBSET (Settings \cup Limits), strayed : BOOLEAN]
  BY DEF RadioInv, SerialType, DeviceTakes
<1>u. UNCHANGED <<setup, at, tx, st>>
  BY DEF DeviceTakes, session
<1>1. /\ out' \in Seq(Commands) /\ c \in Commands /\ c \in Range(out)
      /\ Range(out) = Range(out') \cup {c}
  BY <1>s, TakeLine
<1>2. /\ Answer(c) \in Seq(Reports)
      /\ c = "detect" => Range(Answer(c)) = {"detected", "firmware", "platform"}
      /\ c = "data" => Range(Answer(c)) \subseteq {"ready"}
      /\ c \notin {"detect", "data"} => Range(Answer(c)) \subseteq {c}
  BY <1>1, AnswerLine
<1>3. in' = in \/ in' = in \o Answer(c)
  BY DEF DeviceTakes
<1>4. in' \in Seq(Reports) /\ Range(in') \subseteq Range(in) \cup Range(Answer(c))
  BY <1>s, <1>2, <1>3, ConcatReports
<1>5. /\ dev' \in [on : BOOLEAN, cfg : SUBSET (Settings \cup Limits), strayed : BOOLEAN]
      /\ dev.cfg \subseteq dev'.cfg
      /\ c \in Settings => c \in dev'.cfg
      /\ dev'.on => dev.on \/ c = "on"
      /\ dev'.strayed => dev.strayed \/ (c = "data" /\ dev.on /\ ~(Settings \subseteq dev.cfg))
  <2>1. CASE c = "on"
    BY <1>s, <2>1, SerialAssumption DEF DeviceTakes
  <2>2. CASE c = "off"
    BY <1>s, <2>2, SerialAssumption DEF DeviceTakes
  <2>3. CASE c = "data"
    BY <1>s, <2>3, SerialAssumption DEF DeviceTakes
  <2>4. CASE c \in Settings \cup Limits
    BY <1>s, <2>4, SerialAssumption DEF DeviceTakes
  <2>5. CASE c \notin {"on", "off", "data"} \cup Settings \cup Limits
    BY <1>s, <2>5, SerialAssumption DEF DeviceTakes
  <2> QED
    BY <2>1, <2>2, <2>3, <2>4, <2>5
<1>6. SerialType'
  BY <1>u, <1>1, <1>4, <1>5 DEF RadioInv, SerialType
<1>7. (Lit' => Lit) /\ (RNode' <=> RNode)
  BY <1>u, <1>1, <1>5 DEF Lit, RNode
<1>8. ~dev'.strayed
  BY <1>1, <1>5 DEF RadioInv, Lit
<1>9. Range(Answer(c)) \cap Settings \subseteq dev'.cfg
  BY <1>2, <1>5, SerialAssumption
<1>10. Early => Range(Answer(c)) \cap (Settings \cup Limits \cup {"on"}) = {}
  BY <1>1, <1>2, SerialAssumption DEF RadioInv
<1>11. Lit' => (st'.reported \cup Range(in')) \cap Settings \subseteq dev'.cfg
  BY <1>u, <1>4, <1>5, <1>7, <1>9 DEF RadioInv
<1>12. Lit' /\ "data" \in Range(out') => Settings \subseteq dev'.cfg
  BY <1>1, <1>5, <1>7 DEF RadioInv
<1>13. Early' => /\ tx' = "off" /\ st'.reported = {}
                 /\ Range(out') \subseteq {"detect"}
                 /\ Range(in') \cap (Settings \cup Limits \cup {"on"}) = {}
  BY <1>u, <1>1, <1>4, <1>10 DEF RadioInv, Early
<1>14. ~RNode' => at' \notin {"detect", "init", "validate"} /\ ~Lit'
  BY <1>u, <1>7 DEF RadioInv
<1>15. RNode' /\ Sending' => Settings \subseteq st'.reported
  BY <1>u, <1>7 DEF RadioInv, Sending
<1> QED
  BY <1>6, <1>8, <1>11, <1>12, <1>13, <1>14, <1>15 DEF RadioInv

\* Every step of the specification.
LEMMA NextRadio == RadioInv /\ [Next]_vars => RadioInv'
BY SpawnRadio, TaskRadio, WriteRadio, ReadRadio, OpenRadio, InitRadioStep, ResetRadio,
   DeviceRadio
DEF Next, SpawnStep, RxStep, TxStep, TxTakes

\* No packet goes on air while the radio lacks its frequency, bandwidth, power,
\* spreading factor or coding rate, whatever was lost and however often the
\* device was reset (configure_device, radio_matches).  The airtime limits are
\* not read back, and it is not about them.
THEOREM RadioIsConfigured == Spec => []DataOnConfiguredRadio
<1>1. RadioInv => DataOnConfiguredRadio
  BY DEF RadioInv, DataOnConfiguredRadio
<1> QED
  BY <1>1, InitRadio, NextRadio, PTL DEF Spec

-----------------------------------------------------------------------------
(* One packet at a time.                                                   *)
(*                                                                         *)
(* A packet on its way to the device and the READY on its way back are one *)
(* token.  While the driver believes the device ready, or has taken that   *)
(* belief back to write a packet, there is no token under way.  The report *)
(* that the radio is on also makes the device ready: FlowInv has to say    *)
(* that it is sent once and was read when the transmit task starts.        *)

Tokens == {"data", "ready"}

None(C) == Range(out) \cap C = {} /\ Range(in) \cap C = {}

AtMostOne(C) ==
  /\ Once(C, out) /\ Once(C, in)
  /\ Range(out) \cap C = {} \/ Range(in) \cap C = {}

Setup == at \in {"startup", "detect", "init", "validate"}

FlowInv ==
  /\ RadioInv
  /\ RNode /\ Setup => None(Tokens) /\ tx = "off"
  /\ RNode /\ at = "validate" => /\ AtMostOne({"on"})
                                 /\ "on" \in st.reported => None({"on"})
  /\ RNode /\ setup.flow /\ at = "up" =>
       /\ None({"on"}) /\ AtMostOne(Tokens)
       /\ st.ready => None(Tokens) /\ tx # "sending"
       /\ tx = "sending" => None(Tokens)

\* Nothing is on the line, and no session runs.
LEMMA InitFlow == Init => FlowInv
<1> SUFFICES ASSUME Init PROVE FlowInv
  OBVIOUS
<1>1. RadioInv /\ at = "open"
  BY InitRadio DEF Init
<1> QED
  BY <1>1 DEF FlowInv, Setup

\* An empty line, and a line without C.
LEMMA NoneOnce ==
  ASSUME RadioInv, NEW C, None(C)
  PROVE  AtMostOne(C)
BY OnceNone DEF RadioInv, SerialType, None, AtMostOne

\* A step to no session, or of another driver.
LEMMA FlowElsewhere ==
  ASSUME RadioInv', ~RNode' \/ at' \in {"open", "wait", "ended"}
  PROVE  FlowInv'
BY DEF FlowInv, Setup

\* A step that leaves the line alone.
FlowKept ==
  /\ UNCHANGED <<setup, out, in>>
  /\ Setup' => Setup /\ tx' = tx
  /\ at' = "validate" => at = "validate" /\ st'.reported = st.reported
  /\ at' = "up" => /\ at = "up"
                   /\ setup.flow /\ st'.ready => st.ready /\ (tx' # "sending" \/ tx' = tx)
                   /\ setup.flow /\ tx' = "sending" => tx = "sending" \/ st.ready

\* Such a step keeps the invariant.
LEMMA FlowStill ==
  ASSUME FlowInv, RadioInv', FlowKept
  PROVE  FlowInv'
<1>1. (RNode' <=> RNode) /\ setup' = setup
  BY DEF FlowKept, RNode
<1>2. \A C : (None(C)' <=> None(C)) /\ (AtMostOne(C)' <=> AtMostOne(C))
  BY DEF FlowKept, None, AtMostOne
<1> QED
  BY <1>1, <1>2 DEF FlowInv, FlowKept

\* The steps of the drivers that neither write nor read.
LEMMA SpawnFlow ==
  ASSUME FlowInv, RadioInv',
         \/ Refuse \/ OpenFails \/ WaitOver \/ EndCancelled \/ ConfigureFails \/ FirmwareLate
         \/ SessionEnds \/ SerialSends \/ KissSends \/ KissReport
         \/ KissTakes \/ KissReady \/ KissTimeout
  PROVE  FlowInv'
<1>1. ~RNode' \/ at' \in {"open", "wait", "ended"}
  BY DEF Refuse, OpenFails, WaitOver, EndCancelled, ConfigureFails, FirmwareLate, GiveUp,
     SessionEnds, SerialSends, KissSends, KissReport, KissTakes, KissSelects, KissReady,
     KissTimeout, FlowTimeout, Kiss, RNode
<1> QED
  BY <1>1, FlowElsewhere

\* The tasks of an RNode and what else leaves the line alone.
LEMMA TaskFlow ==
  ASSUME FlowInv, RadioInv',
         \/ Detected \/ RxFails \/ RxStops \/ WriteFails \/ TxStops
         \/ RNodeChecks \/ RNodeSelects \/ RNodeWakes \/ RNodeTakes \/ RNodeTimer
         \/ Unencodable \/ TransportSends \/ Shutdown \/ UNCHANGED vars
  PROVE  FlowInv'
<1>s. st \in States /\ setup.flow \in BOOLEAN /\ (RNode' <=> RNode)
  BY DEF FlowInv, RadioInv, SerialType, RNode, Detected, RxFails, RxStops, WriteFails, TxStops,
     RNodeChecks, RNodeSelects, RNodeWakes, RNodeTakes, RNodeTimer, Unencodable,
     TransportSends, Shutdown, vars
<1>c. setup.flow => ~Claim.ready
  BY <1>s DEF Claim, States
<1>0. CASE ~RNode'
  BY <1>0, FlowElsewhere
<1>1. CASE Detected
  BY <1>1, FlowStill DEF FlowKept, Detected, line, flow, Setup
<1>2. CASE RxFails \/ RxStops \/ TransportSends \/ Shutdown \/ UNCHANGED vars
  BY <1>2, FlowStill DEF FlowKept, RxFails, RxStops, TransportSends, Shutdown, vars, session,
     line, flow, Setup
<1>3. CASE (WriteFails \/ TxStops) /\ RNode
  <2>1. ~Setup
    BY <1>3 DEF WriteFails, TxStops, FlowInv, Kiss, RNode
  <2> QED
    BY <1>3, <2>1, FlowStill DEF FlowKept, WriteFails, TxStops, TxDone, line, flow, Setup
<1>4. CASE (RNodeChecks \/ RNodeTakes) /\ RNode
  <2>1. ~Setup
    BY <1>4 DEF RNodeChecks, RNodeTakes, FlowInv
  <2>2. CASE RNodeChecks
    BY <1>c, <2>1, <2>2, FlowStill DEF FlowKept, RNodeChecks, line, Setup
  <2>3. CASE RNodeTakes
    BY <1>s, <1>c, <2>1, <2>3, FlowStill DEF FlowKept, RNodeTakes, line, Setup
  <2> QED
    BY <1>4, <2>2, <2>3
<1>5. CASE (RNodeSelects \/ RNodeWakes \/ RNodeTimer \/ Unencodable) /\ RNode
  <2>1. ~Setup
    BY <1>5 DEF RNodeSelects, RNodeWakes, RNodeTimer, Unencodable, FlowInv, KissSelects, Kiss,
       RNode
  <2>2. tx' # "sending"
    BY <1>5 DEF RNodeSelects, RNodeWakes, RNodeTimer, Unencodable, KissSelects, Kiss, RNode
  <2> QED
    BY <1>5, <2>1, <2>2, FlowStill
    DEF FlowKept, RNodeSelects, RNodeWakes, RNodeTimer, Unencodable, line, flow, Setup
<1> QED
  BY <1>s, <1>0, <1>1, <1>2, <1>3, <1>4, <1>5

\* A report is taken from the line.
LEMMA TakeReport ==
  ASSUME RadioInv, in # <<>>, in' = Tail(in), out' = out, NEW C, AtMostOne(C)
  PROVE  /\ AtMostOne(C)'
         /\ Head(in) \in C => None(C)'
         /\ None(C) => None(C)'
<1>1. in \in Seq(Reports)
  BY DEF RadioInv, SerialType
<1>2. /\ Range(in) = Range(in') \cup {Head(in)}
      /\ Once(C, in') /\ (Head(in) \in C => Range(in') \cap C = {})
  BY <1>1, TakeLine, OnceTail DEF AtMostOne
<1> QED
  BY <1>2 DEF AtMostOne, None

\* A command is taken from the line.
LEMMA TakeCommand ==
  ASSUME RadioInv, out # <<>>, out' = Tail(out), in' = in, NEW C, AtMostOne(C)
  PROVE  AtMostOne(C)' /\ (None(C) => None(C)')
<1>1. out \in Seq(Commands)
  BY DEF RadioInv, SerialType
<1>2. Range(out) = Range(out') \cup {Head(out)} /\ Once(C, out')
  BY <1>1, TakeLine, OnceTail DEF AtMostOne
<1> QED
  BY <1>2 DEF AtMostOne, None

\* The answer to a command takes its place.
LEMMA AnswerOnce ==
  ASSUME RadioInv, out # <<>>, out' = Tail(out), in' = in \o Answer(Head(out)),
         NEW C, AtMostOne(C),
         Head(out) \in C \/ Range(Answer(Head(out))) \cap C = {},
         Once(C, Answer(Head(out)))
  PROVE  AtMostOne(C)' /\ (None(C) => None(C)')
<1> DEFINE c == Head(out)
           a == Answer(c)
<1>1. out \in Seq(Commands) /\ in \in Seq(Reports)
  BY DEF RadioInv, SerialType
<1>2. /\ Range(out) = Range(out') \cup {c} /\ c \in Commands
      /\ Once(C, out') /\ (c \in C => Range(out') \cap C = {})
  BY <1>1, TakeLine, OnceTail DEF AtMostOne
<1>3. a \in Seq(Reports)
  BY <1>2, AnswerLine
<1>4. Once(C, a) /\ (c \in C \/ Range(a) \cap C = {}) /\ in' = in \o a
  OBVIOUS
<1> HIDE DEF a, c
<1>5. Range(in') = Range(in) \cup Range(a)
  BY <1>1, <1>3, <1>4, ConcatReports
<1>6. CASE c \in C
  <2>1. Range(in) \cap C = {} /\ Range(out') \cap C = {}
    BY <1>2, <1>6 DEF AtMostOne
  <2>2. Once(C, in \o a)
    BY <1>1, <1>3, <1>4, <2>1, OnceConcat
  <2> QED
    BY <1>2, <1>4, <1>6, <2>1, <2>2 DEF AtMostOne, None
<1>7. CASE Range(a) \cap C = {}
  <2>1. Once(C, in \o a)
    BY <1>1, <1>3, <1>7, OnceConcat DEF AtMostOne
  <2> QED
    BY <1>2, <1>4, <1>5, <1>7, <2>1 DEF AtMostOne, None
<1> QED
  BY <1>4, <1>6, <1>7

\* What the device answers to a packet and to "on", and to nothing else.
LEMMA AnswerTokens ==
  ASSUME RadioInv, NEW c \in Commands
  PROVE  /\ c \in Tokens \/ Range(Answer(c)) \cap Tokens = {}
         /\ c = "on" \/ Range(Answer(c)) \cap {"on"} = {}
         /\ Once(Tokens, Answer(c)) /\ Once({"on"}, Answer(c))
<1>1. /\ Answer(c) \in Seq(Reports)
      /\ c = "detect" => Range(Answer(c)) = {"detected", "firmware", "platform"}
      /\ c = "data" => Range(Answer(c)) \subseteq {"ready"}
      /\ c \notin {"detect", "data"} => Range(Answer(c)) \subseteq {c}
  BY AnswerLine
<1>2. c # "ready"
  BY SerialAssumption DEF Commands
<1>3. /\ c \in Tokens \/ Range(Answer(c)) \cap Tokens = {}
      /\ c = "on" \/ Range(Answer(c)) \cap {"on"} = {}
  BY <1>1, <1>2 DEF Tokens
<1>4. Once(Tokens, Answer(c))
  <2>1. CASE c = "data"
    <3>1. Answer(c) = <<"ready">> \/ Answer(c) = <<>>
      BY <2>1 DEF Answer
    <3>2. \A C : Once(C, <<"ready">>) /\ Once(C, <<>>)
      BY DEF Once
    <3> QED
      BY <3>1, <3>2
  <2>2. CASE c # "data"
    BY <1>1, <1>2, <1>3, <2>2, OnceNone DEF Tokens
  <2> QED
    BY <2>1, <2>2
<1>5. Once({"on"}, Answer(c))
  <2>1. CASE c = "on"
    <3>1. Answer(c) = <<"on">>
      BY <2>1 DEF Answer
    <3>2. \A C : Once(C, <<"on">>)
      BY DEF Once
    <3> QED
      BY <3>1, <3>2
  <2>2. CASE c # "on"
    BY <1>1, <1>3, <2>2, OnceNone
  <2> QED
    BY <2>1, <2>2
<1> QED
  BY <1>3, <1>4, <1>5

\* The device takes a command, and a command is lost.
LEMMA DeviceFlow ==
  ASSUME FlowInv, RadioInv', DeviceTakes \/ CommandLost
  PROVE  FlowInv'
<1> DEFINE Kept(C) == AtMostOne(C)' /\ (None(C) => None(C)')
<1>1. /\ UNCHANGED <<setup, at, tx, st>> /\ RadioInv /\ (RNode' <=> RNode)
      /\ out # <<>> /\ out' = Tail(out) /\ Head(out) \in Commands
      /\ in' = in \/ in' = in \o Answer(Head(out))
  <2>1. /\ UNCHANGED <<setup, at, tx, st>> /\ out # <<>> /\ out' = Tail(out)
        /\ in' = in \/ in' = in \o Answer(Head(out))
    BY DEF DeviceTakes, CommandLost, session
  <2>2. RadioInv /\ out \in Seq(Commands)
    BY DEF FlowInv, RadioInv, SerialType
  <2> QED
    BY <2>1, <2>2, HeadTailProperties DEF RNode
<1>2. AtMostOne(Tokens) => Kept(Tokens)
  BY <1>1, AnswerTokens, AnswerOnce, TakeCommand
<1>3. AtMostOne({"on"}) => Kept({"on"})
  BY <1>1, AnswerTokens, AnswerOnce, TakeCommand
<1>4. /\ None(Tokens) => None(Tokens)' /\ AtMostOne(Tokens)'
      /\ None({"on"}) => None({"on"})' /\ AtMostOne({"on"})'
  BY <1>1, <1>2, <1>3, NoneOnce
<1> QED
  BY <1>1, <1>2, <1>3, <1>4 DEF FlowInv, Setup

\* Reports are read, or lost.
LEMMA ReportFlow ==
  ASSUME FlowInv, RadioInv', RNodeReport \/ ReportLost
  PROVE  FlowInv'
<1>1. /\ UNCHANGED <<setup, at, tx, out>> /\ RadioInv /\ (RNode' <=> RNode)
      /\ in # <<>> /\ in' = Tail(in) /\ Head(in) \in Reports
      /\ st' = st \/ st' = Applied(Head(in))
  <2>1. /\ UNCHANGED <<setup, at, tx, out>> /\ in # <<>> /\ in' = Tail(in)
        /\ st' = st \/ st' = Applied(Head(in))
    BY DEF RNodeReport, ReportLost, session
  <2>2. RadioInv /\ in \in Seq(Reports)
    BY DEF FlowInv, RadioInv, SerialType
  <2> QED
    BY <2>1, <2>2, HeadTailProperties DEF RNode
<1> DEFINE r == Head(in)
<1>2. \A C : AtMostOne(C) => /\ AtMostOne(C)' /\ (None(C) => None(C)')
                             /\ r \in C => None(C)'
  BY <1>1, TakeReport
<1>3. \A C : None(C) => None(C)' /\ AtMostOne(C)'
  BY <1>1, <1>2, NoneOnce
<1>4. /\ "on" \in st'.reported => "on" \in st.reported \/ r = "on"
      /\ st'.ready => st.ready \/ r \in {"ready", "on"}
  <2>1. "on" \in st'.reported => "on" \in st.reported \/ r = "on"
    BY <1>1, AppliedReport
  <2>2. Applied(r).ready => st.ready \/ r \in {"ready", "on"}
    <3>1. st \in States
      BY <1>1 DEF RadioInv, SerialType
    <3> QED
      BY <3>1 DEF Applied, States
  <2> QED
    BY <1>1, <2>1, <2>2
<1>5. r \in Range(in)
  BY <1>1, TakeLine DEF RadioInv, SerialType
<1>6. RNode /\ at = "validate" => /\ AtMostOne({"on"})'
                                  /\ "on" \in st'.reported => None({"on"})'
  BY <1>2, <1>3, <1>4 DEF FlowInv
<1>7. ASSUME RNode, setup.flow, at = "up"
      PROVE  /\ None({"on"})' /\ AtMostOne(Tokens)'
             /\ st'.ready => None(Tokens)' /\ tx # "sending"
             /\ tx = "sending" => None(Tokens)'
  <2>1. /\ None({"on"}) /\ AtMostOne(Tokens)
        /\ st.ready => None(Tokens) /\ tx # "sending"
        /\ tx = "sending" => None(Tokens)
    BY <1>7 DEF FlowInv
  <2>2. r # "on" /\ (tx = "sending" => r # "ready")
    BY <1>5, <2>1 DEF None, Tokens
  <2> QED
    BY <1>2, <1>3, <1>4, <2>1, <2>2 DEF Tokens
<1> QED
  BY <1>1, <1>3, <1>6, <1>7 DEF FlowInv, Setup

\* A line that is emptied, or on which an error or a reset is reported.
LEMMA FaultFlow ==
  ASSUME FlowInv, RadioInv', DeviceErrs \/ PortFails \/ DeviceResets
  PROVE  FlowInv'
<1>1. UNCHANGED <<setup, at, tx, st>> /\ RadioInv /\ (RNode' <=> RNode)
  BY DEF DeviceErrs, PortFails, DeviceResets, session, FlowInv, RNode
<1>2. \A C : C \cap {"error", "reset"} = {} =>
               (AtMostOne(C) => AtMostOne(C)') /\ (None(C) => None(C)')
  <2> SUFFICES ASSUME NEW C, C \cap {"error", "reset"} = {}
               PROVE  (AtMostOne(C) => AtMostOne(C)') /\ (None(C) => None(C)')
    OBVIOUS
  <2>1. CASE PortFails \/ DeviceResets
    <3>1. /\ Range(<<>>) = {} /\ "reset" \in Reports
          /\ Range(<<"reset">>) = {"reset"}
      BY ShortLine DEF Reports
    <3>2. out' = <<>> /\ (in' = <<>> \/ in' = <<"reset">>)
      BY <2>1 DEF PortFails, DeviceResets
    <3>3. None(C)'
      BY <3>1, <3>2 DEF None
    <3>4. Once(C, <<>>) /\ Once(C, <<"reset">>)
      BY DEF Once
    <3> QED
      BY <3>2, <3>3, <3>4 DEF AtMostOne, None
  <2>2. CASE DeviceErrs
    <3> DEFINE e == <<"error">>
    <3>1. in \in Seq(Reports) /\ "error" \in Reports
      BY <1>1 DEF RadioInv, SerialType, Reports
    <3>2. e \in Seq(Reports) /\ Range(e) = {"error"} /\ in' = in \o e /\ out' = out
      BY <2>2, <3>1, ShortLine, AppendIsConcat DEF DeviceErrs
    <3> HIDE DEF e
    <3>3. Range(in') = Range(in) \cup {"error"}
      BY <3>1, <3>2, ConcatReports
    <3>4. Once(C, in) => Once(C, in \o e)
      BY <3>1, <3>2, OnceConcat
    <3> QED
      BY <3>2, <3>3, <3>4 DEF AtMostOne, None
  <2> QED
    BY <2>1, <2>2
<1>3. /\ AtMostOne(Tokens) => AtMostOne(Tokens)' /\ (None(Tokens) => None(Tokens)')
      /\ AtMostOne({"on"}) => AtMostOne({"on"})' /\ (None({"on"}) => None({"on"})')
  BY <1>2 DEF Tokens
<1>4. /\ None(Tokens) => None(Tokens)'
      /\ None({"on"}) => None({"on"})'
  BY <1>2 DEF Tokens
<1> QED
  BY <1>1, <1>3, <1>4 DEF FlowInv, Setup

\* The steps by which a session gets under way.
LEMMA SetupFlow ==
  ASSUME FlowInv, RadioInv', Open \/ Startup \/ init_radio \/ Validated
  PROVE  FlowInv'
<1>1. setup' = setup /\ (RNode' <=> RNode) /\ RadioInv
  BY DEF Open, Startup, init_radio, Validated, FlowInv, RNode
<1>2. CASE Open
  <2>1. Range(<<>>) = {}
    BY ShortLine
  <2> QED
    BY <1>2, <2>1 DEF Open, FlowInv, Setup, None
<1>3. CASE Startup
  <2>1. CASE ~RNode'
    BY <2>1, FlowElsewhere
  <2>2. CASE RNode'
    <3>1. at = "startup" /\ at' = "detect" /\ UNCHANGED <<in, tx>>
      BY <1>1, <1>3, <2>2 DEF Startup, RNode
    <3>2. Range(out') \subseteq {"detect"}
      BY <3>1 DEF RadioInv, Early
    <3> QED
      BY <1>1, <2>2, <3>1, <3>2 DEF FlowInv, Setup, None, Tokens
  <2> QED
    BY <2>1, <2>2
<1>4. CASE init_radio
  <2>1. /\ at = "init" /\ at' = "validate" /\ UNCHANGED <<in, tx, st>>
        /\ out' = out \o InitCommands
    BY <1>4 DEF init_radio, Write
  <2>2. /\ RNode /\ Range(out) \subseteq {"detect"} /\ st.reported = {}
        /\ Range(in) \cap {"on"} = {} /\ out \in Seq(Commands) /\ in \in Seq(Reports)
    BY <1>1, <2>1 DEF RadioInv, SerialType, Early
  <2>3. /\ InitCommands \in Seq(Commands) /\ Once({"on"}, InitCommands)
        /\ Range(InitCommands) \subseteq Settings \cup Limits \cup {"on", "off"}
    BY InitLine
  <2>4. Range(out') \subseteq {"detect", "on", "off"} \cup Settings \cup Limits
    BY <2>1, <2>2, <2>3, ConcatCommands
  <2>5. Once({"on"}, out \o InitCommands)
    BY <2>2, <2>3, OnceConcat
  <2>6. Once({"on"}, in)
    BY <2>2, OnceNone
  <2>7. AtMostOne({"on"})'
    BY <2>1, <2>2, <2>5, <2>6 DEF AtMostOne
  <2>8. None(Tokens)' /\ tx' = "off"
    BY <2>1, <2>2, <2>4, SerialAssumption DEF FlowInv, Setup, None, Tokens
  <2> QED
    BY <2>1, <2>2, <2>7, <2>8 DEF FlowInv, Setup
<1>5. CASE Validated
  <2>1. /\ at = "validate" /\ at' = "up" /\ tx' = "check" /\ "on" \in st.reported
        /\ UNCHANGED <<out, in>>
    BY <1>5 DEF Validated, radio_matches, line
  <2>2. RNode => None(Tokens) /\ None({"on"})
    BY <2>1 DEF FlowInv, Setup
  <2>3. RNode => None(Tokens)' /\ None({"on"})' /\ AtMostOne(Tokens)'
    BY <1>1, <2>1, <2>2, NoneOnce DEF None, AtMostOne
  <2> QED
    BY <1>1, <2>1, <2>3 DEF FlowInv, Setup
<1> QED
  BY <1>2, <1>3, <1>4, <1>5

\* A packet is written when no token is under way.
LEMMA WriteFlow ==
  ASSUME FlowInv, RadioInv', RNodeWrites
  PROVE  FlowInv'
<1> DEFINE d == <<"data">>
<1>1. /\ UNCHANGED <<setup, at, st, in>> /\ tx = "sending" /\ tx' = "check"
      /\ RadioInv /\ (RNode' <=> RNode) /\ out' = out \o d
  BY DEF RNodeWrites, Write, FlowInv, RNode, flow
<1>2. out \in Seq(Commands) /\ in \in Seq(Reports) /\ "data" \in Commands
  BY <1>1 DEF RadioInv, SerialType, Commands
<1>3. d \in Seq(Commands) /\ Range(d) = {"data"} /\ Once(Tokens, d)
  <2>1. Once(Tokens, d)
    BY DEF Once
  <2> QED
    BY <1>2, <2>1, ShortLine
<1> HIDE DEF d
<1>4. RNode => ~Setup
  BY <1>1 DEF FlowInv
<1>5. ASSUME RNode, setup.flow, at = "up"
      PROVE  None({"on"})' /\ AtMostOne(Tokens)' /\ ~st.ready
  <2>1. None({"on"}) /\ None(Tokens) /\ ~st.ready
    BY <1>1, <1>5 DEF FlowInv
  <2>2. Range(out') = Range(out) \cup {"data"}
    BY <1>1, <1>2, <1>3, ConcatCommands
  <2>3. Once(Tokens, out \o d) /\ Once(Tokens, in)
    BY <1>2, <1>3, <2>1, OnceConcat, OnceNone DEF None
  <2> QED
    BY <1>1, <2>1, <2>2, <2>3 DEF None, AtMostOne
<1> QED
  BY <1>1, <1>4, <1>5 DEF FlowInv, Setup

\* Every step of the specification.
LEMMA NextFlow == FlowInv /\ [Next]_vars => FlowInv'
<1> SUFFICES ASSUME FlowInv, [Next]_vars PROVE FlowInv'
  OBVIOUS
<1>1. RadioInv'
  BY NextRadio DEF FlowInv
<1> QED
  BY <1>1, SpawnFlow, TaskFlow, DeviceFlow, ReportFlow, FaultFlow, SetupFlow, WriteFlow
  DEF Next, SpawnStep, RxStep, TxStep, TxTakes

\* With flow control an RNode is handed one packet at a time: no other is
\* written between a packet and its READY (send_packet, tx_loop).
THEOREM OnePacketOutstanding == Spec => []OneOutstanding
<1>1. FlowInv => OneOutstanding
  <2> SUFFICES ASSUME FlowInv, RNode, setup.flow, at = "up",
                      NEW i \in 1..Len(out \o in), NEW j \in 1..Len(out \o in),
                      {(out \o in)[i], (out \o in)[j]} \subseteq {"data", "ready"}
               PROVE  i = j
    BY DEF OneOutstanding
  <2> DEFINE T == Commands \cup Reports
  <2>1. AtMostOne(Tokens) /\ out \in Seq(Commands) /\ in \in Seq(Reports)
    BY DEF FlowInv, RadioInv, SerialType
  <2>2. out \in Seq(T) /\ in \in Seq(T)
    BY <2>1, SeqMonotonic
  <2> HIDE DEF T
  <2>3. Once(Tokens, out \o in)
    BY <2>1, <2>2, OnceConcat DEF AtMostOne
  <2> QED
    BY <2>3 DEF Once, Tokens
<1> QED
  BY <1>1, InitFlow, NextFlow, PTL DEF Spec
=============================================================================
