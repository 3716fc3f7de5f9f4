----------------------------- MODULE BootProofs -----------------------------
(***************************************************************************)
(* Proofs about Boot, for every number of fabrics, every timeout and any   *)
(* of the faults.                                                          *)
(***************************************************************************)
EXTENDS Boot, TLAPS

-----------------------------------------------------------------------------
(* The event queue *)

In(q, e) == \E i \in DOMAIN q : q[i] = e

\* kServerReady is posted once a boot, before any other event.
ReadyFirst(q) == \A i \in DOMAIN q : q[i] = "serverReady" => i = 1

\* A handled event is gone, and with kServerReady the last of its kind.
LEMMA HandledEvent ==
  ASSUME NEW q \in Seq(Events), q # <<>>
  PROVE  /\ Head(q) \in Events /\ Tail(q) \in Seq(Events)
         /\ In(q, Head(q))
         /\ \A e : In(Tail(q), e) => In(q, e)
         /\ \A e : In(q, e) => e = Head(q) \/ In(Tail(q), e)
         /\ ReadyFirst(q) => ~In(Tail(q), "serverReady")
         /\ ~In(Tail(q), "serverReady") => ReadyFirst(Tail(q))
<1>1. /\ Head(q) \in Events /\ Tail(q) \in Seq(Events) /\ Head(q) = q[1]
      /\ DOMAIN q = 1..Len(q) /\ Len(q) \in Nat \ {0}
      /\ DOMAIN Tail(q) = 1..(Len(q) - 1)
      /\ \A i \in 1..(Len(q) - 1) : Tail(q)[i] = q[i + 1]
  OBVIOUS
<1>2. ASSUME NEW e, In(Tail(q), e) PROVE \E i \in 2..Len(q) : q[i] = e
  BY <1>1, <1>2 DEF In
<1>3. ASSUME NEW e, In(q, e), e # Head(q) PROVE In(Tail(q), e)
  <2>1. PICK i \in 1..Len(q) : q[i] = e
    BY <1>1, <1>3 DEF In
  <2>2. i - 1 \in 1..(Len(q) - 1) /\ Tail(q)[i - 1] = e
    BY <1>1, <1>3, <2>1
  <2> QED
    BY <1>1, <2>2 DEF In
<1> QED
  BY <1>1, <1>2, <1>3 DEF In, ReadyFirst

\* A posted event comes last.
LEMMA PostedEvent ==
  ASSUME NEW q \in Seq(Events), NEW x \in Events
  PROVE  /\ Append(q, x) \in Seq(Events)
         /\ \A e : In(Append(q, x), e) <=> In(q, e) \/ e = x
         /\ x # "serverReady" /\ ReadyFirst(q) => ReadyFirst(Append(q, x))
<1>1. /\ Append(q, x) \in Seq(Events) /\ Len(q) \in Nat
      /\ DOMAIN q = 1..Len(q) /\ DOMAIN Append(q, x) = 1..(Len(q) + 1)
      /\ Append(q, x)[Len(q) + 1] = x
      /\ \A i \in 1..Len(q) : Append(q, x)[i] = q[i]
  OBVIOUS
<1> QED
  BY <1>1 DEF In, ReadyFirst

\* Between boots the queue is empty; a boot's first event is kServerReady.
LEMMA FewEvents ==
  /\ <<>> \in Seq(Events) /\ <<"serverReady">> \in Seq(Events)
  /\ \A e : ~In(<<>>, e)
  /\ \A e : In(<<"serverReady">>, e) <=> e = "serverReady"
  /\ ReadyFirst(<<>>) /\ ReadyFirst(<<"serverReady">>)
BY DEF In, ReadyFirst, Events

-----------------------------------------------------------------------------
(* Type correctness *)

\* Nothing runs before the stack is started.
NothingYet ==
  main = "create" => window = 0 /\ joining = 0 /\ bits = {} /\ queue = <<>>

\* Of several attempts to join one is under way at a time, and it began with a
\* place in the fabric table.
TypeInv ==
  TypeOK /\ (joining > 0 => fabrics < MaxFabrics) /\ (added => joining > 0) /\ NothingYet

Waits == 0..GuardTicks \union 0..CodesTicks \union 0..ServerTicks

LEMMA InitTypeInv == Init => TypeInv
<1> SUFFICES ASSUME Init PROVE TypeInv
  OBVIOUS
<1>1. wait \in Waits
  BY BootAssumption DEF Init, Waits
<1>2. had \in BOOLEAN
  BY BootAssumption DEF Init
<1>3. /\ main \in MainAt /\ bits \subseteq Bits /\ queue \in Seq(Events)
      /\ fabrics \in 0..MaxFabrics /\ printed \in {"none", "empty", "codes"}
      /\ on \in BOOLEAN /\ shown \in Colors /\ failed \subseteq Failures
      /\ codes = FALSE /\ added = FALSE
  BY FewEvents DEF Init, MainAt, Colors
<1>4. window \in 0..WindowTicks /\ joining \in 0..FailSafeTicks /\ ~(joining > 0)
  BY BootAssumption DEF Init
<1>5. NothingYet
  BY DEF Init, NothingYet
<1> QED
  BY <1>1, <1>2, <1>3, <1>4, <1>5 DEF TypeInv, TypeOK, Waits

LEMMA RestartType ==
  ASSUME NEW f \in 0..MaxFabrics, NEW o \in BOOLEAN, Restart(f, o)
  PROVE  TypeInv'
<1>1. wait' \in Waits
  BY BootAssumption DEF Restart, Waits
<1>2. had' \in BOOLEAN
  BY BootAssumption DEF Restart
<1>3. /\ main' \in MainAt /\ bits' \subseteq Bits /\ queue' \in Seq(Events)
      /\ fabrics' \in 0..MaxFabrics /\ printed' \in {"none", "empty", "codes"}
      /\ on' \in BOOLEAN /\ shown' \in Colors /\ failed' \subseteq Failures
      /\ codes' = FALSE /\ added' = FALSE
  BY FewEvents DEF Restart, MainAt, Colors
<1>4. window' \in 0..WindowTicks /\ joining' \in 0..FailSafeTicks /\ ~(joining' > 0)
  BY BootAssumption DEF Restart
<1>5. NothingYet'
  BY DEF Restart, NothingYet
<1> QED
  BY <1>1, <1>2, <1>3, <1>4, <1>5 DEF TypeInv, TypeOK, Waits

LEMMA OpenWindowType ==
  ASSUME TypeInv, queue # <<>>, OpenWindow(Tail(queue))
  PROVE  /\ window' \in 0..WindowTicks /\ queue' \in Seq(Events)
         /\ failed' \subseteq Failures
<1>1. queue \in Seq(Events)
  BY DEF TypeInv, TypeOK
<1>2. Tail(queue) \in Seq(Events)
  BY <1>1, HandledEvent
<1>3. Append(Tail(queue), "opened") \in Seq(Events)
  BY <1>2, PostedEvent DEF Events
<1>4. failed' \subseteq Failures
  BY DEF OpenWindow, TypeInv, TypeOK, Failures
<1> QED
  BY <1>2, <1>3, <1>4, BootAssumption DEF OpenWindow, TypeInv, TypeOK

LEMMA MainType == ASSUME TypeInv, Main PROVE TypeInv'
<1> USE BootAssumption DEF TypeInv, TypeOK, NothingYet, MainAt, Colors, Shared
<1>0. ASSUME Reboot PROVE TypeInv'
  BY <1>0, RestartType DEF Reboot
<1>1. CASE StartStack
  BY <1>1, FewEvents DEF StartStack
<1>2. CASE Setup
  BY <1>2 DEF Setup, LightColor
<1>3. CASE Check
  BY <1>3 DEF Check
<1>4. CASE PrintCodes
  BY <1>4 DEF PrintCodes
<1>5. CASE Commissioned \/ GuardExpires \/ Off
  BY <1>5 DEF Commissioned, GuardExpires, Off
<1>6. CASE AwaitServer \/ Ready
  BY <1>6 DEF AwaitServer, Ready
<1> QED
  BY <1>0, <1>1, <1>2, <1>3, <1>4, <1>5, <1>6 DEF Main

LEMMA ChipType == ASSUME TypeInv, Chip PROVE TypeInv'
<1>1. queue # <<>> /\ Tail(queue) \in Seq(Events)
  BY HandledEvent DEF TypeInv, TypeOK, Chip, OnServerReady, OnWindowOpened,
     OnCommissioningComplete, OnFabricRemoved
<1>2. bits' \subseteq Bits
  BY DEF TypeInv, TypeOK, Bits, Chip, OnServerReady, OnWindowOpened,
     OnCommissioningComplete, OnFabricRemoved
<1>3. window' \in 0..WindowTicks /\ queue' \in Seq(Events)
      /\ codes' \in BOOLEAN /\ failed' \subseteq Failures
  BY <1>1, OpenWindowType DEF TypeInv, TypeOK, Failures, Chip, OnServerReady,
     OnWindowOpened, OnCommissioningComplete, OnFabricRemoved
<1>4. UNCHANGED Others
  BY DEF Chip, OnServerReady, OnWindowOpened, OnCommissioningComplete, OnFabricRemoved
<1>5. main # "create"
  BY <1>1 DEF TypeInv, NothingYet
<1> QED
  BY <1>2, <1>3, <1>4, <1>5 DEF Others, TypeInv, TypeOK, NothingYet

LEMMA ControllersType == ASSUME TypeInv, Controllers PROVE TypeInv'
<1>1. /\ main # "create" /\ queue \in Seq(Events)
      /\ \A e \in Events : Append(queue, e) \in Seq(Events)
  BY PostedEvent DEF Controllers, TypeInv, TypeOK
<1>2. queue' \in Seq(Events)
  BY <1>1 DEF Controllers, Share, JoinStarts, AddFabric, JoinCompletes, JoinFails,
     Revert, RemoveFabric, Events
<1>3. /\ window' \in 0..WindowTicks /\ joining' \in 0..FailSafeTicks
      /\ fabrics' \in 0..MaxFabrics /\ (joining' > 0 => fabrics' < MaxFabrics)
  BY BootAssumption DEF Controllers, Share, JoinStarts, AddFabric, JoinCompletes,
     JoinFails, RemoveFabric, TypeInv, TypeOK
<1>5. added' \in BOOLEAN /\ (added' => joining' > 0)
  <2>1. added \in BOOLEAN /\ (added => joining > 0)
    BY DEF TypeInv, TypeOK
  <2>2. CASE Share \/ RemoveFabric
    BY <2>1, <2>2 DEF Share, RemoveFabric
  <2>3. CASE JoinStarts
    <3>1. joining = 0 /\ added' = added
      BY <2>3 DEF JoinStarts
    <3> QED
      BY <2>1, <3>1
  <2>4. CASE AddFabric
    BY <2>4 DEF AddFabric
  <2>5. CASE JoinCompletes \/ JoinFails
    BY <2>5 DEF JoinCompletes, JoinFails, Revert
  <2> QED
    BY <2>2, <2>3, <2>4, <2>5 DEF Controllers
<1>4. /\ UNCHANGED <<main, wait, bits, codes, printed, on, shown>>
      /\ had' \in BOOLEAN /\ failed' \subseteq Failures
  BY DEF Controllers, Share, JoinStarts, AddFabric, JoinCompletes, JoinFails, Revert,
     RemoveFabric, Idle, TypeInv, TypeOK, Failures
<1> QED
  BY <1>1, <1>2, <1>3, <1>4, <1>5 DEF TypeInv, TypeOK, NothingYet

LEMMA NextTypeInv == TypeInv /\ [Next]_vars => TypeInv'
<1> SUFFICES ASSUME TypeInv, [Next]_vars PROVE TypeInv'
  OBVIOUS
<1>1. CASE Main
  BY <1>1, MainType
<1>2. CASE Chip
  BY <1>2, ChipType
<1>3. CASE Controllers
  BY <1>3, ControllersType
<1>4. CASE Switch
  BY <1>4 DEF Switch, Idle, LightColor, Colors, TypeInv, TypeOK, NothingYet
<1>5. CASE Tick
  <2>1. wait' \in Waits /\ window' \in 0..WindowTicks /\ joining' \in 0..FailSafeTicks
        /\ (joining' > 0 => joining > 0)
    BY <1>5, BootAssumption DEF Tick, Down, Waits, TypeInv, TypeOK
  <2>2. /\ queue' \in Seq(Events) /\ failed' \subseteq Failures
        /\ added' \in BOOLEAN /\ (added' => joining' > 0)
    <3>1. Append(queue, "removed") \in Seq(Events) /\ added \in BOOLEAN
          /\ joining \in Nat /\ queue \in Seq(Events) /\ failed \subseteq Failures
          /\ (added => joining > 0)
      BY PostedEvent DEF TypeInv, TypeOK, Events
    <3>2. CASE joining = 1
      <4>1. Revert
        BY <1>5, <3>2 DEF Tick
      <4> QED
        BY <3>1, <4>1 DEF Revert, Failures
    <3>3. CASE joining # 1
      <4>1. UNCHANGED <<added, queue, failed>> /\ joining' = Down(joining)
        BY <1>5, <3>3 DEF Tick
      <4> QED
        BY <3>1, <3>3, <4>1 DEF Down
    <3> QED
      BY <3>2, <3>3
  <2> QED
    BY <1>5, <2>1, <2>2 DEF Tick, Asleep, Waits, TypeInv, TypeOK, NothingYet
<1>6. CASE CreateFails \/ PowerCycle \/ FactoryReset
  <2>1. fabrics \in 0..MaxFabrics /\ 0 \in 0..MaxFabrics /\ on \in BOOLEAN /\ FALSE \in BOOLEAN
    BY BootAssumption DEF TypeInv, TypeOK
  <2>2. Restart(fabrics, on) \/ Restart(0, FALSE)
    BY <1>6 DEF CreateFails, PowerCycle, FactoryReset
  <2> QED
    BY <2>1, <2>2, RestartType
<1>7. CASE UNCHANGED vars
  BY <1>7 DEF vars, TypeInv, TypeOK, NothingYet
<1> QED
  BY <1>1, <1>2, <1>3, <1>4, <1>5, <1>6, <1>7 DEF Next

\* Whatever happens between power-up and a commissioned light, the fabric table
\* does not overflow and no count of ticks leaves its range.
THEOREM TypeCorrect == Spec => []TypeOK
<1>1. TypeInv => TypeOK
  BY DEF TypeInv
<1> QED
  BY <1>1, InitTypeInv, NextTypeInv, PTL DEF Spec

-----------------------------------------------------------------------------
(* The steps that touch the queue *)

\* What matter_event_cb leaves in the queue: the events behind the one it
\* handled and, where it opened the window, that it is open.
LEMMA ChipQueue ==
  ASSUME TypeInv, Chip
  PROVE  /\ queue # <<>> /\ In(queue, Head(queue))
         /\ \A e \in Events \ {"opened"} : In(queue', e) => In(queue, e)
         /\ \A e : In(queue, e) => e = Head(queue) \/ In(queue', e)
         /\ In(queue', "opened") =>
              In(queue, "opened") \/ (window = 0 /\ window' = WindowTicks)
         /\ ReadyFirst(queue) => ReadyFirst(queue') /\ ~In(queue', "serverReady")
         /\ Head(queue) \in {"serverReady", "opened", "complete", "removed"}
<1> DEFINE rest == Tail(queue)
<1>1. queue # <<>> /\ queue \in Seq(Events)
  BY DEF TypeInv, TypeOK, Chip, OnServerReady, OnWindowOpened,
     OnCommissioningComplete, OnFabricRemoved
<1>2. /\ rest \in Seq(Events) /\ In(queue, Head(queue)) /\ Head(queue) \in Events
      /\ \A e : In(rest, e) => In(queue, e)
      /\ \A e : In(queue, e) => e = Head(queue) \/ In(rest, e)
      /\ ReadyFirst(queue) => ~In(rest, "serverReady") /\ ReadyFirst(rest)
  BY <1>1, HandledEvent
<1>3. \/ queue' = rest
      \/ queue' = Append(rest, "opened") /\ window = 0 /\ window' = WindowTicks
  BY DEF Chip, OnServerReady, OnWindowOpened, OnCommissioningComplete,
     OnFabricRemoved, OpenWindow
<1>4. /\ \A e : In(Append(rest, "opened"), e) <=> In(rest, e) \/ e = "opened"
      /\ ReadyFirst(rest) => ReadyFirst(Append(rest, "opened"))
  BY <1>2, PostedEvent DEF Events
<1> HIDE DEF rest
<1> QED
  BY <1>1, <1>2, <1>3, <1>4 DEF Events

\* Asked to open the window the device has it open, or has an event to come, or
\* notes the failure.
LEMMA OpenedOrFailed ==
  ASSUME TypeInv, queue # <<>>, OpenWindow(Tail(queue))
  PROVE  /\ In(queue', "opened") \/ "open" \in failed' \/ window > 0
         /\ In(queue', "opened") \/ window' = window
<1>1. Tail(queue) \in Seq(Events)
  BY HandledEvent DEF TypeInv, TypeOK
<1>2. In(Append(Tail(queue), "opened"), "opened")
  BY <1>1, PostedEvent DEF Events
<1>3. window # 0 => window > 0
  BY DEF TypeInv, TypeOK
<1>4. \/ queue' = Append(Tail(queue), "opened")
      \/ window' = window /\ ("open" \in failed' \/ window # 0)
  BY DEF OpenWindow
<1> QED
  BY <1>2, <1>3, <1>4, Zenon

\* A controller posts at most one event, and so does the end of a join.
LEMMA PostQueue ==
  ASSUME TypeInv, NEW x \in Events \ {"serverReady"}
  PROVE  /\ \A e : In(Append(queue, x), e) <=> In(queue, e) \/ e = x
         /\ ReadyFirst(queue) => ReadyFirst(Append(queue, x))
BY PostedEvent DEF TypeInv, TypeOK

LEMMA ControllersQueue ==
  ASSUME TypeInv, Controllers \/ Tick
  PROVE  /\ \A e : In(queue, e) => In(queue', e)
         /\ ReadyFirst(queue) => ReadyFirst(queue')
         /\ In(queue', "serverReady") => In(queue, "serverReady")
<1>1. queue' \in {queue} \union {Append(queue, x) : x \in Events \ {"serverReady"}}
  BY DEF Controllers, Tick, Share, JoinStarts, AddFabric, JoinCompletes, JoinFails,
     Revert, RemoveFabric, Events
<1>2. ASSUME NEW x \in Events \ {"serverReady"}
      PROVE  /\ \A e : In(queue, e) => In(Append(queue, x), e)
             /\ ReadyFirst(queue) => ReadyFirst(Append(queue, x))
             /\ In(Append(queue, x), "serverReady") => In(queue, "serverReady")
  BY PostQueue
<1> QED
  BY <1>1, <1>2

\* Only the end of a join with its fabric in the table posts by reverting it.
LEMMA RevertQueue ==
  ASSUME TypeInv, Revert
  PROVE  /\ failed \subseteq failed'
         /\ In(queue', "removed") => In(queue, "removed") \/ "join" \in failed'
         /\ \A e : e # "removed" /\ In(queue', e) => In(queue, e)
<1>1. \/ UNCHANGED <<queue, failed>>
      \/ queue' = Append(queue, "removed") /\ failed' = failed \union {"join"}
  BY DEF Revert
<1>2. \A e : In(Append(queue, "removed"), e) <=> In(queue, e) \/ e = "removed"
  BY PostQueue DEF Events
<1> QED
  BY <1>1, <1>2

-----------------------------------------------------------------------------
(* A fabric behind every success *)

\* Once a fabric has been in NVS the device remembers it had one.  Only then is
\* there an event of a completed commissioning for matter_event_cb to find, and
\* one of a fabric removed only then or when a join was reverted.  Until
\* kServerReady is handled a device without a fabric has no window to join in.
FabricInv ==
  /\ ReadyFirst(queue)
  /\ fabrics > 0 => had
  /\ In(queue, "complete") => had
  /\ In(queue, "removed") => had \/ "join" \in failed
  /\ ~had /\ In(queue, "serverReady") => window = 0 /\ joining = 0
  /\ BitMeansFabric

LEMMA RestartFabricInv ==
  ASSUME NEW f, NEW o, Restart(f, o) PROVE FabricInv'
BY FewEvents DEF Restart, FabricInv, BitMeansFabric

LEMMA NextFabricInv == TypeInv /\ FabricInv /\ [Next]_vars => FabricInv'
<1> SUFFICES ASSUME TypeInv, FabricInv, [Next]_vars PROVE FabricInv'
  OBVIOUS
<1> USE DEF FabricInv, BitMeansFabric
<1>t. /\ window \in Nat /\ joining \in Nat /\ fabrics \in Nat
      /\ (added => joining > 0) /\ added \in BOOLEAN
      /\ main = "create" => window = 0 /\ joining = 0
  BY BootAssumption DEF TypeInv, TypeOK, NothingYet
<1>1. CASE Main
  <2>1. CASE Reboot
    BY <2>1, RestartFabricInv DEF Reboot
  <2>2. CASE StartStack
    BY <1>t, <2>2, FewEvents DEF StartStack
  <2>3. CASE ~Reboot /\ ~StartStack
    BY <1>1, <2>3 DEF Main, Setup, Check, PrintCodes, Commissioned,
       GuardExpires, Off, AwaitServer, Ready, Shared
  <2> QED
    BY <2>1, <2>2, <2>3
<1>2. CASE Chip
  <2>1. /\ In(queue', "complete") => In(queue, "complete")
        /\ In(queue', "removed") => In(queue, "removed")
        /\ In(queue, Head(queue))
        /\ ReadyFirst(queue') /\ ~In(queue', "serverReady")
    BY <1>2, ChipQueue DEF Events
  <2>2. "commissioned" \in bits' =>
          \/ "commissioned" \in bits \/ fabrics > 0 \/ Head(queue) = "complete"
          \/ Head(queue) = "serverReady" /\ added
    BY <1>2, <1>t DEF Chip, OnServerReady, OnWindowOpened, OnCommissioningComplete,
       OnFabricRemoved, FabricCount
  <2>3. UNCHANGED <<main, fabrics, had>> /\ ("join" \in failed => "join" \in failed')
    BY <1>2 DEF Chip, OnServerReady, OnWindowOpened, OnCommissioningComplete,
       OnFabricRemoved, OpenWindow, Others
  <2>4. "commissioned" \in bits' => had
    BY <1>t, <2>1, <2>2
  <2> QED
    BY <2>1, <2>3, <2>4
<1>3. CASE Controllers
  <2>1. UNCHANGED <<main, bits>>
    BY <1>3 DEF Controllers, Share, JoinStarts, AddFabric, JoinCompletes, JoinFails,
       RemoveFabric, Idle
  <2>2. ReadyFirst(queue') /\ (In(queue', "serverReady") => In(queue, "serverReady"))
    BY <1>3, ControllersQueue
  <2>3. CASE JoinCompletes
    BY <2>1, <2>2, <2>3 DEF JoinCompletes
  <2>4. CASE Share \/ RemoveFabric
    <3>1. had /\ had' = had
      BY <2>4 DEF Share, RemoveFabric
    <3> QED
      BY <2>1, <2>2, <3>1
  <2>5. CASE JoinStarts \/ AddFabric
    BY <1>t, <2>1, <2>2, <2>5 DEF JoinStarts, AddFabric
  <2>6. CASE JoinFails
    BY <2>1, <2>2, <2>6, RevertQueue DEF JoinFails
  <2> QED
    BY <1>3, <2>3, <2>4, <2>5, <2>6 DEF Controllers
<1>4. CASE Switch
  BY <1>4 DEF Switch, Idle
<1>5. CASE Tick
  <2>1. queue = <<>> /\ UNCHANGED <<main, bits, fabrics, had>>
    BY <1>5 DEF Tick
  <2>2. ReadyFirst(queue') /\ ~In(queue', "serverReady")
    BY <1>5, <2>1, ControllersQueue, FewEvents
  <2>3. Revert \/ UNCHANGED <<queue, failed>>
    BY <1>5 DEF Tick
  <2> QED
    BY <2>1, <2>2, <2>3, RevertQueue
<1>6. CASE CreateFails \/ PowerCycle \/ FactoryReset
  BY <1>6, RestartFabricInv DEF CreateFails, PowerCycle, FactoryReset
<1>7. CASE UNCHANGED vars
  BY <1>7 DEF vars
<1> QED
  BY <1>1, <1>2, <1>3, <1>4, <1>5, <1>6, <1>7 DEF Next

\* The green light is only for a device that has, or had, a fabric.
THEOREM SuccessMeansFabric == Spec => []BitMeansFabric
<1>1. Init => FabricInv
  BY FewEvents DEF Init, FabricInv, BitMeansFabric
<1>2. FabricInv => BitMeansFabric
  BY DEF FabricInv
<1> QED
  BY <1>1, <1>2, InitTypeInv, NextTypeInv, NextFabricInv, PTL DEF Spec

-----------------------------------------------------------------------------
(* Codes before the wait for a commissioner *)

\* The window has opened, or failed to, or its opening is queued.
Announced == "codesReady" \in bits \/ "open" \in failed \/ In(queue, "opened")

\* A device without a fabric has its window announced, or an event to handle
\* that will open it; main waits for the codes only then, and the bit it waits
\* for stands for codes unless they were not to be had.
CodesInv ==
  /\ window > 0 \/ joining > 0 => Announced
  /\ main # "create" /\ fabrics = 0 =>
       Announced \/ In(queue, "serverReady") \/ In(queue, "removed")
  /\ main = "codes" => Announced \/ fabrics = 0
  /\ main = "codes" /\ wait = 0 => "codesReady" \in bits \/ "open" \in failed
  /\ "codesReady" \in bits => codes \/ "codes" \in failed
  /\ CodesPrinted

LEMMA RestartCodesInv ==
  ASSUME NEW f, NEW o, Restart(f, o) PROVE CodesInv'
BY FewEvents DEF Restart, CodesInv, CodesPrinted

LEMMA NextCodesInv == TypeInv /\ CodesInv /\ [Next]_vars => CodesInv'
<1> SUFFICES ASSUME TypeInv, CodesInv, [Next]_vars PROVE CodesInv'
  OBVIOUS
<1> USE FewEvents, BootAssumption DEF CodesInv, CodesPrinted, Announced
<1>t. /\ fabrics \in Nat /\ window \in Nat /\ joining \in Nat /\ wait \in Nat
      /\ added \in BOOLEAN /\ codes \in BOOLEAN /\ (added => joining > 0)
  BY DEF TypeInv, TypeOK
<1>1. CASE Main
  <2>1. CASE Reboot
    BY <2>1, RestartCodesInv DEF Reboot
  <2>2. CASE StartStack
    BY <2>2 DEF StartStack, TypeInv, NothingYet
  <2>3. CASE Check
    BY <1>t, <2>3 DEF Check, FabricCount, Shared
  <2>4. CASE PrintCodes
    BY <2>4 DEF PrintCodes, Shared
  <2>5. CASE Setup \/ Commissioned \/ GuardExpires \/ Off \/ AwaitServer \/ Ready
    BY <2>5 DEF Setup, Commissioned, GuardExpires, Off, AwaitServer, Ready, Shared
  <2> QED
    BY <1>1, <2>1, <2>2, <2>3, <2>4, <2>5 DEF Main
<1>2. CASE Chip
  <2>1. /\ \A e : In(queue, e) => e = Head(queue) \/ In(queue', e)
        /\ UNCHANGED <<main, wait, fabrics, joining, printed>>
    BY <1>2, ChipQueue DEF Chip, OnServerReady, OnWindowOpened,
       OnCommissioningComplete, OnFabricRemoved, Others
  <2>2. /\ bits \subseteq bits' /\ failed \subseteq failed'
        /\ Head(queue) = "opened" => "codesReady" \in bits'
        /\ "codesReady" \in bits' => codes' \/ "codes" \in failed'
    BY <1>2 DEF Chip, OnServerReady, OnWindowOpened, OnCommissioningComplete,
       OnFabricRemoved, OpenWindow
  <2>3. Announced => Announced'
    BY <2>1, <2>2
  <2>4. CASE OpenWindow(Tail(queue))
    <3>1. queue # <<>>
      BY <1>2, ChipQueue
    <3>2. Announced'
      BY <2>3, <2>4, <3>1, OpenedOrFailed
    <3> QED
      BY <2>1, <2>2, <3>2
  <2>5. CASE ~OpenWindow(Tail(queue))
    <3>1. /\ UNCHANGED window
          /\ ~(fabrics = 0 /\ ~added /\ Head(queue) \in {"serverReady", "removed"})
      BY <1>2, <2>5 DEF Chip, OnServerReady, OnWindowOpened, OnCommissioningComplete,
         OnFabricRemoved, FabricCount
    <3> QED
      BY <1>t, <2>1, <2>2, <2>3, <3>1
  <2> QED
    BY <2>4, <2>5
<1>3. CASE Controllers
  <2>1. UNCHANGED <<main, wait, bits, codes, printed>> /\ failed \subseteq failed'
    BY <1>3 DEF Controllers, Share, JoinStarts, AddFabric, JoinCompletes, JoinFails,
       Revert, RemoveFabric, Idle
  <2>2. \A e : In(queue, e) => In(queue', e)
    BY <1>3, ControllersQueue
  <2>3. CASE Share
    <3>1. In(queue', "opened")
      BY <2>3, PostQueue DEF Share, Events
    <3> QED
      BY <2>1, <3>1
  <2>4. CASE JoinStarts \/ AddFabric \/ JoinFails
    BY <1>t, <2>1, <2>2, <2>4 DEF JoinStarts, AddFabric, JoinFails
  <2>5. CASE JoinCompletes
    BY <1>t, <2>1, <2>2, <2>5 DEF JoinCompletes
  <2>6. CASE RemoveFabric
    <3>1. In(queue', "removed")
      BY <2>6, PostQueue DEF RemoveFabric, Events
    <3>2. main = "codes" => Announced
      BY <1>t, <2>6 DEF RemoveFabric
    <3> QED
      BY <1>t, <2>1, <2>2, <2>6, <3>1, <3>2 DEF RemoveFabric
  <2> QED
    BY <1>3, <2>3, <2>4, <2>5, <2>6 DEF Controllers
<1>4. CASE Switch
  BY <1>4 DEF Switch, Idle
<1>5. CASE Tick
  <2>1. /\ queue = <<>> /\ Asleep /\ UNCHANGED <<main, bits, codes, fabrics, printed>>
        /\ wait' = Down(wait) /\ window' = Down(window) /\ joining' = Down(joining)
        /\ failed \subseteq failed'
    BY <1>5 DEF Tick, Revert
  <2> QED
    BY <1>t, <2>1 DEF Down, Asleep
<1>6. CASE CreateFails \/ PowerCycle \/ FactoryReset
  BY <1>6, RestartCodesInv DEF CreateFails, PowerCycle, FactoryReset
<1>7. CASE UNCHANGED vars
  BY <1>7 DEF vars
<1> QED
  BY <1>1, <1>2, <1>3, <1>4, <1>5, <1>6, <1>7 DEF Next

\* run_commissioning goes on with empty codes only when the window has failed to
\* open or the stack has failed to give a code.
THEOREM CodesArePrinted == Spec => []CodesPrinted
<1>1. Init => CodesInv
  BY FewEvents DEF Init, CodesInv, CodesPrinted
<1>2. CodesInv => CodesPrinted
  BY DEF CodesInv
<1> QED
  BY <1>1, <1>2, InitTypeInv, NextTypeInv, NextCodesInv, PTL DEF Spec

-----------------------------------------------------------------------------
(* The guard and the first commissioning *)

\* Without a fabric the window opens once a boot, on kServerReady and before the
\* guard starts: what is left of it, and of an attempt begun in it, shrinks with
\* the guard's wait, as long as no join's fabric is removed again.
Elapsed == GuardTicks - wait

GuardInv ==
  /\ ~had /\ In(queue, "serverReady") =>
       /\ "codesReady" \notin bits /\ ~In(queue, "opened")
       /\ ~(main = "codes" /\ wait = 0)
  /\ ~had /\ main = "commission" => ~In(queue, "serverReady")
  /\ ~had /\ main = "commission" /\ "join" \notin failed =>
       /\ wait \in 0..GuardTicks
       /\ window > 0 => window + Elapsed <= WindowTicks
       /\ joining > 0 => joining + Elapsed <= WindowTicks + FailSafeTicks

LEMMA RestartGuardInv ==
  ASSUME NEW f, NEW o, Restart(f, o) PROVE GuardInv'
BY FewEvents DEF Restart, GuardInv

LEMMA NextGuardInv == TypeInv /\ FabricInv /\ GuardInv /\ [Next]_vars => GuardInv'
<1> SUFFICES ASSUME TypeInv, FabricInv, GuardInv, [Next]_vars PROVE GuardInv'
  OBVIOUS
<1>t. /\ window \in 0..WindowTicks /\ joining \in 0..FailSafeTicks /\ wait \in Nat
      /\ fabrics \in Nat /\ (fabrics > 0 => had) /\ had \in BOOLEAN
      /\ WindowTicks \in Nat \ {0} /\ FailSafeTicks \in Nat \ {0}
      /\ CodesTicks \in Nat \ {0} /\ GuardTicks \in Nat
  BY BootAssumption DEF TypeInv, TypeOK, FabricInv
<1>f. ~had /\ In(queue, "serverReady") => window = 0 /\ joining = 0
  BY DEF FabricInv
<1> USE DEF GuardInv, Elapsed
<1>1. CASE Main
  <2>1. CASE Reboot
    BY <2>1, RestartGuardInv DEF Reboot
  <2>2. CASE StartStack
    BY <2>2, FewEvents DEF StartStack, TypeInv, NothingYet
  <2>3. CASE Check
    BY <1>t, <2>3 DEF Check, Shared
  <2>4. CASE PrintCodes
    BY <1>t, <2>4 DEF PrintCodes, Shared
  <2>5. CASE Setup \/ Commissioned \/ GuardExpires \/ Off \/ AwaitServer \/ Ready
    BY <2>5 DEF Setup, Commissioned, GuardExpires, Off, AwaitServer, Ready, Shared
  <2> QED
    BY <1>1, <2>1, <2>2, <2>3, <2>4, <2>5 DEF Main
<1>2. CASE Chip
  <2>1. /\ In(queue, Head(queue)) /\ ~In(queue', "serverReady")
        /\ UNCHANGED <<main, wait, fabrics, joining, had>>
    BY <1>2, ChipQueue DEF FabricInv, Chip, OnServerReady, OnWindowOpened,
       OnCommissioningComplete, OnFabricRemoved, Others
  <2>2. /\ window' = window \/ Head(queue) \in {"serverReady", "removed"}
        /\ failed \subseteq failed'
    BY <1>2 DEF Chip, OnServerReady, OnWindowOpened, OnCommissioningComplete,
       OnFabricRemoved, OpenWindow
  <2>3. ~had /\ main = "commission" /\ "join" \notin failed => window' = window
    BY <2>1, <2>2 DEF FabricInv
  <2> QED
    BY <2>1, <2>2, <2>3
<1>3. CASE Controllers
  <2>1. UNCHANGED <<main, wait, bits>> /\ failed \subseteq failed'
    BY <1>3 DEF Controllers, Share, JoinStarts, AddFabric, JoinCompletes, JoinFails,
       Revert, RemoveFabric, Idle
  <2>2. In(queue', "serverReady") => In(queue, "serverReady")
    BY <1>3, ControllersQueue
  <2>3. CASE Share \/ JoinCompletes \/ RemoveFabric
    <3>1. had'
      BY <1>t, <2>3 DEF Share, JoinCompletes, RemoveFabric
    <3> QED
      BY <3>1
  <2>4. CASE JoinStarts \/ AddFabric
    BY <1>t, <1>f, <2>1, <2>4 DEF JoinStarts, AddFabric
  <2>5. CASE JoinFails
    <3>1. joining > 0 /\ joining' = 0 /\ window' = window /\ had' = had
      BY <2>5 DEF JoinFails
    <3>2. ~had => ~In(queue', "serverReady")
      BY <1>f, <2>2, <3>1
    <3> QED
      BY <1>t, <2>1, <3>1, <3>2
  <2> QED
    BY <1>3, <2>3, <2>4, <2>5 DEF Controllers
<1>4. CASE Switch
  BY <1>4 DEF Switch, Idle
<1>5. CASE Tick
  <2>1. /\ wait' = Down(wait) /\ window' = Down(window) /\ joining' = Down(joining)
        /\ UNCHANGED <<main, bits, had>> /\ failed \subseteq failed' /\ Asleep
    BY <1>5 DEF Tick, Revert
  <2>2. ~In(queue', "serverReady")
    BY <1>5, ControllersQueue, FewEvents DEF Tick
  <2> QED
    BY <1>t, <2>1, <2>2 DEF Down, Asleep
<1>6. CASE CreateFails \/ PowerCycle \/ FactoryReset
  BY <1>6, RestartGuardInv DEF CreateFails, PowerCycle, FactoryReset
<1>7. CASE UNCHANGED vars
  BY <1>7 DEF vars
<1> QED
  BY <1>1, <1>2, <1>3, <1>4, <1>5, <1>6, <1>7 DEF Next

\* A guard no shorter than the window and a fail-safe together (10 minutes, 300 s
\* and less than that) never cuts off the first commissioning of a device, unless
\* the removal of an earlier attempt's fabric opened the window once more.
THEOREM GuardSpares ==
  ASSUME WindowTicks + FailSafeTicks <= GuardTicks
  PROVE  Spec => GuardSparesJoin
<1> DEFINE Spares ==
      main = "commission" /\ main' = "error" => joining = 0 \/ had \/ "join" \in failed
<1>1. Init => FabricInv /\ GuardInv
  BY FewEvents DEF Init, FabricInv, BitMeansFabric, GuardInv
<1>2. ASSUME TypeInv, GuardInv, Next, main = "commission", main' = "error", ~had,
             "join" \notin failed
      PROVE  joining = 0
  <2>1. GuardExpires
    BY <1>2 DEF Next, Main, StartStack, Setup, Check, PrintCodes, Commissioned,
       GuardExpires, Reboot, Off, AwaitServer, Ready, Chip, OnServerReady, OnWindowOpened,
       OnCommissioningComplete, OnFabricRemoved, Others, Controllers, Share, JoinStarts, AddFabric,
       JoinCompletes, JoinFails, RemoveFabric, Idle, Switch, Tick, CreateFails, PowerCycle,
       FactoryReset, Restart
  <2>2. wait = 0
    BY <2>1 DEF GuardExpires
  <2>3. joining > 0 => joining + GuardTicks <= WindowTicks + FailSafeTicks
    BY <1>2, <2>2, BootAssumption DEF GuardInv, Elapsed
  <2> QED
    BY <1>2, <2>3, BootAssumption DEF TypeInv, TypeOK
<1>3. TypeInv /\ GuardInv /\ [Next]_vars => [Spares]_vars
  BY <1>2
<1>4. Spec => [][Spares]_vars
  BY <1>1, <1>3, InitTypeInv, NextTypeInv, NextFabricInv, NextGuardInv, PTL DEF Spec
<1> QED
  BY <1>4 DEF GuardSparesJoin

=============================================================================
