-------------------------------- MODULE Boot --------------------------------
(***************************************************************************)
(* From power-up to a commissioned light: app_main and run_commissioning   *)
(* (main/app_main.cpp) on the main task, matter_event_cb and the           *)
(* commissioning window (main/matter_setup.cpp) on the CHIP task, and the  *)
(* two event groups between them.                                          *)
(*                                                                         *)
(* The stack posts events and the CHIP task handles them in order, so a    *)
(* handler may find that the fabric table or the window has moved on.      *)
(* Time is a count of ticks (30 s in the code's numbers): main waits with  *)
(* a timeout, the window closes by itself, and an attempt to join is over  *)
(* when the fail-safe expires.  A tick passes only when nobody has a step  *)
(* to take: both tasks are that much faster than 30 s.                     *)
(***************************************************************************)
EXTENDS Integers, Sequences

CONSTANTS
  WindowTicks,    \* COMMISSIONING_WINDOW_TIMEOUT_S; 300 s
  CodesTicks,     \* the wait of matter_get_pairing_codes; 30 s
  GuardTicks,     \* the guard of run_commissioning; 10 minutes
  ServerTicks,    \* app_main's wait for kServerReady; 30 s
  FailSafeTicks,  \* longest an attempt to join may last (the controller's)
  MaxFabrics,     \* bound: fabrics in the table
  MaxQueue,       \* bound: events posted and not handled
  Faults          \* "create": the node or the endpoint is not created; "open":
                  \* the window fails to open; "codes": a code is not to be had;
                  \* "lost": the event of a completed commissioning is lost;
                  \* "removal": a fabric is removed

ASSUME BootAssumption ==
  /\ WindowTicks \in Nat \ {0} /\ CodesTicks \in Nat \ {0} /\ GuardTicks \in Nat
  /\ ServerTicks \in Nat /\ FailSafeTicks \in Nat \ {0}
  /\ MaxFabrics \in Nat /\ MaxQueue \in Nat \ {0}
  /\ Faults \subseteq {"create", "open", "codes", "lost", "removal"}

VARIABLES
  main,      \* where the main task is
  wait,      \* ticks left of main's wait
  bits,      \* the bits set in g_boot_events and s_matter_events
  queue,     \* events posted to matter_event_cb
  codes,     \* both pairing codes are in their buffers
  fabrics,   \* fabrics committed to NVS
  added,     \* the fabric of the joining controller is in the table as well
  window,    \* ticks the commissioning window stays open; 0 is closed
  joining,   \* ticks left of a commissioning under way; 0 is none
  printed,   \* the codes run_commissioning logged: "none", "empty" or "codes"
  on,        \* the light's stored OnOff
  shown,     \* what the LED shows
  had,       \* history: NVS has held a fabric at some time since the boot
  failed     \* history: what has failed since the boot: the window to "open",
             \* the "codes" to be had, a "join" whose fabric was reverted

vars == <<main, wait, bits, queue, codes, fabrics, added, window, joining, printed,
          on, shown, had, failed>>

\* "create" and "setup" are matter_setup up to the start of the stack and its
\* restore, "check" asks matter_is_commissioned,
\* "codes", "commission" and "server" are waits, "error" is the red LED before
\* esp_restart, and "green" and "black" are the two colours of STATUS_LED_OK.
MainAt == {"create", "setup", "check", "codes", "commission", "error", "green",
           "black", "server", "done"}
Bits   == {"commissioned", "serverReady", "codesReady"}
Events == {"serverReady", "opened", "complete", "removed"}
Colors == {"black", "light", "blue", "green", "red"}
Failures == {"open", "codes", "join"}

TypeOK ==
  /\ main \in MainAt
  /\ wait \in 0..GuardTicks \union 0..CodesTicks \union 0..ServerTicks
  /\ bits \subseteq Bits
  /\ queue \in Seq(Events)
  /\ fabrics \in 0..MaxFabrics
  /\ window \in 0..WindowTicks
  /\ joining \in 0..FailSafeTicks
  /\ printed \in {"none", "empty", "codes"}
  /\ on \in BOOLEAN
  /\ shown \in Colors
  /\ codes \in BOOLEAN /\ added \in BOOLEAN
  /\ had \in BOOLEAN /\ failed \subseteq Failures

LightColor(o) == IF o THEN "light" ELSE "black"

\* FabricTable::FabricCount: a fabric counts from the moment it is added, before
\* the end of its commissioning commits it.
FabricCount == fabrics + (IF added THEN 1 ELSE 0)

-----------------------------------------------------------------------------
(* Power-up: all but the fabric table and the attributes starts anew *)

Restart(f, o) ==
  /\ main' = "create" /\ wait' = 0 /\ bits' = {} /\ queue' = <<>>
  /\ fabrics' = f /\ window' = 0 /\ joining' = 0 /\ printed' = "none"
  /\ codes' = FALSE /\ added' = FALSE
  /\ on' = o /\ shown' = "black" /\ had' = (f > 0) /\ failed' = {}

Init ==
  /\ main = "create" /\ wait = 0 /\ bits = {} /\ queue = <<>>
  /\ fabrics \in 0..MaxFabrics /\ window = 0 /\ joining = 0 /\ printed = "none"
  /\ codes = FALSE /\ added = FALSE
  /\ on \in BOOLEAN /\ shown = "black" /\ had = (fabrics > 0) /\ failed = {}

PowerCycle == Restart(fabrics, on)

\* matter_factory_reset, from a long press: button_init follows matter_setup.
FactoryReset == main \notin {"create", "setup"} /\ Restart(0, FALSE)

-----------------------------------------------------------------------------
(* The main task *)

Shared == <<queue, codes, fabrics, added, window, joining, on, had, failed>>

\* node::create or create_endpoints fails: esp_restart.
CreateFails == "create" \in Faults /\ main = "create" /\ Restart(fabrics, on)

\* esp_matter::start posts kServerReady when the server is up.
StartStack ==
  /\ main = "create"
  /\ main' = "setup" /\ queue' = <<"serverReady">>
  /\ UNCHANGED <<wait, bits, printed, shown, codes, fabrics, added, window, joining,
                 on, had, failed>>

\* matter_setup leaves the LED at the stored light.
Setup ==
  /\ main = "setup"
  /\ main' = "check"
  /\ shown' = LightColor(on)
  /\ UNCHANGED <<wait, bits, printed, Shared>>

\* matter_is_commissioned: a device with a fabric goes straight on.
Check ==
  /\ main = "check"
  /\ IF FabricCount > 0
       THEN main' = "server" /\ wait' = ServerTicks /\ UNCHANGED shown
       ELSE main' = "codes" /\ wait' = CodesTicks /\ shown' = "blue"
  /\ UNCHANGED <<bits, printed, Shared>>

\* Mutant of PrintCodes: main waits for the commissioning half as long.
PrintCodesShortGuard ==
  /\ main = "codes" /\ ("codesReady" \in bits \/ wait = 0)
  /\ printed' = IF codes THEN "codes" ELSE "empty"
  /\ main' = "commission" /\ wait' = GuardTicks \div 2
  /\ UNCHANGED <<bits, shown, Shared>>

\* matter_get_pairing_codes copies the buffers whether or not its wait ended
\* with the bit.
PrintCodes ==
  /\ main = "codes" /\ ("codesReady" \in bits \/ wait = 0)
  /\ printed' = IF codes THEN "codes" ELSE "empty"
  /\ main' = "commission" /\ wait' = GuardTicks
  /\ UNCHANGED <<bits, shown, Shared>>

Commissioned ==
  /\ main = "commission" /\ "commissioned" \in bits
  /\ main' = "green" /\ shown' = "green"
  /\ UNCHANGED <<wait, bits, printed, Shared>>

GuardExpires ==
  /\ main = "commission" /\ "commissioned" \notin bits /\ wait = 0
  /\ main' = "error" /\ shown' = "red"
  /\ UNCHANGED <<wait, bits, printed, Shared>>

\* Mutant of Reboot: the device stays in its error state.
RebootNever == main = "error" /\ UNCHANGED vars

\* esp_restart
Reboot == main = "error" /\ Restart(fabrics, on)

\* STATUS_LED_OK: green for 100 ms, then off.
Off ==
  /\ main = "green"
  /\ main' = "black" /\ shown' = "black"
  /\ UNCHANGED <<wait, bits, printed, Shared>>

AwaitServer ==
  /\ main = "black"
  /\ main' = "server" /\ wait' = ServerTicks
  /\ UNCHANGED <<bits, printed, shown, Shared>>

\* The wait for kServerReady ends with the bit or without it.
Ready ==
  /\ main = "server" /\ ("serverReady" \in bits \/ wait = 0)
  /\ main' = "done"
  /\ UNCHANGED <<wait, bits, printed, shown, Shared>>

Main ==
  \/ StartStack \/ Setup \/ Check \/ PrintCodes \/ Commissioned \/ GuardExpires \/ Reboot
  \/ Off \/ AwaitServer \/ Ready

-----------------------------------------------------------------------------
(* The CHIP task: matter_event_cb *)

Others == <<main, wait, fabrics, added, joining, printed, on, shown, had>>

\* Mutant of OpenWindow: an open window is opened once more.
OpenWindowExtending(rest) ==
  \/ /\ window' = window + WindowTicks /\ queue' = Append(rest, "opened")
     /\ UNCHANGED failed
  \/ /\ "open" \in Faults /\ failed' = failed \union {"open"}
     /\ window' = window /\ queue' = rest

\* open_commissioning_window: the stack posts kCommissioningWindowOpened.  The
\* answer is the window and the events left to handle.
OpenWindow(rest) ==
  \/ /\ window = 0
     /\ window' = WindowTicks /\ queue' = Append(rest, "opened")
     /\ UNCHANGED failed
  \/ /\ window > 0 \/ "open" \in Faults
     /\ failed' = IF window = 0 THEN failed \union {"open"} ELSE failed
     /\ window' = window /\ queue' = rest

\* Mutant of OnServerReady: the fabric table is not looked at.
OnServerReadyUnchecked ==
  /\ queue # <<>> /\ Head(queue) = "serverReady"
  /\ bits' = bits \union {"serverReady", "commissioned"}
  /\ OpenWindow(Tail(queue))
  /\ UNCHANGED <<codes, Others>>

OnServerReady ==
  /\ queue # <<>> /\ Head(queue) = "serverReady"
  /\ IF FabricCount > 0
       THEN /\ bits' = bits \union {"serverReady", "commissioned"}
            /\ queue' = Tail(queue) /\ UNCHANGED <<window, failed>>
       ELSE /\ bits' = bits \union {"serverReady"}
            /\ OpenWindow(Tail(queue))
  /\ UNCHANGED <<codes, Others>>

\* Mutant of OnWindowOpened: nobody is told of the codes.
OnWindowOpenedSilently ==
  /\ queue # <<>> /\ Head(queue) = "opened"
  /\ queue' = Tail(queue)
  /\ UNCHANGED <<bits, codes, window, failed, Others>>

\* refresh_pairing_codes: a code that is not to be had leaves its buffer empty,
\* and the bit is set all the same.
OnWindowOpened ==
  /\ queue # <<>> /\ Head(queue) = "opened"
  /\ \/ codes' = TRUE /\ UNCHANGED failed
     \/ "codes" \in Faults /\ codes' = FALSE /\ failed' = failed \union {"codes"}
  /\ bits' = bits \union {"codesReady"}
  /\ queue' = Tail(queue)
  /\ UNCHANGED <<window, Others>>

OnCommissioningComplete ==
  /\ queue # <<>> /\ Head(queue) = "complete"
  /\ bits' = bits \union {"commissioned"}
  /\ queue' = Tail(queue)
  /\ UNCHANGED <<codes, window, failed, Others>>

OnFabricRemoved ==
  /\ queue # <<>> /\ Head(queue) = "removed"
  /\ OpenWindow(Tail(queue))
  /\ UNCHANGED <<bits, codes, Others>>

Chip ==
  OnServerReady \/ OnWindowOpened \/ OnCommissioningComplete \/ OnFabricRemoved

-----------------------------------------------------------------------------
(* Controllers, the user, and time *)

Idle == UNCHANGED <<main, wait, bits, codes, printed>>

\* A controller opens the window for another one ("Share device").
Share ==
  /\ fabrics > 0 /\ window = 0 /\ Len(queue) < MaxQueue
  /\ window' = WindowTicks /\ queue' = Append(queue, "opened")
  /\ Idle /\ UNCHANGED <<fabrics, added, joining, on, shown, had, failed>>

JoinStarts ==
  /\ window > 0 /\ joining = 0 /\ fabrics < MaxFabrics
  /\ joining' = FailSafeTicks
  /\ Idle /\ UNCHANGED <<queue, fabrics, added, window, on, shown, had, failed>>

\* AddNOC: the fabric is in the table, and not in NVS.
AddFabric ==
  /\ joining > 0 /\ ~added /\ added' = TRUE
  /\ Idle /\ UNCHANGED <<queue, fabrics, window, joining, on, shown, had, failed>>

\* CommissioningComplete: the fabric is in NVS and the window is over.
JoinCompletes ==
  /\ added /\ Len(queue) < MaxQueue
  /\ fabrics' = fabrics + 1 /\ added' = FALSE /\ had' = TRUE
  /\ joining' = 0 /\ window' = 0
  /\ \/ queue' = Append(queue, "complete")
     \/ "lost" \in Faults /\ UNCHANGED queue
  /\ Idle /\ UNCHANGED <<on, shown, failed>>

\* The end of a join that was not completed takes its fabric out of the table
\* again, and may post that one is removed.
Revert ==
  /\ added' = FALSE
  /\ \/ UNCHANGED <<queue, failed>>
     \/ /\ added /\ Len(queue) < MaxQueue
        /\ queue' = Append(queue, "removed") /\ failed' = failed \union {"join"}

JoinFails ==
  /\ joining > 0 /\ joining' = 0
  /\ Revert
  /\ Idle /\ UNCHANGED <<fabrics, window, on, shown, had>>

RemoveFabric ==
  /\ "removal" \in Faults
  /\ fabrics > 0 /\ Len(queue) < MaxQueue
  /\ fabrics' = fabrics - 1
  /\ queue' = Append(queue, "removed")
  /\ Idle /\ UNCHANGED <<added, window, joining, on, shown, had, failed>>

\* The light is switched by a short press (button_init follows matter_setup) or
\* by a controller whose fabric is in.
Switch ==
  /\ main \notin {"create", "setup"}
  /\ on' = ~on /\ shown' = LightColor(~on)
  /\ Idle /\ UNCHANGED <<queue, fabrics, added, window, joining, had, failed>>

\* Once the stack runs; a join is over and a removal possible only then.
Controllers ==
  /\ main # "create"
  /\ Share \/ JoinStarts \/ AddFabric \/ JoinCompletes \/ JoinFails \/ RemoveFabric

\* main sleeps: its wait has time left and its bit is not set.
Asleep ==
  \/ main = "codes" /\ "codesReady" \notin bits /\ wait > 0
  \/ main = "commission" /\ "commissioned" \notin bits /\ wait > 0
  \/ main = "server" /\ "serverReady" \notin bits /\ wait > 0
  \/ main = "done"

Down(n) == IF n > 0 THEN n - 1 ELSE 0

\* The fail-safe that expires ends its join.
Tick ==
  /\ Asleep /\ queue = <<>>
  /\ wait' = Down(wait) /\ window' = Down(window) /\ joining' = Down(joining)
  /\ IF joining = 1 THEN Revert ELSE UNCHANGED <<added, queue, failed>>
  /\ UNCHANGED <<main, bits, codes, fabrics, printed, on, shown, had>>

Next ==
  \/ Main \/ Chip \/ Controllers \/ Switch \/ Tick
  \/ CreateFails \/ PowerCycle \/ FactoryReset

Spec == Init /\ [][Next]_vars

\* Both tasks run, and time passes however often controllers keep the CHIP task
\* busy (strong fairness); nothing obliges a controller or a user.
FairSpec == Spec /\ WF_vars(Main) /\ WF_vars(Chip) /\ SF_vars(Tick)

-----------------------------------------------------------------------------
(* Correctness *)

\* main takes a device for commissioned only when a fabric has been in NVS, not
\* when a commissioner has merely begun.
BitMeansFabric == "commissioned" \in bits \/ main \in {"green", "black"} => had

\* The guard's restart never cuts off the first commissioning of a device: its
\* window has closed and the last attempt's fail-safe has run out long before.
\* (Unless the removal of an unfinished attempt's fabric opened it once more.)
GuardSparesJoin ==
  [][main = "commission" /\ main' = "error" =>
       joining = 0 \/ had \/ "join" \in failed]_vars

\* "Blocks until the commissioning window is open and the codes are ready"
\* (matter_setup.h): run_commissioning goes on with empty codes only when the
\* window has failed to open or the stack has failed to give the codes, and
\* never because it was too early.
CodesPrinted == printed = "empty" => failed \intersect {"open", "codes"} # {}

\* Nobody cuts the power or resets the device any more, it starts, and the CHIP
\* task catches up with its controllers again and again.
NoMoreRestarts ==
  <>[][Main \/ Chip \/ Controllers \/ Switch \/ Tick]_vars /\ []<>(queue = <<>>)

\* A device nobody commissions is never shut for good: whenever its window has
\* closed, or failed to open, the guard restarts it and the window opens again.
\* (One that had a fabric and lost it opens it once, OnFabricRemoved.  One that
\* Check has let pass on a fabric that was only added has no guard any more.)
StaysCommissionable ==
  NoMoreRestarts /\ <>[]("open" \notin failed) =>
    []<>(had \/ window > 0 \/ main \in {"server", "done"})

\* A device with a fabric comes up and stays up, also when the event that its
\* commissioning completed is lost: the guard's restart finds the fabric.
CommissionedComesUp == NoMoreRestarts /\ <>[](fabrics > 0) => <>[](main = "done")

(* What the sources say of the boot and the code does not do *)

\* "Don't clear the LED here - matter_setup() already restored it to the
\* persisted on/off + color state", "LED follows it" (app_main.cpp): when
\* app_main is done the LED shows the light.
LedFollowsLight == main = "done" => shown = LightColor(on)

=============================================================================
