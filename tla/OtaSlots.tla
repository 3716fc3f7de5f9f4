------------------------------ MODULE OtaSlots ------------------------------
(***************************************************************************)
(* Over-the-air updates on the device: two app slots and the otadata       *)
(* record of the bootloader (partitions_waveshare_c6.csv, rollback enabled *)
(* in sdkconfig.defaults), Matter's OTA requestor that fills the slot not  *)
(* running, and confirm_running_image (main/matter_setup.cpp), which keeps *)
(* an image once the Matter server is up.                                  *)
(*                                                                         *)
(* The bootloader, esp_ota and the requestor are not in the repository;    *)
(* they are modelled from the configuration and from what the code relies  *)
(* on.  The power may fail between any two steps.                          *)
(***************************************************************************)
EXTENDS Integers

CONSTANTS
  MaxVersion,  \* bound: PROJECT_VER_NUMBER of the last image released
  Kinds        \* how a released image may behave

\* A "good" image works; one that "crashes" does so before the Matter server is
\* ready; one that "hangs" never gets the server ready and does not crash.
ASSUME OtaSlotsAssumption ==
  /\ MaxVersion \in Nat \ {0}
  /\ Kinds \subseteq {"good", "crashes", "hangs"}

VARIABLES
  slot,       \* the image in each slot; Torn while one is being written
  state,      \* the otadata state of each slot
  boot,       \* the slot otadata selects
  running,    \* the slot that runs, or None while the power is off
  up,         \* kServerReady has been handled
  download,   \* "idle", "writing" the other slot, or "complete"
  confirmed   \* history: the highest version that came up

vars == <<slot, state, boot, running, up, download, confirmed>>

Slots == {0, 1}
None  == 2
Other(s) == 1 - s
Torn  == [ver |-> 0, kind |-> "torn"]
Image == [ver : 1..MaxVersion, kind : Kinds \union {"good"}]

\* A slot flashed over USB is "undefined", which boots like "valid"; "aborted"
\* is a slot that has been rolled back from.
States == {"undefined", "new", "pending", "valid", "aborted"}

TypeOK ==
  /\ slot \in [Slots -> Image \union {Torn}]
  /\ state \in [Slots -> States]
  /\ boot \in Slots
  /\ running \in Slots \union {None}
  /\ up \in BOOLEAN
  /\ download \in {"idle", "writing", "complete"}
  /\ confirmed \in 0..MaxVersion

\* The one-time migration flashes a working image over USB into ota_0.
Init ==
  /\ slot = [s \in Slots |-> IF s = 0 THEN [ver |-> 1, kind |-> "good"] ELSE Torn]
  /\ state = [s \in Slots |-> "undefined"]
  /\ boot = 0
  /\ running = None
  /\ up = FALSE
  /\ download = "idle"
  /\ confirmed = 0

-----------------------------------------------------------------------------
(* The bootloader, on every start *)

\* Mutant of RollBack: to the factory app of the earlier partition table.
RollBackToFactory ==
  /\ running = None /\ state[boot] = "pending"
  /\ state' = [state EXCEPT ![boot] = "aborted"]
  /\ running' = None + 1
  /\ UNCHANGED <<slot, boot, up, download, confirmed>>

\* An image still on probation has crashed or been reset: back to the other slot.
RollBack ==
  /\ running = None /\ state[boot] = "pending"
  /\ state' = [state EXCEPT ![boot] = "aborted"]
  /\ boot' = Other(boot) /\ running' = Other(boot)
  /\ UNCHANGED <<slot, up, download, confirmed>>

\* The first start of a new image puts it on probation.
Start ==
  /\ running = None /\ state[boot] # "pending"
  /\ state' = [state EXCEPT ![boot] = IF @ = "new" THEN "pending" ELSE @]
  /\ running' = boot
  /\ UNCHANGED <<slot, boot, up, download, confirmed>>

Halt == running' = None /\ up' = FALSE /\ download' = "idle"

PowerCut ==
  /\ running # None /\ Halt
  /\ UNCHANGED <<slot, state, boot, confirmed>>

-----------------------------------------------------------------------------
(* The application *)

Crash ==
  /\ running # None /\ slot[running].kind = "crashes"
  /\ Halt
  /\ UNCHANGED <<slot, state, boot, confirmed>>

\* Mutant of ServerReady: the image is not marked valid.
ServerReadyUnmarked ==
  /\ running # None /\ ~up /\ slot[running].kind = "good"
  /\ up' = TRUE
  /\ confirmed' = slot[running].ver
  /\ UNCHANGED <<slot, state, boot, running, download>>

\* Mutant of ServerReady: any image is marked valid as soon as it runs.
ServerReadyAtOnce ==
  /\ running # None /\ ~up
  /\ up' = (slot[running].kind = "good")
  /\ state' = [state EXCEPT ![running] = IF @ = "pending" THEN "valid" ELSE @]
  /\ confirmed' = IF up' THEN slot[running].ver ELSE confirmed
  /\ UNCHANGED <<slot, boot, running, download>>

\* kServerReady: confirm_running_image marks an image on probation valid.
ServerReady ==
  /\ running # None /\ ~up /\ slot[running].kind = "good"
  /\ up' = TRUE
  /\ state' = [state EXCEPT ![running] = IF @ = "pending" THEN "valid" ELSE @]
  /\ confirmed' = slot[running].ver
  /\ UNCHANGED <<slot, boot, running, download>>

-----------------------------------------------------------------------------
(* The OTA requestor, once the server is up *)

\* "The device only accepts a higher number" (CMakeLists.txt), and esp_ota_begin
\* refuses to write while the running image is on probation.
Download ==
  /\ up /\ download = "idle" /\ state[running] # "pending"
  /\ slot[running].ver < MaxVersion
  /\ download' = "writing"
  /\ slot' = [slot EXCEPT ![Other(running)] = Torn]
  /\ UNCHANGED <<state, boot, running, up, confirmed>>

Downloaded ==
  /\ download = "writing"
  /\ \E image \in Image :
       /\ image.ver > slot[running].ver /\ image.kind \in Kinds
       /\ slot' = [slot EXCEPT ![Other(running)] = image]
  /\ download' = "complete"
  /\ UNCHANGED <<state, boot, running, up, confirmed>>

DownloadFails ==
  /\ download = "writing"
  /\ download' = "idle"
  /\ UNCHANGED <<slot, state, boot, running, up, confirmed>>

\* Mutant of Apply: otadata is switched before the image is complete.
ApplyWhileWriting ==
  /\ download # "idle"
  /\ state' = [state EXCEPT ![Other(running)] = "new"]
  /\ boot' = Other(running)
  /\ Halt
  /\ UNCHANGED <<slot, confirmed>>

Apply ==
  /\ download = "complete"
  /\ state' = [state EXCEPT ![Other(running)] = "new"]
  /\ boot' = Other(running)
  /\ Halt
  /\ UNCHANGED <<slot, confirmed>>

App == Crash \/ ServerReady
Requestor == Download \/ Downloaded \/ DownloadFails \/ Apply
Next == RollBack \/ Start \/ PowerCut \/ App \/ Requestor

Spec == Init /\ [][Next]_vars

\* The power comes back and the application runs.
FairSpec == Spec /\ WF_vars(RollBack \/ Start) /\ WF_vars(App)

-----------------------------------------------------------------------------
(* Correctness *)

\* The device always has something to run: the selected slot holds a complete
\* image, and while that one is new or on probation so does the other slot, with
\* an image that has come up before.
AlwaysBootable ==
  /\ slot[boot] # Torn
  /\ running # None => running = boot
  /\ state[boot] \in {"new", "pending"} =>
       slot[Other(boot)] # Torn /\ slot[Other(boot)].ver = confirmed

\* An update that has come up is never undone, by whatever sequence of power
\* cuts and failed updates: nothing older than it runs again.
NeverUndone == running # None => slot[running].ver >= confirmed

\* With the power back for good and no more updates, the light ends up with its
\* server up, however many images crashed or were cut off on the way: only one
\* that hangs without crashing may keep it from there.
Settled == <>[][RollBack \/ Start \/ App]_vars
Hanging == running # None /\ slot[running].kind = "hangs"
EndsUp == Settled => <>[](up \/ Hanging)

=============================================================================
