--------------------------- MODULE OtaSlotsProofs ---------------------------
(***************************************************************************)
(* Proofs about OtaSlots, for any number of releases of any kind: no       *)
(* sequence of updates, crashes and power cuts leaves the device without   *)
(* an image to boot or takes back an update that has come up.              *)
(***************************************************************************)
EXTENDS OtaSlots, TLAPS

\* What a slot that is not on probation, a running image, a server that is up
\* and a download guarantee.  The other slot's version is known only from the
\* time the running image was applied over it, hence the part on the boot slot.
SlotInv ==
  /\ TypeOK
  /\ AlwaysBootable
  /\ state[boot] \notin {"new", "pending"} => slot[boot].ver >= confirmed
  /\ state[boot] \in {"new", "pending"} =>
       /\ slot[boot].ver >= confirmed
       /\ state[Other(boot)] \notin {"new", "pending"}
  /\ running # None => state[running] # "new"
  /\ up => /\ running # None
           /\ slot[running].ver = confirmed
           /\ state[running] \notin {"new", "pending"}
  /\ download # "idle" => up
  /\ download = "complete" =>
       slot[Other(running)] # Torn /\ slot[Other(running)].ver >= confirmed

LEMMA OtherSlot == ASSUME NEW s \in Slots
                   PROVE  Other(s) \in Slots /\ Other(s) # s /\ Other(Other(s)) = s
BY DEF Other, Slots

LEMMA NoneIsNoSlot == None \notin Slots
BY DEF None, Slots

LEMMA InitSlotInv == Init => SlotInv
<1> SUFFICES ASSUME Init PROVE SlotInv
  OBVIOUS
<1>1. [ver |-> 1, kind |-> "good"] \in Image
  BY OtaSlotsAssumption DEF Image
<1>2. TypeOK
  <2>1. slot \in [Slots -> Image \union {Torn}]
    BY <1>1 DEF Init
  <2>2. state \in [Slots -> States]
    BY DEF Init, States
  <2>3. confirmed \in 0..MaxVersion
    BY OtaSlotsAssumption DEF Init
  <2>4. up \in BOOLEAN /\ running \in Slots \union {None} /\ boot \in Slots
    BY DEF Init, Slots
  <2>5. download \in {"idle", "writing", "complete"}
    BY DEF Init
  <2> QED
    BY <2>1, <2>2, <2>3, <2>4, <2>5 DEF TypeOK
<1>3. slot[boot] = [ver |-> 1, kind |-> "good"] /\ state[boot] = "undefined"
  BY DEF Init, Slots
<1>4. slot[boot].ver = 1 /\ slot[boot] # Torn
  BY <1>3 DEF Torn
<1> QED
  BY <1>2, <1>3, <1>4 DEF Init, SlotInv, AlwaysBootable

LEMMA NextSlotInv == SlotInv /\ [Next]_vars => SlotInv'
<1> SUFFICES ASSUME SlotInv, [Next]_vars PROVE SlotInv'
  OBVIOUS
<1> USE NoneIsNoSlot, OtaSlotsAssumption
<1>a. /\ boot \in Slots /\ Other(boot) \in Slots /\ Other(boot) # boot
      /\ Other(Other(boot)) = boot
  BY OtherSlot DEF SlotInv, TypeOK
<1>b. running # None => running = boot
  BY DEF SlotInv, AlwaysBootable
<1>c. slot[boot].ver \in Int /\ slot[Other(boot)].ver \in Int /\ confirmed \in Int
  BY <1>a DEF SlotInv, TypeOK, Image, Torn
<1>1. CASE RollBack
  BY <1>1, <1>a, <1>b, <1>c DEF RollBack, SlotInv, TypeOK, AlwaysBootable, States
<1>2. CASE Start
  BY <1>2, <1>a, <1>b DEF Start, SlotInv, TypeOK, AlwaysBootable, States
<1>3. CASE PowerCut
  BY <1>3, <1>a DEF PowerCut, Halt, SlotInv, TypeOK, AlwaysBootable
<1>4. CASE Crash
  BY <1>4, <1>a DEF Crash, Halt, SlotInv, TypeOK, AlwaysBootable
<1>5. CASE ServerReady
  <2>1. running = boot /\ slot[boot] \in Image
    BY <1>5, <1>b DEF ServerReady, SlotInv, AlwaysBootable, TypeOK
  <2>2. slot[boot].ver \in 0..MaxVersion
    BY <2>1 DEF Image
  <2> QED
    BY <1>5, <1>a, <2>1, <2>2 DEF ServerReady, SlotInv, TypeOK, AlwaysBootable, States
<1>6. CASE Download
  BY <1>6, <1>a, <1>b DEF Download, SlotInv, TypeOK, AlwaysBootable
<1>7. CASE Downloaded
  <2>1. running = boot /\ up /\ state[boot] \notin {"new", "pending"}
    BY <1>7, <1>b DEF Downloaded, SlotInv
  <2>2. PICK image \in Image :
          /\ image.ver > slot[boot].ver
          /\ slot' = [slot EXCEPT ![Other(boot)] = image]
    BY <1>7, <2>1 DEF Downloaded
  <2>3. image # Torn /\ image.ver >= confirmed
    BY <2>1, <2>2 DEF SlotInv, Image, Torn, TypeOK
  <2> QED
    BY <1>7, <1>a, <2>1, <2>2, <2>3 DEF Downloaded, SlotInv, TypeOK, AlwaysBootable
<1>8. CASE DownloadFails
  BY <1>8, <1>a DEF DownloadFails, SlotInv, TypeOK, AlwaysBootable
<1>9. CASE Apply
  <2>1. /\ running = boot /\ up /\ slot[boot].ver = confirmed
        /\ state[boot] \notin {"new", "pending"}
        /\ slot[Other(boot)] # Torn /\ slot[Other(boot)].ver >= confirmed
    BY <1>9, <1>b DEF Apply, SlotInv
  <2> QED
    BY <1>9, <1>a, <2>1 DEF Apply, Halt, SlotInv, TypeOK, AlwaysBootable, States
<1>10. CASE UNCHANGED vars
  BY <1>10 DEF vars, SlotInv, TypeOK, AlwaysBootable
<1> QED
  BY <1>1, <1>2, <1>3, <1>4, <1>5, <1>6, <1>7, <1>8, <1>9, <1>10 DEF Next, App, Requestor

LEMMA SlotInvInvariant == Spec => []SlotInv
BY InitSlotInv, NextSlotInv, PTL DEF Spec

\* Slots hold an image of a release or a torn one, whatever the bootloader runs.
THEOREM TypeCorrect == Spec => []TypeOK
<1>1. SlotInv => TypeOK
  BY DEF SlotInv
<1> QED
  BY <1>1, SlotInvInvariant, PTL

\* At no moment, with the power failing between any two steps, is the selected
\* slot without a complete image or a new one without a proven one beside it.
THEOREM DeviceBoots == Spec => []AlwaysBootable
<1>1. SlotInv => AlwaysBootable
  BY DEF SlotInv
<1> QED
  BY <1>1, SlotInvInvariant, PTL

\* No version older than one that has come up ever runs again.
THEOREM UpdatesStay == Spec => []NeverUndone
<1>1. SlotInv => NeverUndone
  BY DEF SlotInv, AlwaysBootable, NeverUndone
<1> QED
  BY <1>1, SlotInvInvariant, PTL

=============================================================================
