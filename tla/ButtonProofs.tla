---------------------------- MODULE ButtonProofs ----------------------------
(***************************************************************************)
(* Proofs about Button, for every length of the long press and every width *)
(* of the tick count, for a pin that does anything and for a contact that  *)
(* bounces.                                                                *)
(***************************************************************************)
EXTENDS Button, TLAPS

\* With its contact at rest the pin is what the finger makes it, and a contact that
\* does not bounce is always at rest.  A boot is as good as a press.  A pressed button
\* whose press the task knows of has not bounced since the delay the task is in
\* began, and not at all where it samples the pin; and one it knows of while it is
\* out of the hold loop has been let go.
PinInv ==
  /\ bounce = "none" => down = finger
  /\ ~contact => bounce = "none"
  /\ at = "booting" => fresh
  /\ at = "debounce" /\ finger => bounce # "new"
  /\ at = "debounce" /\ ~fresh => bounce # "new"
  /\ at = "delay" /\ ~fresh /\ finger => bounce # "new"
  /\ at = "sample" /\ ~fresh /\ finger => bounce = "none"
  /\ at \in {"wait", "debounce", "released"} /\ ~fresh => ~finger

\* A press that has been accepted has called a callback only if it fired long;
\* the count of a finished press is at most 1.
ActsInv ==
  /\ acts \in 0..1
  /\ at \in {"sample", "delay", "released"} => acts = IF firedLong THEN 1 ELSE 0

-----------------------------------------------------------------------------
(* Type correctness *)

LEMMA LongerType == ASSUME held \in Nat PROVE Longer \in 0..(TickWrap - 1)
BY ButtonAssumption DEF Longer

LEMMA NoPolls == 0 \in 0..(TickWrap - 1)
BY ButtonAssumption

LEMMA InitTypeOK == Init => TypeOK
<1> SUFFICES ASSUME Init PROVE TypeOK
  OBVIOUS
<1>1. held \in 0..(TickWrap - 1) /\ acts \in Nat
  BY NoPolls DEF Init
<1> QED
  BY <1>1 DEF Init, TypeOK, At

LEMMA NextTypeOK == TypeOK /\ [Next]_vars => TypeOK'
<1> SUFFICES ASSUME TypeOK, [Next]_vars PROVE TypeOK'
  OBVIOUS
<1> USE DEF TypeOK, At, pin
<1>1. CASE FingerMoves \/ ContactBounces \/ Settle
  BY <1>1 DEF FingerMoves, ContactBounces, Settle
<1>2. CASE ButtonInit \/ Isr
  BY <1>2 DEF ButtonInit, Isr
<1>8. CASE Restart
  <2>1. held' \in 0..(TickWrap - 1) /\ acts' \in Nat
    BY <1>8, NoPolls DEF Restart
  <2> QED
    BY <1>8, <2>1 DEF Restart
<1>3. CASE Wake \/ Blip \/ SampleLow \/ SampleHigh
  BY <1>3 DEF Wake, Blip, SampleLow, SampleHigh, DelayBegins
<1>4. CASE Poll
  <2>1. held' \in 0..(TickWrap - 1)
    BY <1>4, LongerType DEF Poll
  <2>2. firedLong' \in BOOLEAN /\ acts' \in Nat
    <3>1. CASE ~firedLong /\ Longer >= HoldPolls
      BY <1>4, <3>1 DEF Poll
    <3>2. CASE ~(~firedLong /\ Longer >= HoldPolls)
      BY <1>4, <3>2 DEF Poll
    <3> QED
      BY <3>1, <3>2
  <2>3. at' = "sample" /\ UNCHANGED <<pin, armed, notified, fresh>>
    BY <1>4 DEF Poll
  <2> QED
    BY <2>1, <2>2, <2>3
<1>5. CASE Release
  BY <1>5 DEF Release
<1>7. CASE Accept
  BY <1>7, NoPolls DEF Accept
<1>6. CASE UNCHANGED vars
  BY <1>6 DEF vars
<1> QED
  BY <1>1, <1>2, <1>3, <1>4, <1>5, <1>6, <1>7, <1>8 DEF Next, Task

-----------------------------------------------------------------------------
(* The interrupt *)

LEMMA NextNeverDeaf == NeverDeaf /\ [Next]_vars => NeverDeaf'
<1> SUFFICES ASSUME NeverDeaf, [Next]_vars PROVE NeverDeaf'
  OBVIOUS
<1> USE DEF NeverDeaf
<1>1. CASE FingerMoves \/ ContactBounces \/ Settle
  BY <1>1 DEF FingerMoves, ContactBounces, Settle
<1>2. CASE Restart \/ ButtonInit \/ Isr
  BY <1>2 DEF Restart, ButtonInit, Isr
<1>3. CASE Task
  BY <1>3 DEF Task, Wake, Blip, Accept, SampleLow, SampleHigh, Poll, Release
<1>4. CASE UNCHANGED vars
  BY <1>4 DEF vars
<1> QED
  BY <1>1, <1>2, <1>3, <1>4 DEF Next

\* The interrupt is never left masked with nobody to unmask it.
THEOREM ButtonNeverDeaf == Spec => []NeverDeaf
<1>1. Init => NeverDeaf
  BY DEF Init, NeverDeaf
<1> QED
  BY <1>1, NextNeverDeaf, PTL DEF Spec

-----------------------------------------------------------------------------
(* The callbacks of a press *)

LEMMA NextPinInv == TypeOK /\ PinInv /\ [Next]_vars => PinInv'
<1> SUFFICES ASSUME TypeOK, PinInv, [Next]_vars PROVE PinInv'
  OBVIOUS
<1> USE DEF TypeOK, PinInv, pin
<1>1. CASE FingerMoves
  <2>1. CASE contact
    BY <1>1, <2>1 DEF FingerMoves
  <2>2. CASE ~contact
    BY <1>1, <2>2 DEF FingerMoves
  <2> QED
    BY <2>1, <2>2
<1>2. CASE ContactBounces \/ Settle
  BY <1>2 DEF ContactBounces, Settle
<1>3. CASE Restart \/ ButtonInit \/ Isr
  BY <1>3 DEF Restart, ButtonInit, Isr
<1>4. CASE Wake
  BY <1>4 DEF Wake, DelayBegins
<1>5. CASE Blip \/ Accept
  BY <1>5 DEF Blip, Accept, DelayEnds
<1>6. CASE SampleLow \/ SampleHigh
  BY <1>6 DEF SampleLow, SampleHigh, DelayBegins
<1>7. CASE Poll \/ Release
  BY <1>7 DEF Poll, DelayEnds, Release
<1>8. CASE UNCHANGED vars
  BY <1>8 DEF vars
<1> QED
  BY <1>1, <1>2, <1>3, <1>4, <1>5, <1>6, <1>7, <1>8 DEF Next, Task

\* The debounce accepts no press that the task has already taken for one.
LEMMA AcceptFresh == TypeOK /\ PinInv /\ Accept => fresh
BY DEF TypeOK, PinInv, Accept, DelayEnds

LEMMA NextActsInv == TypeOK /\ PinInv /\ ActsInv /\ [Next]_vars => ActsInv'
<1> SUFFICES ASSUME TypeOK, PinInv, ActsInv, [Next]_vars PROVE ActsInv'
  OBVIOUS
<1> USE DEF ActsInv
<1>1. CASE FingerMoves \/ ContactBounces \/ Settle
  BY <1>1 DEF FingerMoves, ContactBounces, Settle
<1>2. CASE Restart \/ ButtonInit \/ Isr
  BY <1>2 DEF Restart, ButtonInit, Isr
<1>3. CASE Wake \/ Blip \/ SampleLow \/ SampleHigh
  BY <1>3 DEF Wake, Blip, SampleLow, SampleHigh
<1>4. CASE Accept
  BY <1>4, AcceptFresh DEF Accept
<1>5. CASE Poll
  BY <1>5 DEF Poll
<1>6. CASE Release
  BY <1>6 DEF Release
<1>7. CASE UNCHANGED vars
  BY <1>7 DEF vars
<1> QED
  BY <1>1, <1>2, <1>3, <1>4, <1>5, <1>6, <1>7 DEF Next, Task

\* A press of a contact that bounces for less than the delays of the task, however
\* long it lasts, runs one callback at most; so does each fall of a pin that moves
\* at any moment.
THEOREM OneCallbackPerPress == Spec => []OneActPerPress
<1>1. Init => PinInv /\ ActsInv
  BY DEF Init, PinInv, ActsInv
<1>2. ActsInv => OneActPerPress
  BY DEF ActsInv, OneActPerPress
<1> QED
  BY <1>1, <1>2, InitTypeOK, NextTypeOK, NextPinInv, NextActsInv, PTL DEF Spec

=============================================================================
