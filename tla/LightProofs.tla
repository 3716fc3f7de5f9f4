----------------------------- MODULE LightProofs -----------------------------
(***************************************************************************)
(* Proofs about Light, for any brightnesses, colours and temperatures and  *)
(* any start-up temperatures an earlier build left behind, whichever of    *)
(* the writes of the restore and of a press fail.                          *)
(***************************************************************************)
EXTENDS Light, TLAPS

CallType == [at : CallAt, todo : Seq(Writes), rgb : Shades]

-----------------------------------------------------------------------------
(* Attribute writes *)

\* A write is of one attribute and a value of it.
LEMMA WriteCases ==
  ASSUME NEW w \in Writes
  PROVE  \/ w.attr = "on" /\ w.val \in {0, 1}
         \/ w.attr = "level" /\ w.val \in Levels
         \/ w.attr = "x" /\ w.val \in Xs
         \/ w.attr = "y" /\ w.val \in Ys
         \/ w.attr = "mireds" /\ w.val \in Mireds
         \/ w.attr = "mode" /\ w.val \in {Xy, Temp}
BY DEF Writes, Values

LEMMA WriteType ==
  ASSUME NEW attr \in DOMAIN Values, NEW val \in Values[attr]
  PROVE  /\ Write(attr, val) \in Writes
         /\ Write(attr, val).attr = attr /\ Write(attr, val).val = val
BY DEF Write, Writes

LEMMA AttrValues ==
  /\ DOMAIN Values = {"on", "level", "x", "y", "mireds", "mode"}
  /\ Values["on"] = {0, 1} /\ Values["level"] = Levels
  /\ Values["x"] = Xs /\ Values["y"] = Ys
  /\ Values["mireds"] = Mireds /\ Values["mode"] = {Xy, Temp}
BY DEF Values

LEMMA NatValues ==
  ASSUME NEW attr \in DOMAIN Values, NEW val \in Values[attr]
  PROVE  val \in Nat
<1>1. \A p \in Points : p[1] \in Nat /\ p[2] \in Nat
  BY LightAssumption
<1>2. Xs \subseteq Nat /\ Ys \subseteq Nat
  BY <1>1 DEF Xs, Ys
<1>3. Mireds \subseteq Nat /\ Levels \subseteq Nat /\ {0, 1} \subseteq Nat
      /\ {Xy, Temp} \subseteq Nat
  BY LightAssumption DEF Xy, Temp
<1>4. \A a \in DOMAIN Values : Values[a] \subseteq Nat
  BY <1>2, <1>3, AttrValues
<1> QED
  BY <1>4

\* What is stored, cached and rendered is well formed.
LEMMA StoreType ==
  ASSUME NEW s \in Store, NEW w \in Writes
  PROVE  [s EXCEPT ![w.attr] = w.val] \in Store
BY WriteCases DEF Store

LEMMA AssignType ==
  ASSUME NEW c \in Cache, NEW w \in Writes
  PROVE  Assign(c, w.attr, w.val) \in Cache
BY WriteCases DEF Cache, Assign

LEMMA BlackShade == Black \in Shades
BY DEF Shades

LEMMA RenderType == ASSUME NEW c \in Cache PROVE Render(c) \in Shades
BY BlackShade DEF Cache, Render, Shade, Shades

LEMMA MirrorType == ASSUME NEW s \in Store PROVE Mirror(s) \in Cache
BY DEF Mirror, Store, Cache

LEMMA FreshType == Fresh \in Store
BY LightAssumption DEF Fresh, Store, Cache

LEMMA StartUpType == ASSUME NEW s \in Store PROVE StartUp(s) \in Store
BY DEF StartUp, Store

-----------------------------------------------------------------------------
(* The writes of a call *)

\* The mode that goes with a colour attribute.
Selects(attr) == IF attr = "mireds" THEN Temp ELSE Xy

IsColour(w) == w.attr \in {"x", "y", "mireds"}
IsMode(w) == w.attr = "mode"

\* A command that sets a colour sets its mode too, and no other; one that
\* switches the light does nothing else.
LEMMA CommandWrites ==
  ASSUME NEW writes \in Commands
  PROVE  /\ writes \in Seq(Writes) /\ writes # <<>>
         /\ \A i, j \in DOMAIN writes :
              IsColour(writes[i]) /\ IsMode(writes[j])
                => writes[j].val = Selects(writes[i].attr)
         /\ (\E i \in DOMAIN writes : IsColour(writes[i]))
              => \E j \in DOMAIN writes : IsMode(writes[j])
         /\ writes[1].attr # "on" => \A i \in DOMAIN writes : writes[i].attr # "on"
<1> USE WriteType, AttrValues DEF Selects, IsColour, IsMode
<1> DEFINE Goal ==
         /\ writes \in Seq(Writes) /\ writes # <<>>
         /\ \A i, j \in DOMAIN writes :
              IsColour(writes[i]) /\ IsMode(writes[j])
                => writes[j].val = Selects(writes[i].attr)
         /\ (\E i \in DOMAIN writes : IsColour(writes[i]))
              => \E j \in DOMAIN writes : IsMode(writes[j])
         /\ writes[1].attr # "on" => \A i \in DOMAIN writes : writes[i].attr # "on"
<1>1. ASSUME NEW b \in {0, 1}, writes = <<Write("on", b)>> PROVE Goal
  <2>1. Write("on", b) \in Writes /\ Write("on", b).attr = "on"
    OBVIOUS
  <2> QED
    BY <1>1, <2>1
<1>2. ASSUME NEW l \in Levels, writes = <<Write("level", l)>> PROVE Goal
  <2>1. Write("level", l) \in Writes /\ Write("level", l).attr = "level"
    OBVIOUS
  <2> QED
    BY <1>2, <2>1
<1>3. ASSUME NEW p \in Points, NEW m, NEW x, NEW y,
             m = Write("mode", Xy), x = Write("x", p[1]), y = Write("y", p[2]),
             writes = <<m, x, y>> \/ writes = <<x, y, m>>
      PROVE  Goal
  <2>1. p[1] \in Xs /\ p[2] \in Ys
    BY DEF Xs, Ys
  <2>2. /\ m \in Writes /\ m.attr = "mode" /\ m.val = Xy
        /\ x \in Writes /\ x.attr = "x"
        /\ y \in Writes /\ y.attr = "y"
    BY <1>3, <2>1
  <2> QED
    BY <1>3, <2>2
<1>4. ASSUME NEW t \in Mireds, NEW m, NEW c,
             m = Write("mode", Temp), c = Write("mireds", t),
             writes = <<m, c>> \/ writes = <<c, m>>
      PROVE  Goal
  <2>1. /\ m \in Writes /\ m.attr = "mode" /\ m.val = Temp
        /\ c \in Writes /\ c.attr = "mireds"
    BY <1>4
  <2>2. CASE writes = <<m, c>>
    BY <2>1, <2>2
  <2>3. CASE writes = <<c, m>>
    BY <2>1, <2>3
  <2> QED
    BY <1>4, <2>2, <2>3
<1> QED
  BY <1>1, <1>2, <1>3, <1>4 DEF Commands

\* A call that moves on has the writes behind its first left, or is over.
LEMMA AdvanceCall ==
  ASSUME call \in CallType, call.todo # <<>>
  PROVE  /\ Advance \in CallType
         /\ Advance.at = "free" <=> Advance.todo = <<>>
         /\ Advance.at \in {"free", "store"}
         /\ Head(call.todo) = call.todo[1] /\ Head(call.todo) \in Writes
         /\ 1 \in DOMAIN call.todo
         /\ \A i \in DOMAIN Advance.todo :
              i + 1 \in DOMAIN call.todo /\ Advance.todo[i] = call.todo[i + 1]
         /\ \A i \in DOMAIN call.todo \ {1} :
              i - 1 \in DOMAIN Advance.todo /\ Advance.todo[i - 1] = call.todo[i]
<1>1. /\ call.todo \in Seq(Writes) /\ Len(call.todo) \in Nat \ {0}
      /\ DOMAIN call.todo = 1..Len(call.todo)
      /\ Head(call.todo) = call.todo[1] /\ call.todo[1] \in Writes
  BY DEF CallType
<1>2. CASE Len(call.todo) = 1
  <2>1. Advance = [at |-> "free", todo |-> <<>>, rgb |-> Black]
    BY <1>2 DEF Advance, Free
  <2>2. DOMAIN Advance.todo = {} /\ <<>> \in Seq(Writes)
    BY <2>1
  <2> QED
    BY <1>1, <1>2, <2>1, <2>2, BlackShade DEF CallType, CallAt
<1>3. CASE Len(call.todo) # 1
  <2>1. Advance = [at |-> "store", todo |-> Tail(call.todo), rgb |-> Black]
    BY <1>3 DEF Advance
  <2>2. /\ Tail(call.todo) \in Seq(Writes) /\ Len(Tail(call.todo)) = Len(call.todo) - 1
        /\ DOMAIN Tail(call.todo) = 1..(Len(call.todo) - 1)
        /\ \A i \in 1..(Len(call.todo) - 1) : Tail(call.todo)[i] = call.todo[i + 1]
    BY <1>1, <1>3
  <2>3. Tail(call.todo) # <<>>
    <3>1. Len(Tail(call.todo)) # 0 /\ Len(<<>>) = 0
      BY <1>1, <1>3, <2>2
    <3> QED
      BY <3>1
  <2> QED
    BY <1>1, <1>3, <2>1, <2>2, <2>3, BlackShade DEF CallType, CallAt
<1> QED
  BY <1>2, <1>3

-----------------------------------------------------------------------------
(* Type correctness *)

LEMMA FreeType ==
  /\ Free \in CallType /\ Free.at = "free" /\ Free.todo = <<>>
  /\ Booting \in [at : MainAt, next : 1..7, val : Nat, rgb : Shades]
  /\ Booting.at = "get" /\ Booting.next = 1
  /\ Untouched \in [at : ButtonAt, val : {0, 1}, raced : BOOLEAN]
BY BlackShade DEF Free, Booting, Untouched, CallType, CallAt, MainAt, ButtonAt

LEMMA NotLeftType == NotLeft \in [rgb : Shades \union {Unknown}, failed : BOOLEAN]
BY DEF NotLeft

LEMMA InitTypeOK == Init => TypeOK
<1> SUFFICES ASSUME Init PROVE TypeOK
  OBVIOUS
<1>1. nv \in Store
  <2>1. PICK s \in OldStartUps \union {Null} : nv = StartUp([Fresh EXCEPT !.startUp = s])
    BY DEF Init
  <2>2. [Fresh EXCEPT !.startUp = s] \in Store
    BY FreshType, LightAssumption DEF Store
  <2> QED
    BY <2>1, <2>2, StartUpType
<1>2. /\ cache \in Cache /\ target \in Shades /\ failed \in BOOLEAN
      /\ call = Free /\ main = Booting /\ button = Untouched /\ left = NotLeft
  BY BlackShade, LightAssumption DEF Init
<1> QED
  BY <1>1, <1>2, FreeType, NotLeftType DEF TypeOK, CallType

LEMMA RestartTypeOK ==
  ASSUME NEW s \in Store, Restart(s),
         left' \in [rgb : Shades \union {Unknown}, failed : BOOLEAN]
  PROVE  TypeOK'
<1>1. nv' \in Store /\ cache' \in Cache /\ target' \in Shades /\ failed' \in BOOLEAN
  BY StartUpType, BlackShade, LightAssumption DEF Restart
<1>2. call' = Free /\ main' = Booting /\ button' = Untouched
  BY DEF Restart
<1> QED
  BY <1>1, <1>2, FreeType DEF TypeOK, CallType

\* The attribute main has read is one of its values when main assigns it,
\* whatever has been written since.
LEMMA RestoredType ==
  ASSUME NEW c \in Cache, NEW attr \in DOMAIN Values, NEW val \in Values[attr]
  PROVE  AssignRestored(c, attr, val) \in Cache
BY AttrValues DEF AssignRestored, Cache

LEMMA NextTypeOK == TypeOK /\ [Next]_vars => TypeOK'
<1> SUFFICES ASSUME TypeOK, [Next]_vars PROVE TypeOK'
  OBVIOUS
<1>a. /\ call \in CallType /\ (call.at = "free" <=> call.todo = <<>>)
      /\ call.at # "free" => Head(call.todo) \in Writes
  BY AdvanceCall DEF TypeOK, CallType
<1>1. CASE StoreValue
  <2>1. nv' \in Store
    BY <1>1, <1>a, StoreType DEF StoreValue, TypeOK
  <2>2. call' = [call EXCEPT !.at = "callback"] \/ call' = Advance
    BY <1>1 DEF StoreValue
  <2>3. call.at = "store" /\ UNCHANGED <<cache, target, main, button, failed, left>>
    BY <1>1 DEF StoreValue
  <2>4. call' \in CallType /\ (call'.at = "free" <=> call'.todo = <<>>)
    BY <1>a, <2>2, <2>3, AdvanceCall DEF CallType, CallAt
  <2> QED
    BY <2>1, <2>3, <2>4 DEF TypeOK, CallType
<1>2. CASE Callback
  <2>1. cache' \in Cache
    BY <1>2, <1>a, AssignType DEF Callback, TypeOK
  <2>2. call' \in CallType /\ (call'.at = "free" <=> call'.todo = <<>>)
    BY <1>2, <1>a DEF Callback, CallType, CallAt
  <2> QED
    BY <1>2, <2>1, <2>2 DEF Callback, TypeOK, CallType
<1>3. CASE CallRender
  BY <1>3, <1>a, RenderType DEF CallRender, TypeOK, CallType, CallAt
<1>4. CASE CallFade
  <2>1. call' \in CallType /\ (call'.at = "free" <=> call'.todo = <<>>)
    BY <1>4, <1>a, AdvanceCall DEF CallFade
  <2> QED
    BY <1>4, <1>a, <2>1 DEF CallFade, TypeOK, CallType
<1>5. CASE GetVal
  <2>1. /\ main.next \in 1..6 /\ RestoreOrder[main.next] \in DOMAIN Values
        /\ nv[RestoreOrder[main.next]] \in Values[RestoreOrder[main.next]]
    BY <1>5, AttrValues DEF GetVal, TypeOK, RestoreOrder, Store
  <2>2. nv[RestoreOrder[main.next]] \in Nat
    BY <2>1, NatValues
  <2> QED
    BY <1>5, <2>1, <2>2 DEF GetVal, TypeOK, MainAt
<1>6. CASE AssignVal
  <2>1. main.next \in 1..6 /\ RestoreOrder[main.next] \in DOMAIN Values
    BY <1>6, AttrValues DEF AssignVal, TypeOK, RestoreOrder
  <2>2. cache' \in Cache
    BY <1>6, <2>1, RestoredType DEF AssignVal, TypeOK
  <2>3. Len(RestoreOrder) = 6
    BY DEF RestoreOrder
  <2>4. PICK at \in {"get", "repair"} :
          /\ main' = [main EXCEPT !.next = @ + 1, !.at = at]
          /\ at = "get" => main.next < 6
    BY <1>6, <2>3 DEF AssignVal
  <2>5. main.next + 1 \in 1..7 /\ (at = "get" => main.next + 1 <= 6)
    BY <2>1, <2>4
  <2> QED
    BY <1>6, <2>2, <2>4, <2>5 DEF AssignVal, TypeOK, MainAt
<1>7. CASE Repair
  BY <1>7 DEF Repair, TypeOK, Store, MainAt
<1>16. CASE RepairFails
  BY <1>16 DEF RepairFails, TypeOK, MainAt
<1>14. CASE MainRender
  BY <1>14, RenderType DEF MainRender, TypeOK, MainAt
<1>15. CASE MainSet
  BY <1>15 DEF MainSet, TypeOK, MainAt
<1>8. CASE Command
  <2>1. PICK writes \in Commands :
          /\ call' = [at |-> "store", todo |-> writes, rgb |-> Black]
          /\ button' = [button EXCEPT
               !.raced = @ \/ (button.at = "update" /\ writes[1].attr = "on")]
    BY <1>8 DEF Command, Begin
  <2>2. call' \in CallType /\ call'.at # "free" /\ call'.todo # <<>>
    BY <2>1, CommandWrites, BlackShade DEF CallType, CallAt
  <2>3. button' \in [at : ButtonAt, val : {0, 1}, raced : BOOLEAN]
    BY <2>1, Zenon DEF TypeOK
  <2> QED
    BY <1>8, <2>2, <2>3, NotLeftType DEF Command, TypeOK, CallType
<1>9. CASE Press
  <2>1. 1 - nv.on \in {0, 1}
    BY DEF TypeOK, Store
  <2> QED
    BY <1>9, <2>1 DEF Press, TypeOK, Untouched, ButtonAt
<1>10. CASE ButtonUpdate
  <2>1. Write("on", button.val) \in Writes
    BY WriteType, AttrValues DEF TypeOK
  <2>2. /\ <<Write("on", button.val)>> \in Seq(Writes)
        /\ <<Write("on", button.val)>> # <<>>
    BY <2>1
  <2>3. call' \in CallType /\ call'.at # "free" /\ call'.todo # <<>>
    BY <1>10, <2>2, BlackShade DEF ButtonUpdate, Begin, CallType, CallAt
  <2> QED
    BY <1>10, <2>3, FreeType, NotLeftType DEF ButtonUpdate, TypeOK, CallType
<1>17. CASE ButtonUpdateFails
  BY <1>17, FreeType DEF ButtonUpdateFails, TypeOK
<1>11. CASE PowerCycle
  BY <1>11, RestartTypeOK DEF PowerCycle, TypeOK
<1>12. CASE FactoryReset
  BY <1>12, RestartTypeOK, FreshType, NotLeftType DEF FactoryReset, TypeOK
<1>13. CASE UNCHANGED vars
  BY <1>13 DEF vars, TypeOK
<1> QED
  BY <1>1, <1>2, <1>3, <1>4, <1>5, <1>6, <1>7, <1>8, <1>9, <1>10, <1>11, <1>12,
     <1>13, <1>14, <1>15, <1>16, <1>17 DEF Next, Update, Restore

\* The store, the cache and every colour on the way to the LED are of the
\* endpoint's values, also when a command comes in the middle of the restore.
THEOREM TypeCorrect == Spec => []TypeOK
BY InitTypeOK, NextTypeOK, PTL DEF Spec

-----------------------------------------------------------------------------
(* What a call has still to write *)

\* The head of the list has been stored.
Stored == call.at \in {"callback", "render", "fade"}

\* A colour comes with its mode: what a call has still to write selects one mode,
\* which the store has or is yet to get.
CallInv ==
  /\ \A i, j \in DOMAIN call.todo :
       IsColour(call.todo[i]) /\ IsMode(call.todo[j])
         => call.todo[j].val = Selects(call.todo[i].attr)
  /\ \A i \in DOMAIN call.todo :
       IsColour(call.todo[i]) =>
         \/ nv.mode = Selects(call.todo[i].attr)
         \/ \E j \in DOMAIN call.todo : IsMode(call.todo[j])
  /\ Stored => nv[Head(call.todo).attr] = Head(call.todo).val

\* Unless a command on OnOff has come in between, a press at work still means the
\* opposite of what is stored, and no write under way touches that.
PressInv ==
  button.at = "update" =>
    /\ main.at = "done"
    /\ ~button.raced =>
         /\ button.val = 1 - nv.on
         /\ \A i \in DOMAIN call.todo : call.todo[i].attr # "on"

\* A write changes one attribute of the store.
LEMMA StoredFields ==
  ASSUME NEW s \in Store, NEW w \in Writes
  PROVE  LET t == [s EXCEPT ![w.attr] = w.val]
         IN  /\ t[w.attr] = w.val
             /\ \A attr \in DOMAIN Values : attr # w.attr => t[attr] = s[attr]
             /\ t.startUp = s.startUp
             /\ s[w.attr] = w.val => t = s
<1>1. LET t == [s EXCEPT ![w.attr] = w.val]
      IN  /\ t[w.attr] = w.val /\ t.startUp = s.startUp
          /\ \A attr \in DOMAIN Values : attr # w.attr => t[attr] = s[attr]
  BY WriteCases, AttrValues DEF Store
<1>2. s[w.attr] = w.val => [s EXCEPT ![w.attr] = w.val] = s
  BY WriteCases DEF Store
<1> QED
  BY <1>1, <1>2

\* A call that moves on from a write that is stored keeps the mode its colours need.
LEMMA AdvanceCallInv ==
  ASSUME TypeOK, CallInv, call.at # "free", call' = Advance, UNCHANGED nv,
         nv[Head(call.todo).attr] = Head(call.todo).val
  PROVE  CallInv'
<1>1. call \in CallType /\ call.todo # <<>>
  BY DEF TypeOK, CallType
<1>2. /\ call'.at \in {"free", "store"} /\ Head(call.todo) = call.todo[1]
      /\ \A i \in DOMAIN call'.todo :
           i + 1 \in DOMAIN call.todo /\ call'.todo[i] = call.todo[i + 1]
      /\ \A i \in DOMAIN call.todo \ {1} :
           i - 1 \in DOMAIN call'.todo /\ call'.todo[i - 1] = call.todo[i]
      /\ 1 \in DOMAIN call.todo
  BY <1>1, AdvanceCall
<1>3. \A i, j \in DOMAIN call'.todo :
        IsColour(call'.todo[i]) /\ IsMode(call'.todo[j])
          => call'.todo[j].val = Selects(call'.todo[i].attr)
  BY <1>2 DEF CallInv
<1>4. ASSUME NEW i \in DOMAIN call'.todo, IsColour(call'.todo[i])
      PROVE  \/ nv'.mode = Selects(call'.todo[i].attr)
             \/ \E j \in DOMAIN call'.todo : IsMode(call'.todo[j])
  <2>1. i + 1 \in DOMAIN call.todo /\ call'.todo[i] = call.todo[i + 1]
    BY <1>2
  <2>2. CASE nv.mode = Selects(call.todo[i + 1].attr)
    BY <2>1, <2>2
  <2>3. ASSUME NEW j \in DOMAIN call.todo, IsMode(call.todo[j])
        PROVE  \/ nv.mode = Selects(call.todo[i + 1].attr)
               \/ \E k \in DOMAIN call'.todo : IsMode(call'.todo[k])
    <3>1. CASE j = 1
      BY <1>2, <1>4, <2>1, <2>3, <3>1 DEF CallInv, IsMode
    <3>2. CASE j # 1
      BY <1>2, <2>3, <3>2
    <3> QED
      BY <3>1, <3>2
  <2> QED
    BY <1>4, <2>1, <2>2, <2>3 DEF CallInv
<1> QED
  BY <1>2, <1>3, <1>4 DEF CallInv, Stored

LEMMA StoreCallInv == ASSUME TypeOK, CallInv, StoreValue PROVE CallInv'
<1>1. /\ call \in CallType /\ call.todo # <<>> /\ call.at = "store" /\ nv \in Store
  BY DEF StoreValue, TypeOK, CallType
<1>2. /\ Head(call.todo) = call.todo[1] /\ 1 \in DOMAIN call.todo
      /\ Head(call.todo) \in Writes
  BY <1>1, AdvanceCall
<1> DEFINE w == Head(call.todo)
<1>3. nv' = [nv EXCEPT ![w.attr] = w.val]
  BY DEF StoreValue
<1>4. CASE nv[w.attr] = w.val /\ call' = Advance
  <2>1. nv' = nv
    BY <1>1, <1>2, <1>3, <1>4, StoredFields
  <2> QED
    BY <1>1, <1>4, <2>1, AdvanceCallInv
<1>5. CASE call' = [call EXCEPT !.at = "callback"]
  <2>1. call'.todo = call.todo
    BY <1>1, <1>5 DEF CallType
  <2>2. nv'[w.attr] = w.val /\ (nv'.mode = nv.mode \/ IsMode(w))
    <3>1. w \in Writes
      BY <1>2
    <3> HIDE DEF w
    <3>3. /\ nv'[w.attr] = w.val
          /\ \A attr \in DOMAIN Values : attr # w.attr => nv'[attr] = nv[attr]
      BY <1>1, <1>3, <3>1, StoredFields
    <3>2. "mode" \in DOMAIN Values
      BY AttrValues
    <3> QED
      BY <3>2, <3>3 DEF IsMode
  <2>3. ASSUME IsMode(w), NEW i \in DOMAIN call.todo, IsColour(call.todo[i])
        PROVE  nv'.mode = Selects(call.todo[i].attr)
    BY <1>2, <2>2, <2>3 DEF CallInv, IsMode
  <2> HIDE DEF w
  <2>4. /\ \A i, j \in DOMAIN call.todo :
             IsColour(call.todo[i]) /\ IsMode(call.todo[j])
               => call.todo[j].val = Selects(call.todo[i].attr)
        /\ \A i \in DOMAIN call.todo :
             IsColour(call.todo[i]) =>
               \/ nv'.mode = Selects(call.todo[i].attr)
               \/ \E j \in DOMAIN call.todo : IsMode(call.todo[j])
    BY <2>2, <2>3 DEF CallInv
  <2> QED
    BY <2>1, <2>2, <2>4 DEF CallInv, w
<1> QED
  BY <1>4, <1>5 DEF StoreValue

\* With nothing left to write there is nothing to keep.
LEMMA FreeCallInv == call' = Free => CallInv'
<1>1. call' = Free => call'.todo = <<>> /\ call'.at = "free" /\ DOMAIN call'.todo = {}
  BY DEF Free
<1> QED
  BY <1>1 DEF CallInv, Stored

LEMMA NextCallInv == TypeOK /\ CallInv /\ [Next]_vars => CallInv'
<1> SUFFICES ASSUME TypeOK, CallInv, [Next]_vars PROVE CallInv'
  OBVIOUS
<1>1. CASE StoreValue
  BY <1>1, StoreCallInv
<1>2. CASE Callback \/ CallRender
  <2>1. /\ call'.todo = call.todo /\ nv' = nv /\ Stored
    BY <1>2 DEF Callback, CallRender, TypeOK, Stored
  <2> QED
    BY <2>1 DEF CallInv
<1>3. CASE CallFade
  <2>1. nv[Head(call.todo).attr] = Head(call.todo).val
    BY <1>3 DEF CallFade, CallInv, Stored
  <2> QED
    BY <1>3, <2>1, AdvanceCallInv DEF CallFade
<1>4. CASE Repair
  <2>1. call' = call /\ ~Stored /\ nv'.mode = nv.mode
    BY <1>4 DEF Repair, Stored, TypeOK, Store
  <2>2. ~Stored'
    BY <2>1 DEF Stored
  <2> QED
    BY <2>1, <2>2 DEF CallInv
<1>5. CASE Command
  <2>1. PICK writes \in Commands : call' = [at |-> "store", todo |-> writes, rgb |-> Black]
    BY <1>5 DEF Command, Begin
  <2>2. call'.todo = writes /\ ~Stored'
    BY <2>1 DEF Stored
  <2> QED
    BY <2>2, CommandWrites DEF CallInv
<1>6. CASE ButtonUpdate
  <2>1. /\ call'.todo = <<Write("on", button.val)>> /\ call'.at = "store"
        /\ Write("on", button.val).attr = "on"
    BY <1>6 DEF ButtonUpdate, Begin, Write
  <2>2. ~Stored' /\ \A i \in DOMAIN call'.todo : ~IsColour(call'.todo[i])
    BY <2>1 DEF Stored, IsColour
  <2> QED
    BY <2>2 DEF CallInv
<1>7. CASE PowerCycle \/ FactoryReset
  BY <1>7, FreeCallInv DEF PowerCycle, FactoryReset, Restart
<1>8. CASE \/ GetVal \/ AssignVal \/ RepairFails \/ MainRender \/ MainSet
           \/ Press \/ ButtonUpdateFails \/ UNCHANGED vars
  <2>1. UNCHANGED <<nv, call>>
    BY <1>8 DEF GetVal, AssignVal, RepairFails, MainRender, MainSet, Press,
       ButtonUpdateFails, vars
  <2> QED
    BY <2>1 DEF CallInv, Stored
<1> QED
  BY <1>1, <1>2, <1>3, <1>4, <1>5, <1>6, <1>7, <1>8 DEF Next, Update, Restore

LEMMA InitCallInv == Init => CallInv
<1> SUFFICES ASSUME Init PROVE CallInv
  OBVIOUS
<1>1. call.todo = <<>> /\ call.at = "free" /\ DOMAIN call.todo = {}
  BY DEF Init, Free
<1> QED
  BY <1>1 DEF CallInv, Stored

-----------------------------------------------------------------------------
(* The button *)

LEMMA NextPressInv == TypeOK /\ PressInv /\ [Next]_vars => PressInv'
<1> SUFFICES ASSUME TypeOK, PressInv, [Next]_vars, button'.at = "update"
      PROVE  /\ main'.at = "done"
             /\ ~button'.raced =>
                  /\ button'.val = 1 - nv'.on
                  /\ \A i \in DOMAIN call'.todo : call'.todo[i].attr # "on"
  BY DEF PressInv
<1>0. /\ call \in CallType /\ (call.at = "free" <=> call.todo = <<>>)
      /\ nv \in Store
  BY DEF TypeOK, CallType
<1>1. CASE StoreValue
  <2>1. /\ call.todo # <<>> /\ UNCHANGED <<main, button>>
        /\ nv' = [nv EXCEPT ![Head(call.todo).attr] = Head(call.todo).val]
        /\ call'.todo = call.todo \/ call' = Advance
    BY <1>0, <1>1 DEF StoreValue, CallType
  <2>2. /\ Head(call.todo) = call.todo[1] /\ 1 \in DOMAIN call.todo
        /\ Head(call.todo) \in Writes
    BY <1>0, <2>1, AdvanceCall
  <2>3. ASSUME ~button.raced PROVE nv'.on = nv.on
    <3>1. Head(call.todo).attr # "on"
      BY <2>1, <2>2, <2>3 DEF PressInv
    <3> QED
      BY <1>0, <2>1, <2>2, <3>1, StoredFields, AttrValues
  <2>4. \A i \in DOMAIN call'.todo : \E j \in DOMAIN call.todo : call'.todo[i] = call.todo[j]
    BY <1>0, <2>1, AdvanceCall
  <2> QED
    BY <2>1, <2>3, <2>4 DEF PressInv
<1>2. CASE Callback \/ CallRender
  <2>1. call'.todo = call.todo /\ UNCHANGED <<nv, main, button>>
    BY <1>0, <1>2 DEF Callback, CallRender, CallType
  <2> QED
    BY <2>1 DEF PressInv
<1>3. CASE CallFade
  <2>1. call' = Advance /\ call.todo # <<>> /\ UNCHANGED <<nv, main, button>>
    BY <1>0, <1>3 DEF CallFade
  <2>2. \A i \in DOMAIN call'.todo : \E j \in DOMAIN call.todo : call'.todo[i] = call.todo[j]
    BY <1>0, <2>1, AdvanceCall
  <2> QED
    BY <2>1, <2>2 DEF PressInv
<1>4. CASE Restore
  BY <1>4 DEF Restore, GetVal, AssignVal, Repair, RepairFails, MainRender, MainSet,
     PressInv
<1>5. CASE Command
  <2>1. PICK writes \in Commands :
          /\ call' = [at |-> "store", todo |-> writes, rgb |-> Black]
          /\ button' = [button EXCEPT
               !.raced = @ \/ (button.at = "update" /\ writes[1].attr = "on")]
          /\ UNCHANGED <<nv, main>>
    BY <1>5 DEF Command, Begin
  <2>2. /\ button.at = "update" /\ button'.val = button.val
        /\ button'.raced = (button.raced \/ (button.at = "update" /\ writes[1].attr = "on"))
    BY <2>1, Zenon DEF TypeOK
  <2>3. ~button'.raced => ~button.raced /\ writes[1].attr # "on"
    BY <2>2, Zenon
  <2> QED
    BY <2>1, <2>2, <2>3, CommandWrites DEF PressInv
<1>6. CASE Press
  <2>1. UNCHANGED <<nv, main, call>> /\ main.at = "done" /\ call.at = "free"
    BY <1>6 DEF Press
  <2>2. button'.val = 1 - nv.on
    BY <1>6 DEF Press, Untouched
  <2>3. DOMAIN call.todo = {}
    BY <1>0, <2>1
  <2> QED
    BY <2>1, <2>2, <2>3
<1>7. CASE ButtonUpdate \/ ButtonUpdateFails \/ PowerCycle \/ FactoryReset
  BY <1>7 DEF ButtonUpdate, ButtonUpdateFails, PowerCycle, FactoryReset, Restart, Untouched
<1>8. CASE UNCHANGED vars
  BY <1>8 DEF vars, PressInv
<1> QED
  BY <1>1, <1>2, <1>3, <1>4, <1>5, <1>6, <1>7, <1>8 DEF Next, Update

LEMMA InitPressInv == Init => PressInv
BY DEF Init, Untouched, PressInv

\* A press always changes what is stored: whatever the stack, the restore and
\* the power do meanwhile, the value it has read is still the other one unless an
\* OnOff command has come in between.
THEOREM PressAlwaysFlips == Spec => PressFlips
<1>1. TypeOK /\ PressInv => (ButtonUpdate /\ ~button.raced => button.val # nv.on)
  BY DEF TypeOK, PressInv, ButtonUpdate, Store
<1> QED
  BY <1>1, InitTypeOK, NextTypeOK, InitPressInv, NextPressInv, PTL DEF Spec, PressFlips

-----------------------------------------------------------------------------
(* The cache, the store and the LED, when no command comes during the restore *)

InMode(c, mode) == c.useTemp <=> mode = Temp

\* The attributes the cache has a number of.
Numbers == {"on", "level", "x", "y", "mireds"}

\* With the light restored, the cache is behind the store by the attribute whose
\* callback is next, and its mode may be ahead of it by a write of ColorMode yet
\* to come; and the LED has the colour of the cache, or is about to get it.
SyncInv ==
  main.at = "done" =>
    /\ \A attr \in Numbers :
         \/ cache[attr] = nv[attr]
         \/ call.at = "callback" /\ Head(call.todo).attr = attr
    /\ \/ InMode(cache, nv.mode)
       \/ \E j \in DOMAIN call.todo :
            IsMode(call.todo[j]) /\ InMode(cache, call.todo[j].val)
       \/ call.at = "callback" /\ IsMode(Head(call.todo))
    /\ call.at \in {"free", "store", "callback"} => target = Render(cache)
    /\ call.at = "fade" => call.rgb = Render(cache)

\* Before that nobody but matter_setup is at work: the cache has the attributes
\* copied so far.
RestoreInv ==
  main.at # "done" =>
    /\ call = Free /\ button = Untouched
    /\ \A k \in 1..5 :
         main.next > k => cache[RestoreOrder[k]] = nv[RestoreOrder[k]]
    /\ main.next > 6 => InMode(cache, nv.mode)
    /\ main.at = "assign" => main.val = nv[RestoreOrder[main.next]]
    /\ main.at \in {"repair", "render", "set"} => main.next = 7
    /\ main.at = "set" => main.rgb = Render(cache)

\* A start-up temperature is stored until the restore has overwritten it, and then
\* only if the write failed; and while nobody has asked for another colour the
\* attributes say the one the light was left at, if none was stored then.
LeftInv ==
  /\ main.at \notin {"get", "assign", "repair"} /\ ~failed => nv.startUp = Null
  /\ left.rgb # Unknown =>
       /\ call.at = "free"
       /\ ~left.failed => nv.startUp = Null /\ left.rgb = Render(Mirror(nv))

LightInv == TypeOK /\ CallInv /\ PressInv /\ SyncInv /\ RestoreInv /\ LeftInv

\* A colour attribute takes its mode with it into the cache, a mode itself.
LEMMA AssignFields ==
  ASSUME NEW c \in Cache, NEW w \in Writes
  PROVE  LET d == Assign(c, w.attr, w.val)
         IN  /\ \A attr \in Numbers :
                  d[attr] = IF attr = w.attr THEN w.val ELSE c[attr]
             /\ IsMode(w) => InMode(d, w.val)
             /\ IsColour(w) => InMode(d, Selects(w.attr))
             /\ ~IsMode(w) /\ ~IsColour(w) => d.useTemp = c.useTemp
<1> DEFINE d == Assign(c, w.attr, w.val)
<1> SUFFICES /\ \A attr \in Numbers :
                  d[attr] = IF attr = w.attr THEN w.val ELSE c[attr]
             /\ IsMode(w) => InMode(d, w.val)
             /\ IsColour(w) => InMode(d, Selects(w.attr))
             /\ ~IsMode(w) /\ ~IsColour(w) => d.useTemp = c.useTemp
  OBVIOUS
<1> USE DEF Cache, Assign, Numbers, IsMode, IsColour, Selects, InMode, Temp, Xy
<1>1. CASE w.attr \in {"on", "level"}
  BY <1>1
<1>2. CASE w.attr = "x"
  <2>1. d = [c EXCEPT !.x = w.val, !.useTemp = FALSE]
    BY <1>2
  <2>2. Selects(w.attr) # Temp /\ ~IsMode(w)
    BY <1>2
  <2> QED
    BY <1>2, <2>1, <2>2
<1>5. CASE w.attr = "y"
  <2>1. d = [c EXCEPT !.y = w.val, !.useTemp = FALSE]
    BY <1>5
  <2>2. Selects(w.attr) # Temp /\ ~IsMode(w)
    BY <1>5
  <2> QED
    BY <1>5, <2>1, <2>2
<1>3. CASE w.attr = "mireds"
  BY <1>3
<1>4. CASE w.attr = "mode"
  BY <1>4
<1> QED
  BY <1>1, <1>2, <1>3, <1>4, <1>5, WriteCases

\* Only a stored value whose callback is next is missing from the cache.
LEMMA StoreSyncInv ==
  ASSUME LightInv, StoreValue, main.at = "done"
  PROVE  SyncInv'
<1>1. /\ call \in CallType /\ call.todo # <<>> /\ call.at = "store" /\ nv \in Store
      /\ UNCHANGED <<cache, target, main>>
  BY DEF StoreValue, LightInv, TypeOK, CallType
<1> DEFINE w == Head(call.todo)
<1>2. w = call.todo[1] /\ 1 \in DOMAIN call.todo /\ w \in Writes
  BY <1>1, AdvanceCall
<1>3. nv' = [nv EXCEPT ![w.attr] = w.val]
  BY DEF StoreValue
<1>4. /\ \A attr \in Numbers : cache[attr] = nv[attr]
      /\ \/ InMode(cache, nv.mode)
         \/ \E j \in DOMAIN call.todo :
              IsMode(call.todo[j]) /\ InMode(cache, call.todo[j].val)
      /\ target = Render(cache)
  BY <1>1 DEF LightInv, SyncInv
<1>5. CASE nv[w.attr] = w.val /\ call' = Advance
  <2> HIDE DEF w
  <2>1. nv' = nv
    BY <1>1, <1>2, <1>3, <1>5, StoredFields
  <2>2. /\ call'.at \in {"free", "store"}
        /\ \A i \in DOMAIN call.todo \ {1} :
             i - 1 \in DOMAIN call'.todo /\ call'.todo[i - 1] = call.todo[i]
    BY <1>1, <1>5, AdvanceCall
  <2>3. ASSUME NEW j \in DOMAIN call.todo, IsMode(call.todo[j]),
               InMode(cache, call.todo[j].val)
        PROVE  \/ InMode(cache, nv.mode)
               \/ \E k \in DOMAIN call'.todo :
                    IsMode(call'.todo[k]) /\ InMode(cache, call'.todo[k].val)
    <3>1. CASE j = 1
      BY <1>2, <1>5, <2>3, <3>1 DEF IsMode
    <3>2. CASE j # 1
      BY <2>2, <2>3, <3>2
    <3> QED
      BY <3>1, <3>2
  <2> QED
    BY <1>1, <1>4, <2>1, <2>2, <2>3 DEF SyncInv
<1>6. CASE call' = [call EXCEPT !.at = "callback"]
  <2>1. call'.at = "callback" /\ call'.todo = call.todo
    BY <1>1, <1>6 DEF CallType
  <2>2. /\ \A attr \in Numbers : attr # w.attr => nv'[attr] = nv[attr]
        /\ w.attr # "mode" => nv'.mode = nv.mode
    <3> HIDE DEF w
    <3>1. \A attr \in DOMAIN Values : attr # w.attr => nv'[attr] = nv[attr]
      BY <1>1, <1>2, <1>3, StoredFields
    <3> QED
      BY <3>1, AttrValues DEF Numbers
  <2>3. \A attr \in Numbers : cache'[attr] = nv'[attr] \/ Head(call'.todo).attr = attr
    BY <1>1, <1>4, <2>1, <2>2
  <2>4. \/ InMode(cache', nv'.mode)
        \/ \E j \in DOMAIN call'.todo :
             IsMode(call'.todo[j]) /\ InMode(cache', call'.todo[j].val)
        \/ IsMode(Head(call'.todo))
    BY <1>1, <1>4, <2>1, <2>2 DEF IsMode
  <2> QED
    BY <1>1, <1>4, <2>1, <2>3, <2>4 DEF SyncInv
<1> QED
  BY <1>5, <1>6 DEF StoreValue

\* Its callback brings it there, and the mode that goes with a colour.
LEMMA CallbackSyncInv ==
  ASSUME LightInv, Callback, main.at = "done"
  PROVE  SyncInv'
<1>1. /\ call \in CallType /\ call.todo # <<>> /\ call.at = "callback"
      /\ cache \in Cache /\ UNCHANGED <<nv, main>>
      /\ call'.at = "render" /\ call'.todo = call.todo
  BY DEF Callback, LightInv, TypeOK, CallType
<1> DEFINE w == Head(call.todo)
<1>2. w = call.todo[1] /\ 1 \in DOMAIN call.todo /\ w \in Writes
  BY <1>1, AdvanceCall
<1>3. cache' = Assign(cache, w.attr, w.val) /\ nv[w.attr] = w.val
  BY <1>1 DEF Callback, LightInv, CallInv, Stored
<1> HIDE DEF w
<1>4. /\ \A attr \in Numbers :
           cache'[attr] = IF attr = w.attr THEN w.val ELSE cache[attr]
      /\ IsMode(w) => InMode(cache', w.val)
      /\ IsColour(w) => InMode(cache', Selects(w.attr))
      /\ ~IsMode(w) /\ ~IsColour(w) => cache'.useTemp = cache.useTemp
  BY <1>1, <1>2, <1>3, AssignFields
<1>5. \A attr \in Numbers : cache[attr] = nv[attr] \/ attr = w.attr
  BY DEF LightInv, SyncInv, w
<1>6. \A attr \in Numbers : cache'[attr] = nv'[attr]
  BY <1>1, <1>3, <1>4, <1>5
<1>7. \/ InMode(cache', nv'.mode)
      \/ \E j \in DOMAIN call'.todo :
           IsMode(call'.todo[j]) /\ InMode(cache', call'.todo[j].val)
  <2>1. CASE IsMode(w)
    BY <1>1, <1>3, <1>4, <2>1 DEF IsMode
  <2>2. CASE IsColour(w)
    BY <1>1, <1>2, <1>4, <2>2 DEF LightInv, CallInv
  <2>3. CASE ~IsMode(w) /\ ~IsColour(w)
    <3>1. \/ InMode(cache, nv.mode)
          \/ \E j \in DOMAIN call.todo :
               IsMode(call.todo[j]) /\ InMode(cache, call.todo[j].val)
      BY <2>3 DEF LightInv, SyncInv, w
    <3>2. \A mode : InMode(cache, mode) => InMode(cache', mode)
      BY <1>4, <2>3, Zenon DEF InMode
    <3> QED
      BY <1>1, <3>1, <3>2
  <2> QED
    BY <2>1, <2>2, <2>3
<1> QED
  BY <1>1, <1>6, <1>7 DEF SyncInv

LEMMA FadeSyncInv ==
  ASSUME LightInv, CallFade, main.at = "done"
  PROVE  SyncInv'
<1>1. /\ call \in CallType /\ call.todo # <<>> /\ call.at = "fade"
      /\ UNCHANGED <<nv, cache, main>> /\ call' = Advance
      /\ target' = Render(cache)
  BY DEF CallFade, LightInv, TypeOK, CallType, SyncInv
<1>2. /\ Head(call.todo) = call.todo[1] /\ call'.at \in {"free", "store"}
      /\ \A i \in DOMAIN call.todo \ {1} :
           i - 1 \in DOMAIN call'.todo /\ call'.todo[i - 1] = call.todo[i]
  BY <1>1, AdvanceCall
<1>3. ASSUME NEW j \in DOMAIN call.todo, IsMode(call.todo[j]),
             InMode(cache, call.todo[j].val)
      PROVE  \/ InMode(cache, nv.mode)
             \/ \E k \in DOMAIN call'.todo :
                  IsMode(call'.todo[k]) /\ InMode(cache, call'.todo[k].val)
  <2>1. CASE j = 1
    BY <1>1, <1>2, <1>3, <2>1 DEF LightInv, CallInv, Stored, IsMode
  <2>2. CASE j # 1
    BY <1>2, <1>3, <2>2
  <2> QED
    BY <2>1, <2>2
<1>4. /\ \A attr \in Numbers : cache[attr] = nv[attr]
      /\ \/ InMode(cache, nv.mode)
         \/ \E j \in DOMAIN call.todo :
              IsMode(call.todo[j]) /\ InMode(cache, call.todo[j].val)
  BY <1>1 DEF LightInv, SyncInv
<1> QED
  BY <1>1, <1>2, <1>3, <1>4 DEF SyncInv

LEMMA NextSyncInv ==
  ASSUME LightInv, [Next]_vars, WritesDuringRestore = FALSE
  PROVE  SyncInv'
<1>1. CASE main.at = "done" /\ (StoreValue \/ Callback \/ CallFade)
  BY <1>1, StoreSyncInv, CallbackSyncInv, FadeSyncInv
<1>2. CASE CallRender
  BY <1>2 DEF CallRender, LightInv, TypeOK, CallType, SyncInv
<1>3. CASE MainSet
  <2>1. main.at = "set" /\ UNCHANGED <<nv, cache, call>> /\ target' = main.rgb
    BY <1>3 DEF MainSet
  <2>2. /\ main.next = 7 /\ main.rgb = Render(cache) /\ call = Free
        /\ \A k \in 1..5 : cache[RestoreOrder[k]] = nv[RestoreOrder[k]]
        /\ InMode(cache, nv.mode)
    BY <2>1 DEF LightInv, RestoreInv
  <2>3. \A attr \in Numbers : cache[attr] = nv[attr]
    <3>1. \A attr \in Numbers : \E k \in 1..5 : attr = RestoreOrder[k]
      BY DEF Numbers, RestoreOrder
    <3> QED
      BY <2>2, <3>1
  <2> QED
    BY <2>1, <2>2, <2>3 DEF SyncInv, Free
<1>4. CASE Command \/ ButtonUpdate
  <2>1. /\ call.at = "free" /\ call'.at = "store" /\ UNCHANGED <<nv, cache, target, main>>
    BY <1>4 DEF Command, ButtonUpdate, Begin
  <2>2. DOMAIN call.todo = {}
    BY <2>1 DEF LightInv, TypeOK
  <2> QED
    BY <2>1, <2>2 DEF LightInv, SyncInv
<1>5. CASE PowerCycle \/ FactoryReset
  BY <1>5, FreeType DEF PowerCycle, FactoryReset, Restart, SyncInv
<1>6. CASE main.at # "done" /\ \/ Update \/ GetVal \/ AssignVal \/ Repair
                                \/ RepairFails \/ MainRender
  <2>1. main'.at # "done"
    BY <1>6 DEF Update, StoreValue, Callback, CallRender, CallFade, GetVal,
       AssignVal, Repair, RepairFails, MainRender, LightInv, TypeOK
  <2> QED
    BY <2>1 DEF SyncInv
<1>7. CASE Press \/ ButtonUpdateFails \/ UNCHANGED vars
  BY <1>7 DEF Press, ButtonUpdateFails, vars, LightInv, SyncInv
<1>8. CASE main.at = "done" /\ (GetVal \/ AssignVal \/ Repair \/ RepairFails \/ MainRender)
  BY <1>8 DEF GetVal, AssignVal, Repair, RepairFails, MainRender
<1> QED
  BY <1>1, <1>2, <1>3, <1>4, <1>5, <1>6, <1>7, <1>8 DEF Next, Update, Restore

LEMMA NextRestoreInv ==
  ASSUME LightInv, [Next]_vars, WritesDuringRestore = FALSE
  PROVE  RestoreInv'
<1> SUFFICES ASSUME main'.at # "done" PROVE RestoreInv'
  BY DEF RestoreInv
<1>1. CASE Update
  BY <1>1 DEF Update, StoreValue, Callback, CallRender, CallFade, LightInv,
     RestoreInv, Free
<1>2. CASE GetVal
  <2>1. main'.at = "assign" /\ main'.val = nv[RestoreOrder[main.next]]
    BY <1>2 DEF GetVal, LightInv, TypeOK
  <2>2. main'.next = main.next /\ UNCHANGED <<nv, cache, call, button>>
    BY <1>2 DEF GetVal, LightInv, TypeOK
  <2> QED
    BY <1>2, <2>1, <2>2 DEF GetVal, LightInv, RestoreInv
<1>3. CASE AssignVal
  <2> DEFINE k == main.next
  <2>1. /\ k \in 1..6 /\ main.at = "assign" /\ UNCHANGED <<nv, call, button>>
        /\ cache' = AssignRestored(cache, RestoreOrder[k], nv[RestoreOrder[k]])
        /\ main'.next = k + 1
    BY <1>3 DEF AssignVal, LightInv, TypeOK, RestoreInv
  <2>2. main'.at = (IF k < 6 THEN "get" ELSE "repair")
    BY <1>3 DEF AssignVal, LightInv, TypeOK, RestoreOrder
  <2>3. /\ \A i \in 1..5 : main'.next > i => cache'[RestoreOrder[i]] = nv[RestoreOrder[i]]
        /\ main'.next > 6 => InMode(cache', nv.mode)
    <3>1. \A i \in 1..5 : k > i => cache[RestoreOrder[i]] = nv[RestoreOrder[i]]
      BY <2>1 DEF LightInv, RestoreInv
    <3>2. cache \in Cache /\ nv \in Store
      BY DEF LightInv, TypeOK
    <3> HIDE DEF k
    <3>3. CASE k \in 1..5
      <4>1. /\ RestoreOrder[k] # "mode" /\ RestoreOrder[k] \in DOMAIN cache
            /\ \A i \in 1..5 : i # k => RestoreOrder[i] # RestoreOrder[k]
        BY <3>2, <3>3 DEF RestoreOrder, Cache
      <4>2. cache' = [cache EXCEPT ![RestoreOrder[k]] = nv[RestoreOrder[k]]]
        BY <2>1, <4>1 DEF AssignRestored
      <4>3. /\ cache'[RestoreOrder[k]] = nv[RestoreOrder[k]]
            /\ \A i \in 1..5 : i # k => cache'[RestoreOrder[i]] = cache[RestoreOrder[i]]
        BY <4>1, <4>2
      <4> QED
        BY <2>1, <3>1, <3>3, <4>3
    <3>4. CASE k = 6
      <4>1. cache' = [cache EXCEPT !.useTemp = (nv.mode = Temp)]
        BY <2>1, <3>4 DEF AssignRestored, RestoreOrder
      <4>2. \A i \in 1..5 : cache'[RestoreOrder[i]] = cache[RestoreOrder[i]]
        BY <3>2, <4>1 DEF RestoreOrder, Cache
      <4>3. InMode(cache', nv.mode)
        BY <3>2, <4>1, Zenon DEF InMode, Cache
      <4> QED
        BY <2>1, <3>1, <3>4, <4>2, <4>3
    <3> QED
      BY <2>1, <3>3, <3>4
  <2> QED
    BY <2>1, <2>2, <2>3 DEF LightInv, RestoreInv
<1>4. CASE Repair
  <2>1. /\ main.at = "repair" /\ UNCHANGED <<cache, call, button>>
        /\ main'.at = "render" /\ main'.next = main.next
    BY <1>4 DEF Repair, LightInv, TypeOK
  <2>2. /\ nv'.mode = nv.mode
        /\ \A i \in 1..5 : nv'[RestoreOrder[i]] = nv[RestoreOrder[i]]
    BY <1>4 DEF Repair, LightInv, TypeOK, Store, RestoreOrder
  <2> QED
    BY <2>1, <2>2 DEF LightInv, RestoreInv
<1>11. CASE RepairFails
  <2>1. /\ main.at = "repair" /\ UNCHANGED <<nv, cache, call, button>>
        /\ main'.at = "render" /\ main'.next = main.next
    BY <1>11 DEF RepairFails, LightInv, TypeOK
  <2> QED
    BY <2>1 DEF LightInv, RestoreInv
<1>5. CASE MainRender
  <2>1. /\ main.at = "render" /\ UNCHANGED <<nv, cache, call, button>>
        /\ main'.at = "set" /\ main'.next = main.next /\ main'.rgb = Render(cache)
    BY <1>5 DEF MainRender, LightInv, TypeOK
  <2> QED
    BY <2>1 DEF LightInv, RestoreInv
<1>6. CASE MainSet
  BY <1>6 DEF MainSet, LightInv, TypeOK
<1>7. CASE Command \/ Press
  BY <1>7 DEF Command, Press
<1>8. CASE ButtonUpdate \/ ButtonUpdateFails
  BY <1>8 DEF ButtonUpdate, ButtonUpdateFails, LightInv, PressInv
<1>9. CASE PowerCycle \/ FactoryReset
  BY <1>9, FreeType DEF PowerCycle, FactoryReset, Restart, RestoreInv
<1>10. CASE UNCHANGED vars
  BY <1>10 DEF vars, LightInv, RestoreInv
<1> QED
  BY <1>1, <1>2, <1>3, <1>4, <1>5, <1>6, <1>7, <1>8, <1>9, <1>10, <1>11
     DEF Next, Restore

\* What the invariant says of a quiet light.
LEMMA QuietLight ==
  LightInv /\ Quiet => cache = Mirror(nv) /\ target = Render(Mirror(nv))
<1> SUFFICES ASSUME LightInv, Quiet
             PROVE  cache = Mirror(nv) /\ target = Render(Mirror(nv))
  OBVIOUS
<1>1. /\ cache \in Cache /\ nv \in Store /\ DOMAIN call.todo = {}
      /\ call.at = "free" /\ main.at = "done"
  BY DEF LightInv, TypeOK, Quiet
<1>2. /\ \A attr \in Numbers : cache[attr] = nv[attr]
      /\ InMode(cache, nv.mode) /\ target = Render(cache)
  BY <1>1 DEF LightInv, SyncInv
<1>3. cache = Mirror(nv)
  <2>1. /\ cache.on = nv.on /\ cache.level = nv.level /\ cache.x = nv.x
        /\ cache.y = nv.y /\ cache.mireds = nv.mireds
    BY <1>2 DEF Numbers
  <2>2. cache.useTemp = (nv.mode = Temp)
    <3>1. cache.useTemp \in BOOLEAN
      BY <1>1 DEF Cache
    <3> QED
      BY <1>2, <3>1, Zenon DEF InMode
  <2>3. cache = [on |-> cache.on, level |-> cache.level, x |-> cache.x, y |-> cache.y,
                 mireds |-> cache.mireds, useTemp |-> cache.useTemp]
    BY <1>1 DEF Cache
  <2> QED
    BY <2>1, <2>2, <2>3, Zenon DEF Mirror
<1> QED
  BY <1>2, <1>3

\* With no start-up temperature stored a restart finds the colour it left.
LEMMA StartUpKeeps == nv.startUp = Null => StartUp(nv) = nv
BY DEF StartUp

LEMMA FreshStartUp == StartUp(Fresh) = Fresh
BY DEF StartUp, Fresh

LEMMA NextLeftInv ==
  ASSUME LightInv, [Next]_vars, WritesDuringRestore = FALSE
  PROVE  LeftInv'
<1>0. /\ nv \in Store /\ NotLeft.rgb = Unknown
      /\ call.at # "free" => main.at = "done" /\ left.rgb = Unknown
      /\ main.at = "done" /\ ~failed => nv.startUp = Null
  BY DEF LightInv, TypeOK, RestoreInv, LeftInv, Free, NotLeft
<1>1. CASE StoreValue
  <2>1. /\ Head(call.todo) \in Writes /\ left'.rgb = Unknown
        /\ UNCHANGED <<main, failed>> /\ main.at = "done"
        /\ nv' = [nv EXCEPT ![Head(call.todo).attr] = Head(call.todo).val]
    BY <1>0, <1>1, AdvanceCall DEF StoreValue, LightInv, TypeOK, CallType
  <2>2. nv'.startUp = nv.startUp
    BY <1>0, <2>1, StoredFields
  <2> QED
    BY <1>0, <2>1, <2>2 DEF LeftInv
<1>2. CASE Callback \/ CallRender \/ CallFade
  <2>1. UNCHANGED <<nv, main, failed, left>> /\ left.rgb = Unknown
    BY <1>0, <1>2 DEF Callback, CallRender, CallFade
  <2> QED
    BY <2>1 DEF LightInv, LeftInv
<1>3. CASE GetVal \/ AssignVal \/ RepairFails \/ MainRender \/ MainSet
  <2>1. /\ UNCHANGED <<nv, call, left>>
        /\ \/ main'.at \in {"get", "assign", "repair"} \/ failed'
           \/ nv.startUp = Null
    BY <1>3 DEF GetVal, AssignVal, RepairFails, MainRender, MainSet, LightInv, TypeOK,
       LeftInv
  <2> QED
    BY <2>1 DEF LightInv, LeftInv
<1>4. CASE Repair
  <2>1. /\ nv'.startUp = Null /\ Mirror(nv') = Mirror(nv)
        /\ UNCHANGED <<call, left>>
    BY <1>0, <1>4 DEF Repair, Store, Mirror
  <2> QED
    BY <2>1 DEF LightInv, LeftInv
<1>5. CASE Command \/ ButtonUpdate
  <2>1. UNCHANGED <<nv, main, failed>> /\ left'.rgb = Unknown
    BY <1>0, <1>5 DEF Command, ButtonUpdate
  <2> QED
    BY <2>1 DEF LightInv, LeftInv
<1>6. CASE PowerCycle
  <2>1. /\ nv' = StartUp(nv) /\ call' = Free /\ main' = Booting
        /\ left' = IF Quiet THEN [rgb |-> target, failed |-> failed] ELSE left
    BY <1>6 DEF PowerCycle, Restart
  <2>2. CASE Quiet
    <3>1. /\ left'.rgb = Render(Mirror(nv))
          /\ ~left'.failed => nv.startUp = Null
      BY <1>0, <2>1, <2>2, QuietLight DEF Quiet
    <3> QED
      BY <2>1, <3>1, FreeType, StartUpKeeps DEF LeftInv
  <2>3. CASE ~Quiet
    BY <2>1, <2>3, FreeType, StartUpKeeps DEF LightInv, LeftInv
  <2> QED
    BY <2>2, <2>3
<1>7. CASE FactoryReset
  <2>1. nv' = Fresh /\ left'.rgb = Unknown
    BY <1>0, <1>7, FreshStartUp DEF FactoryReset, Restart
  <2> QED
    BY <2>1 DEF LeftInv, Fresh
<1>8. CASE Press \/ ButtonUpdateFails \/ UNCHANGED vars
  BY <1>8 DEF Press, ButtonUpdateFails, vars, LightInv, LeftInv
<1> QED
  BY <1>1, <1>2, <1>3, <1>4, <1>5, <1>6, <1>7, <1>8 DEF Next, Update, Restore

LEMMA InitLightInv == Init => LightInv
<1> SUFFICES ASSUME Init PROVE LightInv
  OBVIOUS
<1>1. /\ main.at = "get" /\ main.next = 1 /\ call = Free /\ button = Untouched
      /\ left.rgb = Unknown
  BY FreeType DEF Init, NotLeft
<1>2. RestoreInv /\ SyncInv /\ LeftInv
  BY <1>1 DEF RestoreInv, SyncInv, LeftInv
<1> QED
  BY <1>2, InitTypeOK, InitCallInv, InitPressInv DEF LightInv

LEMMA LightInvInvariant ==
  ASSUME WritesDuringRestore = FALSE
  PROVE  Spec => []LightInv
<1>1. LightInv /\ [Next]_vars => LightInv'
  BY NextTypeOK, NextCallInv, NextPressInv, NextSyncInv, NextRestoreInv, NextLeftInv
     DEF LightInv
<1> QED
  BY <1>1, InitLightInv, PTL DEF Spec

\* Without a command during the restore, the cache that the next callback renders
\* from is what the store says, whenever nothing is under way.
THEOREM CacheIsMirror ==
  ASSUME WritesDuringRestore = FALSE
  PROVE  Spec => []CacheMirrorsStore
<1>1. LightInv => CacheMirrorsStore
  BY QuietLight DEF CacheMirrorsStore
<1> QED
  BY <1>1, LightInvInvariant, PTL

\* And the LED is headed for the colour the attributes say.
THEOREM LedFollows ==
  ASSUME WritesDuringRestore = FALSE
  PROVE  Spec => []LedFollowsStore
<1>1. LightInv => LedFollowsStore
  BY QuietLight DEF LedFollowsStore
<1> QED
  BY <1>1, LightInvInvariant, PTL

\* After a power cut at any moment, or several, the light comes back at the colour
\* it was left at, also from a start-up temperature of an earlier build whose null
\* had been written by then; whether the write fails in later boots does not matter.
THEOREM ComesBack ==
  ASSUME WritesDuringRestore = FALSE
  PROVE  Spec => []ComesBackAsLeft
<1>1. LightInv => ComesBackAsLeft
  BY QuietLight DEF ComesBackAsLeft, LightInv, LeftInv
<1> QED
  BY <1>1, LightInvInvariant, PTL

-----------------------------------------------------------------------------
(* The light is a lamp *)

\* A light that becomes quiet has its LED headed for what the attributes say.
LEMMA QuietNext == LightInv' /\ Quiet' => target' = Render(Mirror(nv))'
<1>1. LightInv /\ Quiet => target = Render(Mirror(nv))
  BY QuietLight
<1>2. (LightInv /\ Quiet => target = Render(Mirror(nv)))'
  BY <1>1, PTL
<1> QED
  BY <1>2

LEMMA RenderedStore == TypeOK => Render(Mirror(nv)) \in Shades
BY MirrorType, RenderType DEF TypeOK

LEMMA RenderedStoreNext == TypeOK' => Render(Mirror(nv))' \in Shades
<1>1. (TypeOK => Render(Mirror(nv)) \in Shades)'
  BY RenderedStore, PTL
<1> QED
  BY <1>1

LEMMA InitIsLamp == Init => AsLamp!Init
<1> SUFFICES ASSUME Init PROVE AsLamp!Init
  OBVIOUS
<1>1. Render(Mirror(nv)) \in Shades
  BY InitTypeOK, RenderedStore
<1>2. Phase = "restoring" /\ target = Black
  BY FreeType DEF Init, Phase
<1> QED
  BY <1>1, <1>2 DEF AsLamp!Init

\* Storing an attribute may change what the attributes say, a fade what is shown;
\* where the call ends with it, the LED is at what they say.  The restore shows
\* it at its end, having stopped the start-up temperature or not; commands and
\* presses begin the work; the rest is not seen.
LEMMA NextIsLamp ==
  ASSUME LightInv, LightInv', [Next]_vars, WritesDuringRestore = FALSE
  PROVE  [AsLamp!Next]_(AsLamp!lamp)
<1> DEFINE Said == Render(Mirror(nv))
           Kept == nv.startUp = Null
<1> SUFFICES \/ AsLamp!Next
             \/ UNCHANGED <<Said, Kept, target, Phase>>
  BY DEF AsLamp!lamp
<1>0. /\ Said' \in Shades /\ target' \in Shades
      /\ Quiet' => target' = Said'
      /\ call.at # "free" => main.at = "done"
      /\ Quiet' <=> Phase' = "quiet"
  BY QuietNext, RenderedStoreNext DEF LightInv, TypeOK, RestoreInv, Free, Phase, Quiet
<1>1. CASE StoreValue
  <2>1. /\ Phase = "working" /\ target' = target /\ main.at = "done" /\ main' = main
        /\ Kept' = Kept
        /\ call'.at # "free" \/ nv' = nv
    <3>1. /\ call.at = "store" /\ UNCHANGED <<target, main>>
          /\ \/ call' = [call EXCEPT !.at = "callback"]
             \/ nv[Head(call.todo).attr] = Head(call.todo).val
          /\ nv' = [nv EXCEPT ![Head(call.todo).attr] = Head(call.todo).val]
      BY <1>1 DEF StoreValue
    <3>2. /\ nv \in Store /\ Head(call.todo) \in Writes
          /\ call \in CallType
      BY <3>1, AdvanceCall DEF LightInv, TypeOK, CallType
    <3>3. call' = [call EXCEPT !.at = "callback"] => call'.at = "callback"
      BY <3>2 DEF CallType
    <3>4. /\ nv[Head(call.todo).attr] = Head(call.todo).val => nv' = nv
          /\ nv'.startUp = nv.startUp
      BY <3>1, <3>2, StoredFields
    <3> QED
      BY <1>0, <3>1, <3>3, <3>4 DEF Phase
  <2>2. CASE call'.at = "free"
    <3>1. Phase' = "quiet" /\ target' = Said' /\ Said' = Said
      BY <1>0, <2>1, <2>2 DEF Quiet
    <3> QED
      BY <2>1, <3>1 DEF AsLamp!Next, AsLamp!Settle
  <2>3. CASE call'.at # "free"
    BY <1>0, <2>1, <2>3 DEF Phase, AsLamp!Next, AsLamp!Store
  <2> QED
    BY <2>2, <2>3
<1>2. CASE Callback \/ CallRender
  <2>1. UNCHANGED <<nv, target, main>> /\ call.at # "free" /\ call'.at # "free"
    BY <1>2 DEF Callback, CallRender, LightInv, TypeOK
  <2> QED
    BY <2>1 DEF Phase
<1>3. CASE CallFade
  <2>1. /\ UNCHANGED <<nv, main>> /\ call.at = "fade" /\ main.at = "done"
        /\ Said' = Said /\ Kept' = Kept /\ Phase = "working"
    BY <1>0, <1>3 DEF CallFade, Phase
  <2>2. CASE call'.at = "free"
    <3>1. Phase' = "quiet" /\ target' = Said'
      BY <1>0, <2>1, <2>2 DEF Quiet
    <3> QED
      BY <2>1, <3>1 DEF AsLamp!Next, AsLamp!Settle
  <2>3. CASE call'.at # "free"
    BY <1>0, <2>1, <2>3 DEF Phase, AsLamp!Next, AsLamp!Show
  <2> QED
    BY <2>2, <2>3
<1>4. CASE GetVal \/ AssignVal \/ RepairFails \/ MainRender
  <2>1. UNCHANGED <<nv, target>> /\ main.at # "done" /\ main'.at # "done"
    BY <1>4 DEF GetVal, AssignVal, RepairFails, MainRender, LightInv, TypeOK
  <2> QED
    BY <2>1 DEF Phase
<1>5. CASE Repair
  <2>1. /\ Mirror(nv') = Mirror(nv) /\ UNCHANGED target
        /\ main.at # "done" /\ main'.at # "done" /\ Kept'
    BY <1>5 DEF Repair, LightInv, TypeOK, Store, Mirror
  <2>2. Phase = "restoring" /\ Phase' = "restoring" /\ Kept' = TRUE /\ Said' = Said
    BY <2>1 DEF Phase
  <2> QED
    BY <2>1, <2>2 DEF AsLamp!Next, AsLamp!Heal
<1>6. CASE MainSet
  <2>1. /\ main.at # "done" /\ main'.at = "done" /\ UNCHANGED <<nv, call>>
        /\ call.at = "free"
    BY <1>6, FreeType DEF MainSet, LightInv, TypeOK, RestoreInv
  <2>2. /\ Phase = "restoring" /\ Phase' = "quiet" /\ target' = Said' /\ Said' = Said
        /\ Kept' = Kept
    BY <1>0, <2>1 DEF Phase, Quiet
  <2> QED
    BY <2>2 DEF AsLamp!Next, AsLamp!Settle
<1>7. CASE Command \/ ButtonUpdate
  <2>1. /\ UNCHANGED <<nv, target, main>> /\ call.at = "free" /\ call'.at = "store"
        /\ main.at = "done"
    BY <1>7 DEF Command, ButtonUpdate, Begin, LightInv, PressInv
  <2>2. Phase = "quiet" /\ Phase' = "working" /\ UNCHANGED <<Said, Kept, target>>
    BY <2>1 DEF Phase
  <2> QED
    BY <2>2 DEF AsLamp!Next, AsLamp!Command
<1>8. CASE PowerCycle
  <2>1. /\ nv' = StartUp(nv) /\ target' = Black /\ Phase' = "restoring"
        /\ nv'.startUp = nv.startUp
    BY <1>8, FreeType DEF PowerCycle, Restart, Phase, StartUp, LightInv, TypeOK, Store
  <2>2. Kept' = Kept /\ (Kept => Said' = Said)
    BY <2>1, StartUpKeeps
  <2> QED
    BY <1>0, <2>1, <2>2 DEF AsLamp!Next, AsLamp!PowerCycle
<1>9. CASE FactoryReset
  <2>1. nv' = Fresh /\ target' = Black /\ Phase' = "restoring"
    BY <1>9, FreshStartUp, FreeType DEF FactoryReset, Restart, Phase
  <2>2. Said' = Render(Mirror(Fresh)) /\ Kept' = TRUE
    BY <2>1 DEF Fresh
  <2> QED
    BY <2>1, <2>2 DEF AsLamp!Next, AsLamp!FactoryReset
<1>10. CASE Press \/ ButtonUpdateFails \/ UNCHANGED vars
  BY <1>10 DEF Press, ButtonUpdateFails, vars, Phase
<1> QED
  BY <1>1, <1>2, <1>3, <1>4, <1>5, <1>6, <1>7, <1>8, <1>9, <1>10
     DEF Next, Update, Restore

\* Without a command during the restore the light implements the lamp: whatever
\* is interleaved, cut off or fails to be written, only commands and presses change
\* the colour its attributes say, and a power cut only while a start-up temperature
\* is stored; and it is at that colour whenever it is quiet.
THEOREM LightIsLamp ==
  ASSUME WritesDuringRestore = FALSE
  PROVE  Spec => IsLamp
<1>1. LightInv /\ LightInv' /\ [Next]_vars => [AsLamp!Next]_(AsLamp!lamp)
  BY NextIsLamp
<1> QED
  BY <1>1, InitIsLamp, LightInvInvariant, PTL DEF Spec, IsLamp, AsLamp!Spec

=============================================================================
