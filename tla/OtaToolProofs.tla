---------------------------- MODULE OtaToolProofs ----------------------------
(***************************************************************************)
(* What holds of the release tool for any number of lights, nodes and      *)
(* releases, and wherever its commands were cut off.                       *)
(***************************************************************************)
EXTENDS OtaTool, TLAPS

\* The provider runs, and lights may have been told of it.
Serving == tool.at \in {"announce", "poll"}

\* config.json never promises more than the access list holds, and neither does
\* the tool once it has granted access: the flag is saved after the list is
\* written and cleared with the node that makes it out of date.
AccessInv ==
  /\ ready => devices \subseteq acl
  /\ tool.at \in {"commission", "grant"} => ~ready
  /\ tool.at = "save" \/ Serving => tool.devices \subseteq acl
  /\ tool.todo \subseteq tool.devices
  /\ told # {} => Serving
  /\ ToldMayFetch

\* No light runs a number that has not been given out, and none runs the number
\* that a release has just raised.
NumberInv ==
  /\ image <= number /\ tool.target <= number
  /\ \A l \in Lights : version[l] <= number
  /\ tool.at = "build" /\ tool.bumped => \A l \in Lights : version[l] < number

\* A node the offer has neither to visit nor to wait for is up to date.
UpToDate(n) == \E l \in Lights : node[l] = n /\ version[l] >= tool.target
OfferInv ==
  /\ Serving =>
       \A n \in tool.devices : n \in tool.todo \union tool.pending \/ UpToDate(n)
  /\ tool.at \in {"commission", "grant", "save"} => tool.todo = tool.devices
  /\ tool.at = "poll" => tool.todo = {}

\* The locals of a command that is not running, and of one that goes on.
LEMMA IdleTyped == ASSUME OtaToolAssumption PROVE Idle \in Tool
  <1>1. 0 \in 0..MaxNumber BY DEF OtaToolAssumption
  <1>2. {} \in SUBSET Nodes OBVIOUS
  <1> QED BY <1>1, <1>2 DEF Idle, Tool, At

LEMMA GotoTyped ==
  ASSUME NEW at \in At, tool \in Tool, Goto(at) PROVE tool' \in Tool
  BY DEF Goto, Tool

\* The initial state is well typed, and so is every step.
LEMMA TypeInit == ASSUME OtaToolAssumption, Init PROVE TypeOK
  <1>1. 1 \in 1..MaxNumber /\ 0 \in 0..MaxNumber /\ 1 \in 0..MaxNumber
    BY DEF OtaToolAssumption
  <1>2. tool \in Tool BY IdleTyped DEF Init
  <1> QED BY <1>1, <1>2 DEF Init, TypeOK, Idle

\* The tool's locals stay in their sets.
LEMMA ToolNext == ASSUME OtaToolAssumption, TypeOK, [Next]_vars PROVE tool' \in Tool
  <1>1. tool \in Tool /\ devices \in SUBSET Nodes /\ image \in 0..MaxNumber
    BY DEF TypeOK
  <1>2. CASE \E l \in Lights : Pair(l)
    <2>1. PICK n \in Nodes : tool' = [Idle EXCEPT !.at = "status", !.node = n]
      BY <1>2 DEF Pair
    <2> QED BY <2>1, IdleTyped DEF Tool, At
  <1>3. CASE \E l \in Lights : Announce(l)
    <2>1. PICK l \in Lights : Announce(l) BY <1>3
    <2>2. node[l] \in Nodes BY <1>1, <2>1 DEF Announce, Tool
    <2>3. PICK P \in SUBSET Nodes :
            tool' = [tool EXCEPT !.todo = @ \ {node[l]}, !.pending = P]
      <3>1. tool.pending \in SUBSET Nodes BY <1>1 DEF Tool
      <3>2. tool.pending \union {node[l]} \in SUBSET Nodes BY <2>2, <3>1
      <3>3. CASE version[l] < tool.target BY <2>1, <3>2, <3>3 DEF Announce
      <3>4. CASE ~(version[l] < tool.target) BY <2>1, <3>1, <3>4 DEF Announce
      <3> QED BY <3>3, <3>4
    <2>4. tool.todo \ {node[l]} \in SUBSET Nodes BY <1>1 DEF Tool
    <2> QED BY <1>1, <2>3, <2>4 DEF Tool
  <1>4. CASE \E l \in Lights : Poll(l)
    <2>1. PICK l \in Lights : Poll(l) BY <1>4
    <2>2. tool.pending \ {node[l]} \in SUBSET Nodes BY <1>1 DEF Tool
    <2> QED BY <1>1, <2>1, <2>2 DEF Poll, Tool
  <1>5. CASE \E l \in Lights : Update(l) BY <1>1, <1>5 DEF Update
  <1>6. CASE Record \/ Done \/ Raise BY <1>6, IdleTyped DEF Record, Done, Raise
  <1>7. CASE Bump \/ NoBump \/ Offer
    <2>1. tool' = [Idle EXCEPT !.at = "build", !.bumped = TRUE]
            \/ tool' = [Idle EXCEPT !.at = "build"] \/ tool' = [Idle EXCEPT !.at = "offer"]
      BY <1>7 DEF Bump, NoBump, Offer
    <2> QED BY <2>1, IdleTyped DEF Tool, At
  <1>8. CASE Status \/ Build \/ CommissionProvider \/ GrantAccess \/ Save \/ Announced
    BY <1>1, <1>8, GotoTyped
       DEF Status, Build, CommissionProvider, GrantAccess, Save, Announced, At
  <1>9. CASE Start
    <2>1. PICK at \in At :
            tool' = [tool EXCEPT !.at = at, !.devices = devices, !.todo = devices,
                                 !.target = image]
      BY <1>9 DEF Start, At
    <2> QED BY <1>1, <2>1 DEF Tool
  <1>10. CASE UNCHANGED vars BY <1>1, <1>10 DEF vars
  <1> QED BY <1>2, <1>3, <1>4, <1>5, <1>6, <1>7, <1>8, <1>9, <1>10 DEF Next

\* A light being paired has been given a node.
LEMMA NodeNext ==
  ASSUME TypeOK, [Next]_vars
  PROVE  tool'.at \in {"status", "record"} => tool'.node # 0
  <1> USE DEF TypeOK, Tool, Goto
  <1>1. CASE \E l \in Lights : Pair(l) BY <1>1 DEF Pair, Idle, Nodes
  <1>2. CASE \E l \in Lights : Announce(l) \/ Poll(l) \/ Update(l)
    BY <1>2 DEF Announce, Poll, Update
  <1>3. CASE Status \/ Build \/ CommissionProvider \/ GrantAccess \/ Save \/ Announced
    BY <1>3 DEF Status, Build, CommissionProvider, GrantAccess, Save, Announced
  <1>4. CASE Record \/ Bump \/ NoBump \/ Offer \/ Done \/ Raise
    <2>1. CASE Record \/ Done \/ Raise BY <2>1 DEF Record, Done, Raise, Idle
    <2>2. CASE Bump BY <2>2 DEF Bump, Idle
    <2>3. CASE NoBump BY <2>3 DEF NoBump, Idle
    <2>4. CASE Offer BY <2>4 DEF Offer, Idle
    <2> QED BY <1>4, <2>1, <2>2, <2>3, <2>4
  <1>5. CASE Start BY <1>5 DEF Start
  <1>6. CASE UNCHANGED vars BY <1>6 DEF vars
  <1> QED BY <1>1, <1>2, <1>3, <1>4, <1>5, <1>6 DEF Next

LEMMA TypeNext == ASSUME OtaToolAssumption, TypeOK, [Next]_vars PROVE TypeOK'
  <1>1. tool' \in Tool /\ (tool'.at \in {"status", "record"} => tool'.node # 0)
    BY ToolNext, NodeNext
  <1> USE DEF OtaToolAssumption, TypeOK, Config, House
  <1>2. CASE \E l \in Lights : Pair(l) BY <1>1, <1>2 DEF Pair
  <1>3. CASE \E l \in Lights : Announce(l) \/ Poll(l) BY <1>1, <1>3 DEF Announce, Poll
  <1>4. CASE \E l \in Lights : Update(l)
    <2>1. PICK l \in Lights : Update(l) BY <1>4
    <2>2. tool.target \in 0..MaxNumber /\ version[l] \in 1..MaxNumber BY DEF Tool
    <2>3. tool.target \in 1..MaxNumber BY <2>1, <2>2 DEF Update
    <2>4. version' \in [Lights -> 1..MaxNumber] BY <2>1, <2>3 DEF Update
    <2> QED BY <1>1, <2>1, <2>4 DEF Update
  <1>5. CASE Record
    <2>1. tool.node \in Nodes BY <1>5 DEF Record, Tool
    <2> QED BY <1>1, <1>5, <2>1 DEF Record
  <1>6. CASE Bump \/ Build BY <1>1, <1>6 DEF Bump, Build
  <1>7. CASE GrantAccess \/ Save BY <1>1, <1>7 DEF GrantAccess, Save, Tool
  <1>8. CASE NoBump \/ Offer \/ Start \/ Status \/ CommissionProvider \/ Announced
    BY <1>1, <1>8 DEF NoBump, Offer, Start, Status, CommissionProvider, Announced
  <1>9. CASE Done \/ Raise BY <1>1, <1>9 DEF Done, Raise
  <1>10. CASE UNCHANGED vars BY <1>1, <1>10 DEF vars
  <1> QED BY <1>2, <1>3, <1>4, <1>5, <1>6, <1>7, <1>8, <1>9, <1>10 DEF Next

\* Nodes, numbers and the tool's locals stay in their ranges.
THEOREM TypeCorrect == Spec => []TypeOK
  <1>1. Init => TypeOK BY OtaToolAssumption, TypeInit
  <1>2. TypeOK /\ [Next]_vars => TypeOK' BY OtaToolAssumption, TypeNext
  <1> QED BY <1>1, <1>2, PTL DEF Spec

\* A light is told of the provider only while the access list covers every node
\* of the offer, wherever the commands before it were cut off.
LEMMA AccessNext == ASSUME TypeOK, AccessInv, [Next]_vars PROVE AccessInv'
  <1> USE DEF TypeOK, Tool, AccessInv, Serving, ToldMayFetch, Goto, Config, House
  <1>1. CASE \E l \in Lights : Pair(l)
    <2>1. told = {} BY <1>1 DEF Pair
    <2> QED BY <1>1, <2>1 DEF Pair, Idle
  <1>2. CASE \E l \in Lights : Announce(l) BY <1>2 DEF Announce
  <1>3. CASE \E l \in Lights : Poll(l) BY <1>3 DEF Poll
  <1>4. CASE \E l \in Lights : Update(l) BY <1>4 DEF Update
  <1>5. CASE Status BY <1>5 DEF Status
  <1>6. CASE Record BY <1>6 DEF Record, Idle
  <1>7. CASE Bump \/ NoBump \/ Offer
    <2>1. told = {} /\ told' = {} BY <1>7 DEF Bump, NoBump, Offer
    <2>2. tool'.at \in {"build", "offer"} /\ tool'.todo = {} BY <1>7 DEF Bump, NoBump, Offer, Idle
    <2>3. UNCHANGED <<devices, ready, acl, node>> BY <1>7 DEF Bump, NoBump, Offer
    <2> QED BY <2>1, <2>2, <2>3
  <1>8. CASE Build BY <1>8 DEF Build
  <1>9. CASE Start BY <1>9 DEF Start
  <1>10. CASE CommissionProvider BY <1>10 DEF CommissionProvider
  <1>11. CASE GrantAccess
    <2>1. told = {} /\ told' = {} /\ ~ready /\ ready' = ready BY <1>11 DEF GrantAccess
    <2>2. tool'.at = "save" /\ tool'.devices = tool.devices /\ tool'.todo = tool.todo
      BY <1>11 DEF GrantAccess
    <2>3. acl' = tool.devices BY <1>11 DEF GrantAccess
    <2> QED BY <2>1, <2>2, <2>3
  <1>12. CASE Save BY <1>12 DEF Save
  <1>13. CASE Announced BY <1>13 DEF Announced
  <1>14. CASE Done \/ Raise BY <1>14 DEF Done, Raise, Idle
  <1>15. CASE UNCHANGED vars BY <1>15 DEF vars
  <1> QED BY <1>1, <1>2, <1>3, <1>4, <1>5, <1>6, <1>7, <1>8, <1>9, <1>10,
             <1>11, <1>12, <1>13, <1>14, <1>15 DEF Next

\* A light that was told of the provider is let in by it.
THEOREM ToldLightsMayFetch == Spec => []ToldMayFetch
  <1>1. Init => AccessInv BY DEF Init, AccessInv, Serving, ToldMayFetch, Idle
  <1>2. TypeOK /\ AccessInv /\ [Next]_vars => TypeOK' /\ AccessInv'
    BY OtaToolAssumption, TypeNext, AccessNext
  <1>3. Init => TypeOK BY OtaToolAssumption, TypeInit
  <1>4. AccessInv => ToldMayFetch BY DEF AccessInv
  <1> QED BY <1>1, <1>2, <1>3, <1>4, PTL DEF Spec

-----------------------------------------------------------------------------

\* Numbers only grow, and lights follow them.
LEMMA NumberNext ==
  ASSUME OtaToolAssumption, TypeOK, AccessInv, NumberInv, [Next]_vars
  PROVE  NumberInv'
  <1> USE DEF OtaToolAssumption, TypeOK, Tool, NumberInv, Goto, Config, House
  <1>1. CASE \E l \in Lights : Pair(l) BY <1>1 DEF Pair, Idle
  <1>2. CASE \E l \in Lights : Announce(l) \/ Poll(l) BY <1>2 DEF Announce, Poll
  <1>3. CASE \E l \in Lights : Update(l)
    <2>1. Serving BY <1>3 DEF Update, AccessInv
    <2>2. \A l \in Lights : version'[l] <= number BY <1>3 DEF Update
    <2> QED BY <1>3, <2>1, <2>2 DEF Update, Serving
  <1>4. CASE Bump
    <2>1. tool'.target = 0 /\ number' = number + 1 BY <1>4 DEF Bump, Idle
    <2>2. image' = image /\ version' = version BY <1>4 DEF Bump
    <2> QED BY <2>1, <2>2
  <1>10. CASE NoBump \/ Offer
    <2>1. tool'.target = 0 /\ ~tool'.bumped BY <1>10 DEF NoBump, Offer, Idle
    <2>2. UNCHANGED <<number, image, version>> BY <1>10 DEF NoBump, Offer
    <2> QED BY <2>1, <2>2
  <1>5. CASE Status \/ CommissionProvider \/ GrantAccess \/ Save \/ Announced
    BY <1>5 DEF Status, CommissionProvider, GrantAccess, Save, Announced
  <1>6. CASE Build BY <1>6 DEF Build
  <1>7. CASE Start BY <1>7 DEF Start
  <1>8. CASE Record \/ Done \/ Raise BY <1>8 DEF Record, Done, Raise, Idle
  <1>9. CASE UNCHANGED vars BY <1>9 DEF vars
  <1> QED BY <1>1, <1>2, <1>3, <1>4, <1>5, <1>6, <1>7, <1>8, <1>9,
             <1>10 DEF Next

\* A release that has raised the number offers an image newer than any light runs.
THEOREM ReleasesAreNewer == Spec => BumpedIsNewer
  <1> DEFINE Newer == tool.bumped /\ tool.at = "build" /\ tool'.at = "offer" =>
                        \A l \in Lights : image' > version[l]
  <1>1. Init => TypeOK /\ AccessInv
    <2>1. Init => TypeOK BY OtaToolAssumption, TypeInit
    <2>2. Init => AccessInv BY DEF Init, AccessInv, Serving, ToldMayFetch, Idle
    <2> QED BY <2>1, <2>2
  <1>2. Init => NumberInv BY DEF Init, NumberInv, Idle
  <1>3. TypeOK /\ AccessInv /\ NumberInv /\ [Next]_vars
          => TypeOK' /\ AccessInv' /\ NumberInv'
    BY OtaToolAssumption, TypeNext, AccessNext, NumberNext
  <1>4. TypeOK /\ NumberInv /\ [Next]_vars => [Newer]_vars
    <2> SUFFICES ASSUME TypeOK, NumberInv, Next,
                        tool.bumped, tool.at = "build", tool'.at = "offer"
                 PROVE  \A l \in Lights : image' > version[l]
      OBVIOUS
    <2>1. Build BY DEF Next, Pair, Announce, Poll, Update, Status, Record, Bump, NoBump,
                       Offer, Start, CommissionProvider, GrantAccess, Save, Announced,
                       Done, Raise, Idle
    <2> QED BY <2>1 DEF Build, NumberInv, TypeOK
  <1> QED BY <1>1, <1>2, <1>3, <1>4, PTL DEF Spec, BumpedIsNewer

-----------------------------------------------------------------------------

\* While the provider runs no light is paired and no light falls back.
LEMMA OfferNext ==
  ASSUME OtaToolAssumption, TypeOK, AccessInv, OfferInv, [Next]_vars
  PROVE  OfferInv'
  <1> USE DEF OtaToolAssumption, TypeOK, Tool, OfferInv, UpToDate, Serving, Goto, Config, House
  <1>1. CASE \E l \in Lights : Pair(l) BY <1>1 DEF Pair, Idle
  <1>2. CASE \E l \in Lights : Announce(l)
    <2> PICK l \in Lights : Announce(l) BY <1>2
    <2> QED BY DEF Announce
  <1>3. CASE \E l \in Lights : Poll(l)
    <2> PICK l \in Lights : Poll(l) BY <1>3
    <2> QED BY DEF Poll
  <1>4. CASE \E l \in Lights : Update(l)
    <2> PICK l \in Lights : Update(l) BY <1>4
    <2>1. \A k \in Lights : version'[k] >= version[k] BY DEF Update
    <2> QED BY <2>1 DEF Update
  <1>5. CASE Status \/ Build \/ CommissionProvider \/ GrantAccess
    BY <1>5 DEF Status, Build, CommissionProvider, GrantAccess
  <1>6. CASE Record \/ Bump \/ NoBump \/ Offer \/ Done \/ Raise
    <2>1. CASE Record \/ Done \/ Raise BY <2>1 DEF Record, Done, Raise, Idle
    <2>2. CASE Bump BY <2>2 DEF Bump, Idle
    <2>3. CASE NoBump BY <2>3 DEF NoBump, Idle
    <2>4. CASE Offer BY <2>4 DEF Offer, Idle
    <2> QED BY <1>6, <2>1, <2>2, <2>3, <2>4
  <1>7. CASE Start BY <1>7 DEF Start
  <1>8. CASE Save BY <1>8 DEF Save
  <1>9. CASE Announced BY <1>9 DEF Announced
  <1>10. CASE UNCHANGED vars BY <1>10 DEF vars
  <1> QED BY <1>1, <1>2, <1>3, <1>4, <1>5, <1>6, <1>7, <1>8, <1>9, <1>10 DEF Next

\* An offer that returns has reached every node it was made to.
THEOREM OffersReachAll == Spec => DoneMeansUpdated
  <1> DEFINE Reached == Done => \A n \in tool.devices : UpToDate(n)
  <1>1. Init => TypeOK /\ AccessInv
    <2>1. Init => TypeOK BY OtaToolAssumption, TypeInit
    <2>2. Init => AccessInv BY DEF Init, AccessInv, Serving, ToldMayFetch, Idle
    <2> QED BY <2>1, <2>2
  <1>2. Init => OfferInv BY DEF Init, OfferInv, Serving, Idle
  <1>3. TypeOK /\ AccessInv /\ OfferInv /\ [Next]_vars
          => TypeOK' /\ AccessInv' /\ OfferInv'
    BY OtaToolAssumption, TypeNext, AccessNext, OfferNext
  <1>4. OfferInv => [Reached]_vars BY DEF OfferInv, Serving, Done
  <1>5. [][Reached]_vars => DoneMeansUpdated BY PTL DEF DoneMeansUpdated, UpToDate
  <1> QED BY <1>1, <1>2, <1>3, <1>4, <1>5, PTL DEF Spec

=============================================================================
