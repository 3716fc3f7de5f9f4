------------------------------- MODULE OtaTool -------------------------------
(***************************************************************************)
(* The release tool, tools/ota/matter_ota.py: it pairs lights to a fabric  *)
(* of its own, raises the version number, builds, starts an OTA provider   *)
(* on that fabric, tells each light of it and waits for them to update.    *)
(*                                                                         *)
(* One command runs at a time.  Any call it makes may raise, and the user  *)
(* may interrupt it: "finally" then stops the provider, and what had been  *)
(* written to config.json, to CMakeLists.txt, to the provider's store and  *)
(* to the lights stays (Raise).  Whether a provider that is on the fabric  *)
(* already can be commissioned again is for the Matter SDK to say; here    *)
(* the call may succeed or raise.                                          *)
(***************************************************************************)
EXTENDS Integers

CONSTANTS
  Lights,     \* the lights of the house
  MaxNode,    \* bound: node ids the tool assigns
  MaxNumber   \* bound: PROJECT_VER_NUMBER

ASSUME OtaToolAssumption == MaxNode \in Nat /\ MaxNumber \in Nat \ {0}

VARIABLES
  number,    \* PROJECT_VER_NUMBER in CMakeLists.txt
  image,     \* the number in the header of OTA_BIN; 0 when there is none
  devices,   \* "devices" in config.json
  ready,     \* "provider_commissioned" in config.json
  acl,       \* nodes the provider's access list admits, kept in its store
  node,      \* each light's node id on the tool's fabric; 0 is not paired
  version,   \* the number of the firmware each light runs
  told,      \* lights told of the provider that runs now
  tool       \* where the command is, and its locals

vars == <<number, image, devices, ready, acl, node, version, told, tool>>

Nodes == 1..MaxNode

\* "idle"; the command pair about to read the new light's "status" or to "record"
\* it; a release about to "build"; an offer about to start ("offer"), to
\* "commission" the provider, to "grant" access, to "save" that it has, in the
\* loop that "announce"s the provider or in the one that "poll"s the lights.
At == {"idle", "status", "record", "build", "offer", "commission", "grant",
       "save", "announce", "poll"}

Idle == [at |-> "idle", node |-> 0, bumped |-> FALSE, devices |-> {},
         target |-> 0, todo |-> {}, pending |-> {}]

Tool == [at : At, node : Nodes \union {0}, bumped : BOOLEAN,
         devices : SUBSET Nodes, target : 0..MaxNumber,
         todo : SUBSET Nodes, pending : SUBSET Nodes]

TypeOK ==
  /\ number \in 1..MaxNumber /\ image \in 0..MaxNumber
  /\ devices \subseteq Nodes /\ ready \in BOOLEAN /\ acl \subseteq Nodes
  /\ node \in [Lights -> Nodes \union {0}]
  /\ version \in [Lights -> 1..MaxNumber]
  /\ told \subseteq Lights
  /\ tool \in Tool /\ (tool.at \in {"status", "record"} => tool.node # 0)

\* Every light was flashed over USB with the first build, perhaps from elsewhere.
Init ==
  /\ number = 1 /\ image \in {0, 1}
  /\ devices = {} /\ ready = FALSE /\ acl = {}
  /\ node = [l \in Lights |-> 0]
  /\ version = [l \in Lights |-> 1]
  /\ told = {}
  /\ tool = Idle

Goto(at) == tool' = [tool EXCEPT !.at = at]

\* What config.json, the provider and the lights hold.
Config == <<devices, ready>>
House  == <<node, version>>

-----------------------------------------------------------------------------
(* pair *)

\* max(cfg["devices"] + [0]) + 1
IsNextNode(n) == n - 1 \in devices \union {0} /\ \A m \in devices : m < n

Pair(l) ==
  /\ tool.at = "idle" /\ node[l] = 0
  /\ \E n \in Nodes :
       /\ IsNextNode(n)
       /\ node' = [node EXCEPT ![l] = n]
       /\ tool' = [Idle EXCEPT !.at = "status", !.node = n]
  /\ UNCHANGED <<number, image, Config, acl, version, told>>

Status ==
  /\ tool.at = "status"
  /\ Goto("record")
  /\ UNCHANGED <<number, image, Config, acl, House, told>>

\* Mutant of Record: the provider's access list is taken to cover the new node.
RecordKeepingReady ==
  /\ tool.at = "record"
  /\ devices' = devices \union {tool.node}
  /\ tool' = Idle
  /\ UNCHANGED <<number, image, ready, acl, House, told>>

Record ==
  /\ tool.at = "record"
  /\ devices' = devices \union {tool.node}
  /\ ready' = FALSE
  /\ tool' = Idle
  /\ UNCHANGED <<number, image, acl, House, told>>

-----------------------------------------------------------------------------
(* release *)

\* Mutant of Bump: the number is raised twice.
BumpTwice ==
  /\ tool.at = "idle" /\ number < MaxNumber
  /\ number' = number + 2
  /\ tool' = [Idle EXCEPT !.at = "build", !.bumped = TRUE]
  /\ UNCHANGED <<image, Config, acl, House, told>>

Bump ==
  /\ tool.at = "idle" /\ number < MaxNumber
  /\ number' = number + 1
  /\ tool' = [Idle EXCEPT !.at = "build", !.bumped = TRUE]
  /\ UNCHANGED <<image, Config, acl, House, told>>

NoBump ==
  /\ tool.at = "idle"
  /\ tool' = [Idle EXCEPT !.at = "build"]
  /\ UNCHANGED <<number, image, Config, acl, House, told>>

\* Mutant of Build: the release goes on with the old image when a build fails.
BuildUnchecked ==
  /\ tool.at = "build"
  /\ image' \in {image, number}
  /\ Goto("offer")
  /\ UNCHANGED <<number, Config, acl, House, told>>

Build ==
  /\ tool.at = "build"
  /\ image' = number
  /\ Goto("offer")
  /\ UNCHANGED <<number, Config, acl, House, told>>

-----------------------------------------------------------------------------
(* offer *)

Offer ==
  /\ tool.at = "idle"
  /\ tool' = [Idle EXCEPT !.at = "offer"]
  /\ UNCHANGED <<number, image, Config, acl, House, told>>

\* load_config and start_provider; without lights the command exits (Raise).
Start ==
  /\ tool.at = "offer" /\ devices # {} /\ image > 0
  /\ tool' = [tool EXCEPT !.at = IF ready THEN "announce" ELSE "commission",
                          !.devices = devices, !.todo = devices, !.target = image]
  /\ UNCHANGED <<number, image, Config, acl, House, told>>

CommissionProvider ==
  /\ tool.at = "commission"
  /\ Goto("grant")
  /\ UNCHANGED <<number, image, Config, acl, House, told>>

GrantAccess ==
  /\ tool.at = "grant"
  /\ acl' = tool.devices
  /\ Goto("save")
  /\ UNCHANGED <<number, image, Config, House, told>>

Save ==
  /\ tool.at = "save"
  /\ devices' = tool.devices /\ ready' = TRUE
  /\ Goto("announce")
  /\ UNCHANGED <<number, image, acl, House, told>>

\* read_state, and announce to a light that is not on the target yet.  The reads
\* of this loop are not guarded: a light that does not answer raises.
Announce(l) ==
  /\ tool.at = "announce" /\ node[l] \in tool.todo
  /\ LET behind == version[l] < tool.target
     IN  /\ told' = IF behind THEN told \union {l} ELSE told
         /\ tool' = [tool EXCEPT
              !.todo = @ \ {node[l]},
              !.pending = IF behind THEN @ \union {node[l]} ELSE @]
  /\ UNCHANGED <<number, image, Config, acl, House>>

Announced ==
  /\ tool.at = "announce" /\ tool.todo = {}
  /\ Goto("poll")
  /\ UNCHANGED <<number, image, Config, acl, House, told>>

\* Mutant of Poll: a light that does not answer is taken off the list.
PollGivingUp(l) ==
  /\ tool.at = "poll" /\ node[l] \in tool.pending
  /\ tool' = [tool EXCEPT !.pending = @ \ {node[l]}]
  /\ UNCHANGED <<number, image, Config, acl, House, told>>

\* A light that does not answer, or not with the target, stays on the list.
Poll(l) ==
  /\ tool.at = "poll" /\ node[l] \in tool.pending /\ version[l] = tool.target
  /\ tool' = [tool EXCEPT !.pending = @ \ {node[l]}]
  /\ UNCHANGED <<number, image, Config, acl, House, told>>

\* The command returns, and stops the provider.
Done ==
  /\ tool.at = "poll" /\ tool.pending = {}
  /\ tool' = Idle /\ told' = {}
  /\ UNCHANGED <<number, image, Config, acl, House>>

\* An exception, an exit with an error (no lights, no image, the time-out of the
\* polls) or an interrupt, in the middle of any command.
Raise ==
  /\ tool.at # "idle"
  /\ tool' = Idle /\ told' = {}
  /\ UNCHANGED <<number, image, Config, acl, House>>

-----------------------------------------------------------------------------
(* The lights, while the provider runs *)

\* A light fetches the image, if the access list lets it, and starts it; one it
\* cannot start is rolled back (module OtaSlots), and the light is not told again.
Update(l) ==
  /\ l \in told /\ node[l] \in acl /\ version[l] < tool.target
  /\ \/ version' = [version EXCEPT ![l] = tool.target]
     \/ UNCHANGED version
  /\ told' = told \ {l}
  /\ UNCHANGED <<number, image, Config, acl, node, tool>>

Next ==
  \/ \E l \in Lights : Pair(l) \/ Announce(l) \/ Poll(l) \/ Update(l)
  \/ Status \/ Record \/ Bump \/ NoBump \/ Build
  \/ Offer \/ Start \/ CommissionProvider \/ GrantAccess \/ Save
  \/ Announced \/ Done \/ Raise

Spec == Init /\ [][Next]_vars

-----------------------------------------------------------------------------
(* Correctness *)

\* A light told of the provider is let in by it, whatever commands were
\* interrupted before, and although the access list is only written when
\* config.json says that it is out of date.
ToldMayFetch == \A l \in told : node[l] \in acl

\* An offer that returns has reached every node it was made to: a light of that
\* node runs the target or something newer, however long it did not answer.
DoneMeansUpdated ==
  [][Done =>
       \A n \in tool.devices :
         \E l \in Lights : node[l] = n /\ version[l] >= tool.target]_vars

\* A release that has raised the number offers an image newer than what any light
\* runs, also after releases that failed to build or were cut off.
BumpedIsNewer ==
  [][tool.bumped /\ tool.at = "build" /\ tool'.at = "offer" =>
       \A l \in Lights : image' > version[l]]_vars

=============================================================================
