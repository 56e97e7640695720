------------------------------ MODULE AgentBuilder ------------------------------
(***************************************************************************)
(* The form that creates a managed agent (agents/new/page.tsx).  A preset   *)
(* fills the whole form; a runtime type brings its tools; the cubes of the  *)
(* metadata are ticked, and the members the form offers are those of the    *)
(* cubes ticked.  Names, prompts, topics, environment references and the    *)
(* schedule's numbers, which are sent as typed, are left out.               *)
(***************************************************************************)
EXTENDS Naturals

Cubes == {"stats", "transfers"}
MembersOf(cube) == IF cube = "stats" THEN {"stats.count"} ELSE {"transfers.amount"}
AllMembers == UNION {MembersOf(c) : c \in Cubes}

Types == {"hedera", "elizaos"}
(* BASE_HEDERA_TOOLS, BASE_ELIZA_TOOLS *)
Tools(type) == IF type = "hedera" THEN {"publish"} ELSE {"bootstrap"}

Preset(type, cubes) == [type |-> type, cubes |-> cubes]
Presets == {Preset("hedera", Cubes), Preset("hedera", {"stats"}),
            Preset("elizaos", {"stats"})}

NoAgent == [type |-> "none"]

VARIABLES
  preset,           \* presetKey
  agentType,        \* type
  tools,            \* selectedTools
  cubes, members,   \* selectedCubes, selectedMembers
  metaKnown,        \* the metadata was answered
  request,          \* the agent being created
  unticked          \* a cube was unticked since the members were last
                    \* chosen as a whole (ghost)

builderVars == <<preset, agentType, tools, cubes, members, metaKnown, request,
                 unticked>>

BuilderTypeOK ==
  /\ preset \in Presets
  /\ agentType \in Types
  /\ tools \subseteq UNION {Tools(t) : t \in Types}
  /\ cubes \subseteq Cubes /\ members \subseteq AllMembers
  /\ {metaKnown, unticked} \subseteq BOOLEAN
  /\ request = NoAgent \/ request.members \subseteq AllMembers

(* The first render's effects fill the form and ask for the metadata. *)
BuilderInit ==
  /\ preset = Preset("hedera", Cubes)
  /\ agentType = preset.type
  /\ tools = Tools(preset.type)
  /\ cubes = preset.cubes /\ members = {}
  /\ metaKnown = FALSE
  /\ request = NoAgent
  /\ unticked = FALSE

MetaAnswered ==
  /\ ~metaKnown /\ metaKnown' = TRUE
  /\ UNCHANGED <<preset, agentType, tools, cubes, members, request, unticked>>

ChoosePreset(p) ==
  /\ p # preset /\ preset' = p
  /\ agentType' = p.type
  /\ tools' = Tools(p.type)
  /\ cubes' = p.cubes /\ members' = {}
  /\ unticked' = FALSE
  /\ UNCHANGED <<metaKnown, request>>

MutChooseType(t) ==  \* the tools of the type left stay ticked
  /\ t # agentType /\ agentType' = t
  /\ UNCHANGED <<preset, tools, cubes, members, metaKnown, request, unticked>>

ChooseType(t) ==
  /\ t # agentType /\ agentType' = t
  /\ tools' = Tools(t)
  /\ UNCHANGED <<preset, cubes, members, metaKnown, request, unticked>>

Toggled(x, set) == IF x \in set THEN set \ {x} ELSE set \cup {x}

ToggleTool(t) ==
  /\ t \in Tools(agentType)      \* availableTools
  /\ tools' = Toggled(t, tools)
  /\ UNCHANGED <<preset, agentType, cubes, members, metaKnown, request, unticked>>

(* Unticking a cube leaves its members ticked, and shows them no more. *)
ToggleCube(c) ==
  /\ metaKnown
  /\ cubes' = Toggled(c, cubes)
  /\ unticked' = (unticked \/ c \in cubes)
  /\ UNCHANGED <<preset, agentType, tools, members, metaKnown, request>>

MemberOptions == IF metaKnown THEN UNION {MembersOf(c) : c \in cubes} ELSE {}

ToggleMember(m) ==
  /\ m \in MemberOptions
  /\ members' = Toggled(m, members)
  /\ UNCHANGED <<preset, agentType, tools, cubes, metaKnown, request, unticked>>

AutoFill ==
  /\ members' = MemberOptions
  /\ unticked' = FALSE
  /\ UNCHANGED <<preset, agentType, tools, cubes, metaKnown, request>>

HandleCreate ==
  /\ request = NoAgent
  /\ request' = [type |-> agentType, tools |-> tools, cubes |-> cubes,
                 members |-> members, loose |-> unticked]
  /\ UNCHANGED <<preset, agentType, tools, cubes, members, metaKnown, unticked>>

(* The service refuses the agent; when it accepts it the page is left. *)
CreateFails ==
  /\ request # NoAgent /\ request' = NoAgent
  /\ UNCHANGED <<preset, agentType, tools, cubes, members, metaKnown, unticked>>

BuilderNext ==
  \/ MetaAnswered
  \/ \E p \in Presets : ChoosePreset(p)
  \/ \E t \in Types : ChooseType(t)
  \/ \E t \in UNION {Tools(u) : u \in Types} : ToggleTool(t)
  \/ \E c \in Cubes : ToggleCube(c)
  \/ \E m \in AllMembers : ToggleMember(m)
  \/ AutoFill \/ HandleCreate \/ CreateFails

-----------------------------------------------------------------------------
(* An agent is created with tools of its own runtime only, and with members *)
(* of its own cubes only, unless a cube was unticked after members were     *)
(* chosen.                                                                  *)
AgentAsOffered ==
  request # NoAgent =>
    /\ request.tools \subseteq Tools(request.type)
    /\ ~request.loose =>
         request.members \subseteq UNION {MembersOf(c) : c \in request.cubes}
=============================================================================
