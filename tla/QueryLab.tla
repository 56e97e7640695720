------------------------------- MODULE QueryLab -------------------------------
(***************************************************************************)
(* The query lab of the dashboard (modeling/query/page.tsx): a Cube query   *)
(* is edited as JSON, its members are compared with the metadata the page   *)
(* last loaded, and it is sent to be run or compiled to SQL; a SQL tab is   *)
(* independent of Cube.  A query is a record of the sets of members its     *)
(* parts name, a filter a record of its own member and of the filters under *)
(* its `or` and `and`, an order a set of names with the way each is written; *)
(* limits, values, directions, operators, the search box and the scrolling  *)
(* list are left out.                                                       *)
(***************************************************************************)
EXTENDS Integers, SequencesExt

CONSTANTS MaxMetaLoads,   \* bound: metadata loads under way
          MaxRecent       \* RECENT: members remembered (20)

Measures == {"count", "total"}
Dimensions == {"day"}
Members == {[type |-> "measure", name |-> n] : n \in Measures} \cup
           {[type |-> "dimension", name |-> n] : n \in Dimensions}

(* toLowerCase on the names used here. *)
Lower(n) == IF n = "COUNT" THEN "count" ELSE n

(* What /cubejs-api/v1/meta may answer: the members of the model's cubes. *)
Metas == {Members, {m \in Members : m.name = "count"}}

NoName == "-"
Leaf(n) == [member |-> n, or |-> {}, and |-> {}]
Group(os, as) == [member |-> NoName, or |-> os, and |-> as]
(* An order is an object of keys, or an array of texts, of objects with an   *)
(* id or a member, and of pairs of a name and a direction.                  *)
By(form, n) == [as |-> form, name |-> n]
EmptyQuery == [measures |-> {}, dimensions |-> {}, timeDimensions |-> {},
               filters |-> {}, order |-> {}, segments |-> {}]
Invalid == [EmptyQuery EXCEPT !.measures = {NoName}]   \* text JSON.parse refuses

(* What is typed into the editor: a query of every part, filters nested in  *)
(* both ways, an order of every form, a segment, a name in another case,    *)
(* text that is not JSON.                                                   *)
Typed ==
  {Invalid, EmptyQuery,
   [EmptyQuery EXCEPT !.measures = {"COUNT"}, !.order = {By("key", "total")}],
   [EmptyQuery EXCEPT !.order = {By("text", "count"), By("id", "total"), By("member", "day")}],
   [EmptyQuery EXCEPT !.order = {By("pair", "total")}, !.segments = {"recent"}],
   [EmptyQuery EXCEPT !.timeDimensions = {"day"}],
   [EmptyQuery EXCEPT !.filters = {Leaf("count"), Group({Leaf("total")}, {})}],
   [EmptyQuery EXCEPT !.filters = {Group({Group({}, {Leaf("day")})}, {})}]}

VARIABLES
  cubeReady,       \* the shared status says Cube is up
  cubeMeta,        \* the metadata shown
  metaLoads,       \* loads of it under way
  queryDraft,      \* the query in the editor
  labBusy,         \* executing: "none", "cube", "cube-sql" or "sql"
  sent,            \* the query being run, with the metadata shown then
  recent           \* recentMemberIds

labVars == <<cubeReady, cubeMeta, metaLoads, queryDraft, labBusy, sent,
             recent>>

-----------------------------------------------------------------------------
MutPush(f) == f.or  \* the filters under `and` are not pushed

(* What a popped filter pushes on the stack. *)
Push(f) == f.or \cup f.and

(* The filters a loop over the stack pops, for those nested three deep, which *)
(* is the bound on those typed: each is popped once and pushes its groups.    *)
Under(fs) == UNION {Push(f) : f \in fs}
CollectFilterMembers(stack) ==
  {f.member : f \in stack \cup Under(stack) \cup Under(Under(stack))} \ {NoName}

(* A pair of an array is an object without an id or a member. *)
CollectOrder(order) == {o.name : o \in {x \in order : x.as # "pair"}}

(* Segments are not looked at. *)
CollectSemanticMembers(q) ==
  q.measures \cup q.dimensions \cup q.timeDimensions \cup
  CollectFilterMembers(q.filters) \cup CollectOrder(q.order)

SemanticErrors(q, meta) ==
  LET allowlist == {Lower(m.name) : m \in meta}
  IN  IF q = Invalid THEN {}
      ELSE {n \in CollectSemanticMembers(q) : Lower(n) \notin allowlist}

QueryReady == queryDraft # Invalid /\ SemanticErrors(queryDraft, cubeMeta) = {}

InsertMemberIntoQueryDraft(q, m) ==
  IF m.type = "measure" THEN [q EXCEPT !.measures = @ \cup {m.name}]
  ELSE [q EXCEPT !.dimensions = @ \cup {m.name}]

UpdateRecentMembers(existing, next) ==
  LET deduped == <<next>> \o SelectSeq(existing, LAMBDA i : i # next)
  IN  SubSeq(deduped, 1, IF Len(deduped) < MaxRecent THEN Len(deduped)
                         ELSE MaxRecent)

-----------------------------------------------------------------------------
NoQuery == [query |-> Invalid, meta |-> {}]

LabTypeOK ==
  /\ cubeReady \in BOOLEAN
  /\ cubeMeta \in Metas \cup {{}}
  /\ metaLoads \in 0..MaxMetaLoads
  /\ DOMAIN queryDraft = DOMAIN EmptyQuery
  /\ labBusy \in {"none", "cube", "cube-sql", "sql"}
  /\ DOMAIN sent = DOMAIN NoQuery
  /\ recent \in BoundedSeq(Members, MaxRecent)

(* The first render's effect loads the metadata when Cube is up. *)
LabInit ==
  /\ cubeReady \in BOOLEAN
  /\ cubeMeta = {}
  /\ metaLoads = IF cubeReady THEN 1 ELSE 0
  /\ queryDraft = [EmptyQuery EXCEPT !.measures = {"count"}]
  /\ labBusy = "none"
  /\ sent = NoQuery
  /\ recent = <<>>

(* The shared status changes; the effect on it loads the metadata again. *)
CubeChanges ==
  /\ cubeReady' = ~cubeReady
  /\ IF cubeReady THEN UNCHANGED metaLoads
     ELSE /\ metaLoads < MaxMetaLoads
          /\ metaLoads' = metaLoads + 1
  /\ UNCHANGED <<cubeMeta, queryDraft, labBusy, sent, recent>>

RefreshMeta ==
  /\ cubeReady /\ metaLoads < MaxMetaLoads
  /\ metaLoads' = metaLoads + 1
  /\ UNCHANGED <<cubeReady, cubeMeta, queryDraft, labBusy, sent, recent>>

(* A load answers, or fails and leaves the metadata shown. *)
MetaReturns ==
  /\ metaLoads > 0
  /\ metaLoads' = metaLoads - 1
  /\ cubeMeta' \in Metas \cup {cubeMeta}
  /\ UNCHANGED <<cubeReady, queryDraft, labBusy, sent, recent>>

TypeQuery ==
  /\ queryDraft' \in Typed
  /\ UNCHANGED <<cubeReady, cubeMeta, metaLoads, labBusy, sent, recent>>

InsertMember ==
  /\ cubeReady /\ queryDraft # Invalid
  /\ \E m \in cubeMeta :
       /\ queryDraft' = InsertMemberIntoQueryDraft(queryDraft, m)
       /\ recent' = UpdateRecentMembers(recent, m)
  /\ UNCHANGED <<cubeReady, cubeMeta, metaLoads, labBusy, sent>>

(* copyMember, when the clipboard takes the name. *)
CopyMember ==
  /\ cubeReady
  /\ \E m \in cubeMeta : recent' = UpdateRecentMembers(recent, m)
  /\ UNCHANGED <<cubeReady, cubeMeta, metaLoads, queryDraft, labBusy, sent>>

(* runCubeLoad and compileCubeSql, by buttons disabled under the same terms. *)
SendToCube ==
  /\ labBusy = "none" /\ cubeReady /\ QueryReady
  /\ labBusy' \in {"cube", "cube-sql"}
  /\ sent' = [query |-> queryDraft, meta |-> cubeMeta]
  /\ UNCHANGED <<cubeReady, cubeMeta, metaLoads, queryDraft, recent>>

RunSql ==
  /\ labBusy = "none"
  /\ labBusy' = "sql"
  /\ UNCHANGED <<cubeReady, cubeMeta, metaLoads, queryDraft, sent, recent>>

Returns ==
  /\ labBusy # "none"
  /\ labBusy' = "none" /\ sent' = NoQuery
  /\ UNCHANGED <<cubeReady, cubeMeta, metaLoads, queryDraft, recent>>

LabNext ==
  \/ CubeChanges \/ RefreshMeta \/ MetaReturns
  \/ TypeQuery \/ InsertMember \/ CopyMember
  \/ SendToCube \/ RunSql \/ Returns

-----------------------------------------------------------------------------
(* Every member a filter names itself, in its groups and in theirs. *)
Groups(f) == f.or \cup f.and
Named(f) == {g.member : g \in {f} \cup Groups(f) \cup UNION {Groups(h) : h \in Groups(f)}}
            \ {NoName}

(* A query sent to Cube names, in filters at every depth as in its other   *)
(* parts, only members of the metadata shown when it was sent (letter case  *)
(* aside); but the pairs of an order and the segments may name any.         *)
OnlyListedMembers ==
  LET q == sent.query
      ordered == {o \in q.order : o.as \in {"key", "text", "id", "member"}}
      names == q.measures \cup q.dimensions \cup q.timeDimensions
               \cup {o.name : o \in ordered} \cup UNION {Named(f) : f \in q.filters}
  IN  q # Invalid => {Lower(n) : n \in names} \subseteq {m.name : m \in sent.meta}
=============================================================================
