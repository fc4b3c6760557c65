-------------------------- MODULE TemplateContract --------------------------
(***************************************************************************)
(* The template synthesis adapter: the six contracts it can emit, and the  *)
(* repairs it makes to one of them from the diagnostics of a validation.   *)
(* Which diagnostics come back is open: any checks, naming any parts.      *)
(*                                                                         *)
(* Lengths are in tenths of a millimetre and masses in sixths of a gram,   *)
(* in which every number below is whole.  A part keeps its node, its       *)
(* extents along x, y and z (for a cylinder only the height, along y),     *)
(* its offset, mass, component path, whether it collides, whether its      *)
(* colour parses, and its explode window.                                  *)
(***************************************************************************)
EXTENDS Integers, Sequences, FiniteSets, SequencesExt, FiniteSetsExt, Functions

CONSTANTS Components,        \* approved components: id, category, revision
          Requested,         \* archetypes a request may name, None for none
          Mentions,          \* keyword families a prompt may mention
          Flaggings,         \* sets of part numbers a validation may name as oversized
          MaxRepairs,        \* MAX_REPAIR_ITERATIONS
          None

VARIABLES request,    \* archetype named, families mentioned
          contract,   \* the candidate
          repairs     \* repairs made

vars == <<request, contract, repairs>>

Archetypes == {"rover", "quadruped", "biped", "arm", "fixedwing", "multirotor"}

(* The first family in this order that the prompt mentions decides.        *)
inferArchetype(r) ==
  IF r.named # None THEN r.named
  ELSE LET order == <<"rover", "quadruped", "biped", "arm", "fixedwing">>
           hit == {i \in DOMAIN order : order[i] \in r.mentions}
       IN IF hit = {} THEN "multirotor" ELSE order[Min(hit)]

----------------------------------------------------------------------------
(* Parts and skeletons.                                                    *)

node(name, parent) == [name |-> name, parent |-> parent, revolute |-> FALSE]
joint(name, parent) == [name |-> name, parent |-> parent, revolute |-> TRUE]

(* Window i of n, in units of 1/n.                                         *)
explode(i, n, leader) == [t0 |-> i, t1 |-> i + 1, of |-> n, leader |-> leader]

Shape(nd, kind, w, h, d, mass, comp) ==
  [node |-> nd, kind |-> kind, ext |-> <<w, h, d>>, pos |-> <<0, 0, 0>>, mass |-> 6 * mass,
   comp |-> <<comp>>, collides |-> TRUE, coloured |-> TRUE, explode |-> None]
box(nd, w, h, d, mass, comp) == Shape(nd, "box", w, h, d, mass, comp)
cyl(nd, h, mass, comp) == Shape(nd, "cyl", 0, h, 0, mass, comp)
At(p, x, y, z) == [p EXCEPT !.pos = <<x, y, z>>]
NoCollision(p) == [p EXCEPT !.collides = FALSE]

refreshExplodeWindows(ps) ==
  [i \in DOMAIN ps |-> [ps[i] EXCEPT !.explode = explode(i - 1, Len(ps), ps[i].comp)]]

multirotorTemplate ==
  LET motors == <<"m0", "m1", "m2", "m3">> IN
  [skeleton |-> <<node("root", None)>> \o [i \in 1..4 |-> node(motors[i], "root")],
   parts |-> <<box("root", 1800, 200, 1400, 120, "frame"),
               At(box("root", 1300, 350, 800, 170, "battery"), 0, 350, 0),
               box("root", 400, 120, 400, 15, "fc")>>
             \o FlattenSeq([i \in 1..4 |-> <<cyl(motors[i], 150, 33, "motor"),
                                             NoCollision(cyl(motors[i], 30, 4, "prop"))>>]),
   mounts |-> [motor |-> Range(motors), prop |-> Range(motors), battery |-> {"root"},
               fc |-> {"root"}, esc |-> {"root"}, frame |-> {"root"}]]

roverTemplate ==
  LET grid == <<<<-700, -950>>, <<-700, 950>>, <<700, -950>>, <<700, 950>>>>
      wheel == <<<<-1600, 1400>>, <<1600, 1400>>, <<-1600, -1400>>, <<1600, -1400>>>> IN
  [skeleton |-> <<node("root", None)>>,
   parts |-> [i \in 1..4 |-> At(box("root", 1400, 700, 1900, 225, "chassis"), grid[i][1], 0, grid[i][2])]
             \o <<NoCollision(At(box("root", 1200, 500, 1000, 220, "compute"), 0, 550, 300))>>
             \o [i \in 1..4 |-> At(cyl("root", 350, 90, "wheel"), wheel[i][1], -300, wheel[i][2])],
   mounts |-> [rover |-> {"root"}, battery |-> {"root"}, fc |-> {"root"}]]

quadrupedTemplate ==
  LET hip == <<"hip_0l", "hip_1l", "hip_2l", "hip_3l">>
      knee == <<"knee_0l", "knee_1l", "knee_2l", "knee_3l">>
      foot == <<"foot_0l", "foot_1l", "foot_2l", "foot_3l">>
      grid == <<<<-750, -1533>>, <<-750, 0>>, <<-750, 1533>>, <<750, -1533>>, <<750, 0>>, <<750, 1533>>>>
  IN
  [skeleton |-> <<node("root", None)>>
                \o FlattenSeq([i \in 1..4 |-> <<joint(hip[i], "root"), joint(knee[i], hip[i]),
                                                node(foot[i], knee[i])>>]),
   parts |-> [i \in 1..6 |-> At(box("root", 1500, 600, 1533, 200, "body"), grid[i][1], 0, grid[i][2])]
             \o FlattenSeq([i \in 1..4 |-> <<At(cyl(knee[i], 1300, 95, "thigh"), 0, 650, 0),
                                             At(cyl(foot[i], 1300, 65, "shank"), 0, 650, 0)>>]),
   mounts |-> [battery |-> {"root"}, fc |-> {"root"}]]

armTemplate ==
  [skeleton |-> <<node("root", None), joint("shoulder", "root"), joint("elbow", "shoulder"),
                  node("wrist", "elbow")>>,
   parts |-> <<cyl("root", 500, 260, "base"),
               At(cyl("shoulder", 2400, 180, "upper-arm"), 0, 1200, 0),
               At(cyl("elbow", 2000, 130, "forearm"), 0, 1000, 0),
               At(box("wrist", 800, 250, 300, 60, "gripper-left"), -300, 400, 0),
               At(box("wrist", 800, 250, 300, 60, "gripper-right"), 300, 400, 0)>>,
   mounts |-> [battery |-> {"root"}, fc |-> {"root"}]]

splitLimb(nd, h, comp, mass) ==
  [s \in 1..2 |-> At([cyl(nd, h \div 2, 0, comp) EXCEPT !.mass = 3 * mass], 0,
                     (h \div 4) * (2 * s - 1), 0)]

bipedTemplate ==
  [skeleton |-> <<node("root", None), node("chest", "root"), node("head", "chest"),
                  node("hp-1", "root"), node("kn-1", "hp-1"), node("an-1", "kn-1"),
                  node("hp1", "root"), node("kn1", "hp1"), node("an1", "kn1"),
                  node("sh-1", "chest"), node("el-1", "sh-1"), node("ha-1", "el-1"),
                  node("sh1", "chest"), node("el1", "sh1"), node("ha1", "el1")>>,
   parts |-> <<box("root", 1800, 1800, 800, 600, "pelvis"),
               At(box("chest", 2000, 1600, 1000, 400, "torso-lower"), 0, -800, 0),
               At(box("chest", 2000, 1600, 1000, 400, "torso-upper"), 0, 800, 0),
               cyl("head", 1000, 200, "head")>>
             \o splitLimb("kn-1", 3900, "left-thigh", 80) \o splitLimb("an-1", 3900, "left-shank", 80)
             \o splitLimb("kn1", 3900, "right-thigh", 80) \o splitLimb("an1", 3900, "right-shank", 80)
             \o <<At(cyl("el-1", 2400, 60, "left-upper-arm"), 0, 1200, 0),
                  At(cyl("ha-1", 2200, 50, "left-forearm"), 0, 1100, 0),
                  At(cyl("el1", 2400, 60, "right-upper-arm"), 0, 1200, 0),
                  At(cyl("ha1", 2200, 50, "right-forearm"), 0, 1100, 0)>>,
   mounts |-> [battery |-> {"root"}, fc |-> {"chest"}]]

fixedwingTemplate ==
  LET offs == <<-1600, 0, 1600>>
      wing(nd) == [i \in 1..3 |-> At(box(nd, 1600, 180, 1200, 40, nd), offs[i], 0, 0)] IN
  [skeleton |-> <<node("root", None), node("leftWing", "root"), node("rightWing", "root"),
                  node("tail", "root"), node("nose", "root")>>,
   parts |-> [i \in 1..3 |-> At([box("root", 800, 600, 2000, 0, "fuselage") EXCEPT !.mass = 560],
                                0, 0, 2000 * (i - 2))]
             \o wing("leftWing") \o wing("rightWing")
             \o <<box("tail", 2200, 150, 800, 40, "tailplane"), cyl("nose", 400, 55, "motor-pod")>>,
   mounts |-> [motor |-> {"nose"}, prop |-> {"nose"}, battery |-> {"root"}, fc |-> {"root"}]]

Template(a) ==
  CASE a = "rover" -> roverTemplate [] a = "quadruped" -> quadrupedTemplate
    [] a = "biped" -> bipedTemplate [] a = "arm" -> armTemplate
    [] a = "fixedwing" -> fixedwingTemplate [] a = "multirotor" -> multirotorTemplate

(* commonSim: collider budget per node and per model.                      *)
Budget == [perNode |-> 8, perModel |-> 24]

(* majorRange: the reference of a component admits its major revision.     *)
componentRef(c) == <<c.id, c.major>>

(* The first retrieved component of each category the template mounts.     *)
catalogSlots(retrieved, mounts) ==
  LET first(i) == \A j \in 1..(i - 1) : retrieved[j].category # retrieved[i].category
      taken == {retrieved[i] : i \in {k \in DOMAIN retrieved : first(k) /\ retrieved[k].category \in DOMAIN mounts}}
  IN [slots |-> {[category |-> c.category, mountNodes |-> mounts[c.category], ref |-> componentRef(c)] :
                   c \in taken},
      lockfile |-> [r \in {componentRef(c) : c \in taken} |-> CHOOSE c \in taken : componentRef(c) = r]]

armParams == [jointNodes |-> <<"shoulder", "elbow">>, endEffector |-> "wrist"]

buildTemplateContract(r, retrieved) ==
  LET a == inferArchetype(r)
      t == Template(a)
      catalog == catalogSlots(retrieved, t.mounts)
  IN [archetype |-> a, skeleton |-> t.skeleton, parts |-> refreshExplodeWindows(t.parts),
      slots |-> catalog.slots, lockfile |-> catalog.lockfile,
      driver |-> IF a = "arm" THEN armParams ELSE None,
      provenance |-> "synthesis", cRating |-> IF a = "multirotor" THEN 130 ELSE 0]

----------------------------------------------------------------------------
(* Repair.                                                                 *)

MaxSpan == 2000

(* The longest extent over the limit; of equal ones the first axis.        *)
SplitAxis(p) ==
  IF p.kind = "cyl" THEN IF p.ext[2] > MaxSpan THEN 2 ELSE 0
  ELSE LET over == {a \in 1..3 : p.ext[a] > MaxSpan}
       IN IF over = {} THEN 0
          ELSE Min({a \in over : \A b \in over : p.ext[b] <= p.ext[a]})

splitOversizedPrimitive(p) ==
  LET a == SplitAxis(p) IN
  IF a = 0 THEN <<p>>
  ELSE LET count == (p.ext[a] + MaxSpan - 1) \div MaxSpan
           span == p.ext[a] \div count
       IN [s \in 1..count |->
             [p EXCEPT !.ext[a] = span, !.mass = p.mass \div count, !.comp = Append(p.comp, s),
                       !.pos[a] = p.pos[a] - p.ext[a] \div 2 + (span \div 2) * (2 * s - 1)]]

repairColours(c) ==
  [c EXCEPT !.parts = [i \in DOMAIN c.parts |-> [c.parts[i] EXCEPT !.coloured = TRUE]]]

repairExplode(c) ==
  [c EXCEPT !.parts = [i \in DOMAIN c.parts |->
     IF c.parts[i].explode # None THEN c.parts[i]
     ELSE [c.parts[i] EXCEPT !.explode = explode(i - 1, Len(c.parts), c.parts[i].comp)]]]

(* All windows are laid out anew when anything has changed by now.         *)
repairOversized(c, flagged, changed) ==
  LET split == \E i \in flagged \cap DOMAIN c.parts : SplitAxis(c.parts[i]) # 0
  IN IF ~changed /\ ~split THEN c
     ELSE [c EXCEPT !.parts = refreshExplodeWindows(FlattenSeq([i \in DOMAIN c.parts |->
             IF i \in flagged THEN splitOversizedPrimitive(c.parts[i]) ELSE <<c.parts[i]>>]))]

(* The arm is driven again through its first two revolute nodes, to its    *)
(* last node.                                                              *)
repairArm(c) ==
  LET rev == SelectSeq(c.skeleton, LAMBDA n : n.revolute)
  IN [c EXCEPT !.driver = [jointNodes |-> [i \in 1..(IF Len(rev) < 2 THEN Len(rev) ELSE 2) |-> rev[i].name],
                           endEffector |-> Last(c.skeleton).name]]

Checks == {"EVAL-ARCHETYPE", "PRV-001", "CTR-005", "CTR-004", "SIM-003", "MFG-004", "BEH-001"}

(* None when nothing was changed: the loop then gives up.                  *)
repairOf(r, retrieved, c, checks, flagged) ==
  IF "EVAL-ARCHETYPE" \in checks THEN buildTemplateContract(r, retrieved)
  ELSE LET c1 == IF "PRV-001" \in checks THEN [c EXCEPT !.provenance = "repair"] ELSE c
           c2 == IF "CTR-005" \in checks THEN repairColours(c1) ELSE c1
           c3 == IF "CTR-004" \in checks THEN repairExplode(c2) ELSE c2
           powered == "SIM-003" \in checks /\ c.archetype = "multirotor"
           c4 == IF powered THEN [c3 EXCEPT !.cRating = Max({@, 150})] ELSE c3
           so == "PRV-001" \in checks \/ powered \/ c4 # c
           c5 == IF "MFG-004" \in checks THEN repairOversized(c4, flagged, so) ELSE c4
           rearm == "BEH-001" \in checks /\ c.archetype = "arm"
           c6 == IF rearm THEN repairArm(c5) ELSE c5
       IN IF so \/ rearm \/ c6 # c THEN c6 ELSE None

(* Components in the order of retrieval.                                   *)
Retrievals == UNION {SetToSeqs(S) : S \in SUBSET Components}

synthesize ==
  /\ contract = None
  /\ \E retrieved \in Retrievals :
       contract' = buildTemplateContract(request, retrieved) @@ [retrieved |-> retrieved]
  /\ UNCHANGED <<request, repairs>>

repair ==
  /\ contract # None /\ repairs < MaxRepairs
  /\ \E checks \in SUBSET Checks, flagged \in Flaggings :
       LET next == repairOf(request, contract.retrieved, contract, checks, flagged)
       IN /\ "MFG-004" \in checks <=> flagged # {}
          /\ IF next = None THEN UNCHANGED <<contract, repairs>>
             ELSE /\ contract' = [retrieved |-> contract.retrieved] @@ next
                  /\ repairs' = repairs + 1
  /\ UNCHANGED request

Init ==
  /\ request \in [named : Requested, mentions : SUBSET Mentions]
  /\ contract = None /\ repairs = 0

Next == synthesize \/ repair
Spec == Init /\ [][Next]_vars
----------------------------------------------------------------------------
Names == {contract.skeleton[i].name : i \in DOMAIN contract.skeleton}
PartIds == DOMAIN contract.parts

\* Types of the request and of the contract's parts.
TypeOK ==
  /\ repairs \in 0..MaxRepairs
  /\ contract # None =>
       /\ contract.archetype \in Archetypes
       /\ \A i \in PartIds : contract.parts[i].mass \in Nat /\ \A a \in 1..3 : contract.parts[i].ext[a] \in Nat

(* Every contract the adapter emits, and every repair of it, hangs         *)
(* together: each node's parent comes before it, each part sits on a node, *)
(* each slot is mounted on nodes, and the arm is driven through nodes that *)
(* turn.                                                                   *)
ContractResolves ==
  contract # None =>
    /\ \A i \in DOMAIN contract.skeleton :
         contract.skeleton[i].parent # None =>
           \E j \in 1..(i - 1) : contract.skeleton[j].name = contract.skeleton[i].parent
    /\ \A i \in PartIds : contract.parts[i].node \in Names
    /\ \A s \in contract.slots : s.mountNodes \subseteq Names
    /\ contract.driver # None =>
         /\ contract.driver.endEffector \in Names
         /\ Len(contract.driver.jointNodes) = 2
         /\ \A i \in 1..2 : \E n \in Range(contract.skeleton) :
              n.name = contract.driver.jointNodes[i] /\ n.revolute

(* One slot per category, each locked to the exact component it was made   *)
(* from, and nothing locked that has no slot.                              *)
SlotsLocked ==
  contract # None =>
    /\ \A s, t \in contract.slots : s.category = t.category => s = t
    /\ DOMAIN contract.lockfile = {s.ref : s \in contract.slots}
    /\ \A s \in contract.slots : contract.lockfile[s.ref].category = s.category

(* The explode windows follow one another without gap or overlap and name  *)
(* their own part, however parts were split and mended.                    *)
WindowsTile ==
  contract # None =>
    \A i \in PartIds : LET p == contract.parts[i] IN
      p.explode = [t0 |-> i - 1, t1 |-> i, of |-> Len(contract.parts), leader |-> p.comp]

TotalMass(ps) == MapThenSumSet(LAMBDA i : ps[i].mass, DOMAIN ps)

(* Splitting changes neither the mass of the model nor the space a part    *)
(* takes: the pieces of a part fill its old extent end to end.             *)
Pieces(p) == {i \in PartIds : contract.parts[i].comp # p.comp /\ contract.parts[i].node = p.node
                              /\ contract.parts[i].comp[1] = p.comp[1]}
SplitsFill ==
  contract # None =>
    LET old == Template(contract.archetype).parts IN
    /\ TotalMass(contract.parts) = TotalMass(old)
    /\ \A k \in DOMAIN old :
         LET p == old[k]
             a == SplitAxis(p)
             lo(q) == q.pos[a] - q.ext[a] \div 2
             hi(q) == q.pos[a] + q.ext[a] \div 2
             ps == {contract.parts[i] : i \in Pieces(p)}
         IN ps # {} /\ a # 0 =>
              /\ \E q \in ps : lo(q) = lo(p) /\ \E z \in ps : hi(z) = hi(p)
              /\ \A q \in ps : hi(q) = hi(p) \/ \E z \in ps : lo(z) = hi(q)
              /\ \A q \in ps : q.ext[a] <= MaxSpan

(* No repair takes the model over the collider budget it declares.         *)
WithinColliderBudget ==
  contract # None =>
    LET hit == {i \in PartIds : contract.parts[i].collides} IN
    /\ Cardinality(hit) <= Budget.perModel
    /\ \A n \in Names : Cardinality({i \in hit : contract.parts[i].node = n}) <= Budget.perNode
=============================================================================
